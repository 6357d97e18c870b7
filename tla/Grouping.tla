------------------------------ MODULE Grouping ------------------------------
(***************************************************************************)
(* How residual patches and model tokens are split into correction groups. *)
(* The client assigns patches (offload/policies/transmission), the server  *)
(* assigns tokens (create_group_index and the group maps of the            *)
(* executors), each with formulas of its own: nothing on the wire but the  *)
(* group number lets one check the other.                                  *)
(*                                                                         *)
(* Rows, columns and patch indices count from 0, groups from 1; lengths    *)
(* and positions are in pixels.                                            *)
(***************************************************************************)
EXTENDS Integers, FiniteSets, Sequences

Least(a, b) == IF a <= b THEN a ELSE b
Most(a, b) == IF a >= b THEN a ELSE b
Ceiling(a, b) == (a + b - 1) \div b

(* The side of a square number of groups, as int(num_groups ** 0.5).        *)
SideOf(groups) == CHOOSE s \in 0..groups : s * s <= groups /\ groups < (s + 1) * (s + 1)

-----------------------------------------------------------------------------
(* grid, block_grid and sequential: the client's rule for a patch.          *)
GridGroup(s, row, col) == (row % s) * s + (col % s) + 1

Band(x, n, s) == Least((x * s) \div Most(n, 1), s - 1)

BlockGroup(s, h, w, row, col) == Band(row, h, s) * s + Band(col, w, s) + 1

SequentialGroupShort(index, n, groups) == 1 + (index * groups) \div Most(n - 1, 1)
SequentialGroup(index, n, groups) == 1 + (index * groups) \div Most(n, 1)

(* expansion: rings around the centre, by rank of an integer key.           *)
ExpansionKey(h, w, row, col) ==
    LET dr == 2 * row - (h - 1)
        dc == 2 * col - (w - 1)
    IN dr * dr * Most(w - 1, 1) * Most(w - 1, 1) + dc * dc * Most(h - 1, 1) * Most(h - 1, 1)

(* The rank of x in the order of key, ties by place.                        *)
RankOf(key, place, x) ==
    Cardinality({y \in DOMAIN key : key[y] < key[x] \/ (key[y] = key[x] /\ place[y] < place[x])})

RankGroup(rank, n, groups) == (rank * groups) \div n + 1

-----------------------------------------------------------------------------
(* The server's tiling of a grid of tokens: the pattern 1..s*s repeated and *)
(* cut (grid), and proportional blocks (block_grid).                        *)
TiledGroup(s, row, col) == [k \in 0..(s * s - 1) |-> k + 1][(row % s) * s + (col % s)]

TiledBlock(s, h, w, row, col) ==
    ((row * s) \div Most(h, 1)) * s + (col * s) \div Most(w, 1) + 1

(* A token of a crop goes by the pixel at its centre; flipped crops are     *)
(* mirrored in the whole image.                                             *)
RowCentre(top, patch, i) == top + i * patch + patch \div 2
ColCentre(left, patch, j, width, flip) ==
    LET x == left + j * patch + patch \div 2 IN IF flip THEN width - 1 - x ELSE x

CropGridGroup(s, patch, y, x) == GridGroup(s, y \div patch, x \div patch)

CropBlockGroup(s, patch, height, width, y, x) ==
    LET h == Most(Ceiling(height, patch), 1)
        w == Most(Ceiling(width, patch), 1)
        row == Least(y \div patch, h - 1)
        col == Least(x \div patch, w - 1)
    IN Least((row * s) \div h, s - 1) * s + Least((col * s) \div w, s - 1) + 1

-----------------------------------------------------------------------------
(* The sliding crops of the segmentor, row by row.  The last one of a row   *)
(* or column is moved back inside the image.                                *)
CropSide(height, width, crop) ==
    IF crop > height /\ crop > width THEN Least(height, width) ELSE crop

CropCount(length, side, stride) == Most(length - side + stride - 1, 0) \div stride + 1

Crops(height, width, crop, stride) ==
    LET side == CropSide(height, width, crop)
        cols == CropCount(width, side, stride)
    IN [k \in 1..(CropCount(height, side, stride) * cols) |->
          LET bottom == Least(((k - 1) \div cols) * stride + side, height)
              right == Least(((k - 1) % cols) * stride + side, width)
          IN [top |-> Most(bottom - side, 0), bottom |-> bottom,
              left |-> Most(right - side, 0), right |-> right]]

Covers(crop, y, x) ==
    crop.top <= y /\ y < crop.bottom /\ crop.left <= x /\ x < crop.right

(* The first crop that covers the pixel, else the last crop.                *)
FirstCover(crops, y, x) ==
    IF \E k \in DOMAIN crops : Covers(crops[k], y, x)
    THEN CHOOSE k \in DOMAIN crops :
             Covers(crops[k], y, x) /\ \A m \in 1..(k - 1) : ~Covers(crops[m], y, x)
    ELSE Len(crops)

-----------------------------------------------------------------------------
(* The detector's windows, three by three, all of the size of the first but *)
(* the last of a row or column.                                             *)
WindowsAcross == 3
WindowSize(length, patch) == Ceiling(length \div WindowsAcross, patch) * patch
WindowAt(length, patch, x) == Least(x \div WindowSize(length, patch), WindowsAcross - 1)
WindowGroup(height, width, patch, y, x) ==
    1 + WindowAt(height, patch, y) * WindowsAcross + WindowAt(width, patch, x)

(* The window the server cuts: its first pixel and its size.                *)
WindowStart(length, patch, k) == k * WindowSize(length, patch)
WindowLength(length, patch, k) ==
    IF k < WindowsAcross - 1 THEN WindowSize(length, patch)
    ELSE length - (WindowsAcross - 1) * WindowSize(length, patch)

-----------------------------------------------------------------------------
(* VGGT: units (frames, patch rows or patches) spread over rounds, the      *)
(* remainder over the first rounds.                                         *)
BucketCeiling(index, units, rounds) == index \div Ceiling(units, rounds)

Bucket(index, units, rounds) ==
    LET base == units \div rounds
        extra == units % rounds
        big == extra * (base + 1)
    IN IF index < big THEN index \div (base + 1) ELSE extra + (index - big) \div base

(* Equal shares of an accumulated score: how many boundaries lie below it.  *)
ShareGroupFromZero(cumulated, total, groups) ==
    Cardinality({k \in 1..(groups - 1) : k * total < cumulated * groups})
ShareGroup(cumulated, total, groups) ==
    1 + Cardinality({k \in 1..(groups - 1) : k * total < cumulated * groups})

(* round(a / b), halves to even.                                            *)
Rounded(a, b) ==
    LET q == a \div b
        r == a % b
    IN IF 2 * r < b \/ (2 * r = b /\ q % 2 = 0) THEN q ELSE q + 1
=============================================================================
