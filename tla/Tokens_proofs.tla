---------------------------- MODULE Tokens_proofs -----------------------------
(***************************************************************************)
(* What the server of Transmission corrects.  Where the client's strategy  *)
(* and the server's grouping match, a token's group is that of the patch   *)
(* under it, though they are computed by different formulas on different   *)
(* grids; so a token is corrected once, and from pixels that have arrived. *)
(***************************************************************************)
EXTENDS Transmission_proofs

-----------------------------------------------------------------------------
(* The configurations that match.                                           *)
Scored == {"uniform_diff", "energy_asc", "energy_desc", "random", "geometric"}
Plain(e) == e.policy \notin Windowed \cup {"VGGT", "FourierBinary"}

(* Mirrored copies of frames are mirrored within the width of the first.    *)
Mirrors(e) ==
    /\ e.flips \subseteq BOOLEAN
    /\ TRUE \in e.flips => \A f \in DOMAIN e.grids : e.grids[f][2][2] = e.grids[1][2][2]

(* The picture has nine windows, none of them empty.                        *)
WindowsFit(e) ==
    \A k \in 0..(WindowsAcross - 1) : /\ WindowLength(Rows(e) * e.patch, e.patch, k) > 0
                                /\ WindowLength(Cols(e) * e.patch, e.patch, k) > 0

(* Every crop begins and ends on the boundary of a patch.                   *)
Aligns(e, crop) ==
    /\ crop.top % e.patch = 0 /\ crop.bottom % e.patch = 0
    /\ crop.left % e.patch = 0 /\ crop.right % e.patch = 0
CropsAligned(e) ==
    LET crops == Crops(Rows(e) * e.patch, Cols(e) * e.patch, e.crop, e.stride)
    IN \A k \in DOMAIN crops : Aligns(e, crops[k])

(* The marks or the payload carry the client's groups; otherwise the        *)
(* executor computes groups of its own by the same strategy.                *)
Match(e) ==
    \/ e.server = "payload" /\ e.flips = {FALSE}
    \/ e.server = "marks" /\ \A f \in DOMAIN e.grids : e.tokens[f] \in Shapes
    \/ /\ e.server = "tokens" /\ Plain(e)
       /\ \/ e.strategy = "grid" /\ Mirrors(e)
          \/ e.strategy \in {"block_grid", "expansion"} /\ e.flips = {FALSE}
    \/ /\ e.server = "windows" /\ WindowsFit(e) /\ e.strategy \notin Scored
       /\ \/ e.policy \in Windowed /\ e.strategy # "grid"
          \/ Plain(e) /\ e.strategy = "grid"
    \/ /\ e.server = "crops" /\ CropsAligned(e) /\ e.flips \subseteq BOOLEAN /\ Plain(e)
       /\ \/ e.strategy \in {"grid", "block_grid"}
          \/ e.strategy = "crop_cover" /\ e.policy \in CropPolicies
    \/ /\ e.server = "ungrouped" /\ Mirrors(e) /\ e.strategy \notin Scored
       /\ \/ e.policy = "FourierBinary"
          \/ Plain(e) /\ e.strategy = "grid" /\ e.policy \notin CropPolicies /\ e.groups = 1

(* Two levels, and residuals only where they are grouped alike; the crop    *)
(* policies announce crops, so they have to send them.                      *)
Matching ==
    \A e \in Encodings :
        /\ Len(e.grids[1]) = 2
        /\ \/ e.baseOnly
           \/ e.policy = "Laplacian"
           \/ Match(e) /\ (e.policy \in CropPolicies => e.strategy = "crop_cover")

-----------------------------------------------------------------------------
(* Positions and patches along an axis.                                     *)

(* Every pixel of a patch is in it.                                         *)
LEMMA PixelOf ==
    ASSUME NEW patch \in Nat \ {0}, NEW m \in Nat, NEW o \in 0 .. patch - 1
    PROVE  (m * patch + o) \div patch = m
<1>1. m * patch \in Nat /\ patch * m = m * patch
  OBVIOUS
<1> DEFINE a == m * patch + o
<1>2. a \in Nat /\ patch * m <= a /\ a < patch * m + patch
  BY <1>1
<1> HIDE DEF a
<1>3. a \div patch = m
  BY <1>2, DivisionUnique
<1>4. QED
  BY <1>3 DEF a

(* Mirrored in a row of n patches, it is in the mirrored patch.             *)
LEMMA PixelMirrored ==
    ASSUME NEW patch \in Nat \ {0}, NEW n \in Nat, NEW m \in 0 .. n - 1, NEW o \in 0 .. patch - 1
    PROVE  (n * patch - 1 - (m * patch + o)) \div patch = n - 1 - m
<1> DEFINE k == n - 1 - m
           u == patch - 1 - o
<1>1. k \in Nat /\ u \in 0 .. patch - 1
  OBVIOUS
<1>2. n * patch - 1 - (m * patch + o) = k * patch + u
  <2>1. k * patch = n * patch - patch - m * patch
    OBVIOUS
  <2>2. n * patch \in Int /\ m * patch \in Int
    OBVIOUS
  <2> DEFINE a == n * patch
             b == m * patch
             c == k * patch
  <2> HIDE DEF a, b, c, k
  <2>3. a - 1 - (b + o) = c + u
    BY <2>1, <2>2 DEF a, b, c
  <2>4. QED
    BY <2>3 DEF a, b, c
<1> HIDE DEF k, u
<1>3. (k * patch + u) \div patch = k
  BY <1>1, PixelOf
<1>4. QED
  BY <1>2, <1>3 DEF k

(* A boundary of patches has all pixels of a patch on one side.             *)
LEMMA SameSide ==
    ASSUME NEW patch \in Nat \ {0}, NEW a \in Nat, a % patch = 0,
           NEW x \in Nat, NEW y \in Nat, x \div patch = y \div patch
    PROVE  a <= x <=> a <= y
<1>1. ASSUME NEW u \in Nat, NEW v \in Nat, u \div patch = v \div patch, a <= u
      PROVE  a <= v
  <2> DEFINE q == a \div patch
             k == u \div patch
  <2>1. /\ q \in Nat /\ a % patch \in 0 .. patch - 1
        /\ a = patch * q + (a % patch)
    BY Division
  <2>2. /\ k \in Nat
        /\ u < patch * k + patch
        /\ patch * k <= v
    BY <1>1, Division
  <2> HIDE DEF q, k
  <2>3. a = patch * q
    BY <2>1
  <2>4. patch * q < patch * (k + 1)
    <3>1. patch * (k + 1) = patch * k + patch /\ patch * k \in Nat
      BY <2>2
    <3>2. QED
      BY <1>1, <2>2, <2>3, <3>1
  <2>5. q < k + 1
    BY <2>1, <2>2, <2>4, Cancel
  <2>6. patch * q <= patch * k
    <3>1. \E d \in Nat : k = q + d
      BY <2>1, <2>2, <2>5, k - q \in Nat
    <3>2. PICK d \in Nat : k = q + d
      BY <3>1
    <3>3. patch * k = patch * q + patch * d /\ patch * d \in Nat /\ patch * q \in Nat
      BY <2>1, <3>2
    <3>4. QED
      BY <3>3
  <2>7. patch * k \in Nat /\ patch * q \in Nat
    BY <2>1, <2>2
  <2>8. QED
    BY <2>2, <2>3, <2>6, <2>7
<1>2. QED
  BY <1>1

(* The windows of an axis of n patches: each begins on a patch and holds    *)
(* the patches of its group.                                                *)
InWindow(n, patch, k, r) ==
    \E start \in Nat :
        /\ WindowStart(n * patch, patch, k) = start * patch
        /\ start + r \in 0 .. n - 1
        /\ WindowAt(n * patch, patch, (start + r) * patch) = k
        /\ WindowStart(n * patch, patch, k) \div WindowSize(n * patch, patch) = k

(* So does the r-th patch of the k-th window.                               *)
LEMMA WindowOfPatch ==
    ASSUME NEW patch \in Nat \ {0}, NEW n \in Nat \ {0}, NEW k \in 0 .. WindowsAcross - 1,
           WindowLength(n * patch, patch, 0) > 0,
           WindowLength(n * patch, patch, WindowsAcross - 1) > 0,
           NEW r \in 0 .. (WindowLength(n * patch, patch, k) \div patch) - 1
    PROVE  InWindow(n, patch, k, r)
<1> DEFINE count == Ceiling((n * patch) \div WindowsAcross, patch)
           size == count * patch
           start == k * count
<1>1. n * patch \in Nat /\ k \in {0, 1, 2} /\ WindowsAcross = 3
  BY DEF WindowsAcross
<1>2. size = WindowSize(n * patch, patch) /\ size \in Nat \ {0}
  BY <1>1, WindowSizeType DEF WindowSize
<1>3. count \in Nat \ {0}
  <2> DEFINE third == (n * patch) \div WindowsAcross
             sum == third + patch - 1
  <2>1. third \in Nat
    <3>1. \A a \in Nat : a \div 3 \in Nat
      OBVIOUS
    <3>2. QED
      BY <1>1, <3>1
  <2> HIDE DEF third
  <2>2. sum \in Nat
    BY <2>1
  <2> HIDE DEF sum
  <2>3. sum \div patch \in Nat
    BY <2>2, Division
  <2>4. count = sum \div patch
    BY DEF Ceiling, sum, third
  <2>5. count # 0
    BY <1>2
  <2>6. QED
    BY <2>3, <2>4, <2>5
<1> HIDE DEF count
<1>4. start \in Nat /\ start * patch = k * size
  BY <1>1, <1>3
<1>5. 2 * count < n /\ (n - 2 * count) * patch = n * patch - 2 * size
  <2>1. WindowLength(n * patch, patch, WindowsAcross - 1) = n * patch - 2 * size
    BY <1>1, <1>2 DEF WindowLength
  <2>2. 2 * size = patch * (2 * count) /\ n * patch = patch * n
    BY <1>3
  <2>3. patch * (2 * count) < patch * n
    <3>1. patch * (2 * count) \in Nat /\ patch * n \in Nat
      BY <1>3
    <3> HIDE DEF size
    <3>2. QED
      BY <2>1, <2>2, <3>1
  <2>4. 2 * count \in Nat
    BY <1>3
  <2>5. 2 * count < n
    BY <2>3, <2>4, Cancel
  <2>6. (n - 2 * count) * patch = n * patch - 2 * size
    BY <1>3
  <2>7. QED
    BY <2>5, <2>6
<1>6. WindowLength(n * patch, patch, k) \div patch = IF k < 2 THEN count ELSE n - 2 * count
  <2>1. CASE k < 2
    <3>1. WindowLength(n * patch, patch, k) = count * patch
      BY <1>1, <1>2, <2>1 DEF WindowLength
    <3>2. QED
      BY <1>3, <2>1, <3>1, DivisionExact
  <2>2. CASE ~(k < 2)
    <3> DEFINE rest == n - 2 * count
    <3>1. rest \in Nat
      BY <1>3, <1>5
    <3>2. WindowLength(n * patch, patch, k) = rest * patch
      BY <1>1, <1>2, <1>5, <2>2 DEF WindowLength
    <3> HIDE DEF rest
    <3>3. (rest * patch) \div patch = rest
      BY <3>1, DivisionExact
    <3>4. QED
      BY <2>2, <3>2, <3>3 DEF rest
  <2>3. QED
    BY <2>1, <2>2
<1>7. r \in Nat /\ (k < 2 => r < count) /\ start + r \in 0 .. n - 1
  <2>1. r \in 0 .. (IF k < 2 THEN count ELSE n - 2 * count) - 1
    BY <1>6
  <2>2. k = 0 => start = 0
    BY <1>3
  <2>3. k = 1 => start = count
    BY <1>3
  <2>4. k = 2 => start = 2 * count
    BY <1>3
  <2> HIDE DEF start
  <2>5. QED
    BY <1>1, <1>3, <1>5, <2>1, <2>2, <2>3, <2>4
<1>8. WindowAt(n * patch, patch, (start + r) * patch) = k
  <2> DEFINE x == (start + r) * patch
  <2>1. x = size * k + r * patch /\ x \in Nat /\ size * k \in Nat /\ r * patch \in Nat
    BY <1>1, <1>3, <1>4, <1>7
  <2>2. WindowAt(n * patch, patch, x) = Least(x \div size, 2)
    BY <1>1, <1>2 DEF WindowAt
  <2>3. CASE k < 2
    <3>1. r * patch < size
      <4>1. (count - r) * patch \in Nat \ {0}
        <5>1. count - r \in Nat \ {0}
          BY <1>3, <1>7, <2>3
        <5>2. QED
          BY <5>1
      <4>2. (count - r) * patch = size - r * patch
        BY <1>3, <1>7
      <4>3. QED
        BY <1>2, <2>1, <4>1, <4>2
    <3> HIDE DEF x, size
    <3>2. size * k <= x /\ x < size * k + size
      BY <2>1, <3>1, <1>2
    <3>3. x \div size = k
      BY <1>1, <1>2, <2>1, <3>2, DivisionUnique
    <3>4. QED
      BY <1>1, <2>2, <2>3, <3>3 DEF Least, x
  <2>4. CASE ~(k < 2)
    <3>1. k = 2
      BY <1>1, <2>4
    <3> HIDE DEF x, size
    <3> DEFINE q == x \div size
    <3>2. q \in Nat /\ x < size * q + size
      BY <1>2, <2>1, Division
    <3> HIDE DEF q
    <3>3. size * 2 < size * (q + 1)
      <4>1. size * (q + 1) = size * q + size /\ size * q \in Nat
        BY <1>2, <3>2
      <4>2. QED
        BY <1>2, <2>1, <3>1, <3>2, <4>1
    <3>4. 2 < q + 1
      BY <1>2, <3>2, <3>3, Cancel
    <3>5. Least(q, 2) = 2
      BY <3>2, <3>4 DEF Least
    <3>6. QED
      BY <2>2, <3>1, <3>5 DEF q, x
  <2>5. QED
    BY <2>3, <2>4
<1>9. WindowStart(n * patch, patch, k) = k * size
  BY <1>2 DEF WindowStart
<1>10. (k * size) \div size = k
  <2> HIDE DEF size
  <2>1. QED
    BY <1>1, <1>2, DivisionExact
<1>11. QED
  BY <1>2, <1>4, <1>7, <1>8, <1>9, <1>10 DEF InWindow

(* The crops lie inside the picture.                                        *)
Inside(c, height, width) ==
    /\ c.top \in Nat /\ c.bottom \in Int /\ c.bottom <= height
    /\ c.left \in Nat /\ c.right \in Int /\ c.right <= width

(* Moved back, if need be.                                                  *)
LEMMA CropInside ==
    ASSUME NEW height \in Nat, NEW width \in Nat, NEW crop \in Nat, NEW stride \in Nat \ {0},
           NEW k \in DOMAIN Crops(height, width, crop, stride)
    PROVE  Inside(Crops(height, width, crop, stride)[k], height, width)
<1> DEFINE side == CropSide(height, width, crop)
           rows == CropCount(height, side, stride)
           cols == CropCount(width, side, stride)
           i == (k - 1) \div cols
           j == (k - 1) % cols
           bottom == Least(i * stride + side, height)
           right == Least(j * stride + side, width)
<1>1. side \in Nat
  BY DEF CropSide, Least
<1>2. Crops(height, width, crop, stride) \in Seq(Crop)
  BY CropsType
<1>3. DOMAIN Crops(height, width, crop, stride) = 1 .. rows * cols
  BY DEF Crops
<1>4. Crops(height, width, crop, stride)[k] =
        [top |-> Most(bottom - side, 0), bottom |-> bottom,
         left |-> Most(right - side, 0), right |-> right]
  BY <1>3 DEF Crops
<1>5. Crops(height, width, crop, stride)[k] \in Crop
  BY <1>2
<1>6. bottom \in Int /\ right \in Int
  BY <1>4, <1>5 DEF Crop
<1>7. bottom <= height /\ right <= width
  <2>1. i * stride + side \in Int /\ j * stride + side \in Int
    <3>1. k - 1 \in Nat
      <4>1. k \in 1 .. rows * cols
        BY <1>3
      <4>2. QED
        BY <4>1
    <3>2. cols \in Nat \ {0}
      BY <1>1, CropCountPositive
    <3> HIDE DEF cols, side
    <3>3. \A a \in Nat : a \div cols \in Nat /\ a % cols \in 0 .. cols - 1
      BY <3>2, Division
    <3>4. i \in Nat /\ j \in Nat
      <4>1. i \in Nat /\ j \in 0 .. cols - 1
        BY <3>1, <3>3
      <4>2. QED
        BY <4>1, <3>2
    <3> HIDE DEF i, j
    <3>5. QED
      BY <1>1, <3>4
  <2> DEFINE a == i * stride + side
             b == j * stride + side
  <2>2. \A u \in Int, v \in Nat : Least(u, v) <= v
    BY DEF Least
  <2>3. a \in Int /\ b \in Int /\ bottom = Least(a, height) /\ right = Least(b, width)
    BY <2>1
  <2> HIDE DEF a, b, bottom, right
  <2>4. QED
    BY <2>2, <2>3
<1> HIDE DEF bottom, right, side
<1>8. Most(bottom - side, 0) \in Nat /\ Most(right - side, 0) \in Nat
  BY <1>1, <1>6 DEF Most
<1>9. QED
  BY <1>4, <1>6, <1>7, <1>8 DEF Inside

(* Pixels of one patch are covered alike by crops that begin and end on     *)
(* patches, and so have the same group.                                     *)
OnPatches(crops, patch) ==
    \A k \in DOMAIN crops :
        /\ crops[k].left % patch = 0 /\ crops[k].right % patch = 0 /\ crops[k].left \in Nat

(* In a row of pixels.                                                      *)
LEMMA SameCover ==
    ASSUME NEW patch \in Nat \ {0}, NEW crops \in Seq(Crop), OnPatches(crops, patch),
           NEW y \in Nat, NEW x \in Nat, NEW z \in Nat, x \div patch = z \div patch
    PROVE  FirstCover(crops, y, x) = FirstCover(crops, y, z)
<1>1. ASSUME NEW k \in DOMAIN crops
      PROVE  Covers(crops[k], y, x) <=> Covers(crops[k], y, z)
  <2> DEFINE left == crops[k].left
             right == crops[k].right
  <2>1. left \in Nat /\ right \in Int /\ left % patch = 0 /\ right % patch = 0
    <3>1. crops[k] \in Crop
      OBVIOUS
    <3>2. right \in Int
      BY <3>1 DEF Crop
    <3>3. QED
      BY <3>2 DEF OnPatches
  <2>2. left <= x <=> left <= z
    BY <2>1, SameSide
  <2>3. x < right <=> z < right
    <3>1. CASE right \in Nat
      <4>1. right <= x <=> right <= z
        BY <2>1, <3>1, SameSide
      <4> HIDE DEF right
      <4>2. QED
        BY <2>1, <4>1
    <3>2. CASE right \notin Nat
      <4> HIDE DEF right
      <4>1. QED
        BY <2>1, <3>2
    <3>3. QED
      BY <3>1, <3>2
  <2>4. QED
    BY <2>2, <2>3 DEF Covers
<1>2. ASSUME NEW k \in DOMAIN crops
      PROVE  (\A m \in 1..(k - 1) : ~Covers(crops[m], y, x))
             <=> (\A m \in 1..(k - 1) : ~Covers(crops[m], y, z))
  <2>1. \A m \in 1..(k - 1) : m \in DOMAIN crops
    OBVIOUS
  <2>2. QED
    BY <1>1, <2>1
<1>3. (\E k \in DOMAIN crops : Covers(crops[k], y, x))
      <=> (\E k \in DOMAIN crops : Covers(crops[k], y, z))
  BY <1>1
<1> DEFINE First(k, u) == Covers(crops[k], y, u) /\ \A m \in 1..(k - 1) : ~Covers(crops[m], y, u)
<1>4. \A k \in DOMAIN crops : First(k, x) <=> First(k, z)
  BY <1>1, <1>2
<1>5. \A u : FirstCover(crops, y, u) =
               IF \E k \in DOMAIN crops : Covers(crops[k], y, u)
               THEN CHOOSE k \in DOMAIN crops : First(k, u) ELSE Len(crops)
  BY DEF FirstCover
<1> HIDE DEF First
<1>6. (CHOOSE k \in DOMAIN crops : First(k, x)) = CHOOSE k \in DOMAIN crops : First(k, z)
  BY <1>4
<1>7. QED
  BY <1>3, <1>5, <1>6

-----------------------------------------------------------------------------
(* A token that begins on a patch sees that patch and no other.             *)
Column(t, left) ==
    IF t.source.flip THEN Width(1, Finest) - 1 - (left + t.col) ELSE left + t.col

(* Its pixels are those of the patch, mirrored or not.                      *)
LEMMA UnderPatch ==
    ASSUME enc \in Encodings, enc.server # "marks", NEW t, NEW top \in Nat, NEW left \in Nat,
           t.source.top = top * enc.patch, t.source.left = left * enc.patch,
           t.row \in Nat, t.col \in Nat,
           t.source.flip => left + t.col \in 0 .. Width(1, Finest) - 1
    PROVE  Under(t) = {Cell(t.source.frame, top + t.row, Column(t, left))}
<1> DEFINE patch == enc.patch
           row == top + t.row
           col == left + t.col
           w == Width(1, Finest)
           ys == {t.source.top + t.row * patch, t.source.top + (t.row + 1) * patch - 1}
           xs == {t.source.left + t.col * patch, t.source.left + (t.col + 1) * patch - 1}
           seen(x) == IF t.source.flip THEN PixelWidth - 1 - x ELSE x
<1>1. patch \in Nat \ {0} /\ w \in Nat \ {0} /\ row \in Nat /\ col \in Nat
  <2>1. enc.patch \in Nat \ {0} /\ 1 \in Frames /\ Finest \in 1..Finest
    BY GridType
  <2>2. Width(1, Finest) \in Nat \ {0}
    BY <2>1, GridType
  <2>3. QED
    BY <2>1, <2>2
<1>2. PixelWidth = w * patch
  BY DEF PixelWidth
<1>3. ASSUME NEW a \in Nat, NEW i \in Nat
      PROVE  /\ a * patch + i * patch = (a + i) * patch + 0
             /\ a * patch + (i + 1) * patch - 1 = (a + i) * patch + (patch - 1)
  <2> HIDE DEF patch
  <2>1. /\ (a + i) * patch = a * patch + i * patch
        /\ (i + 1) * patch = i * patch + patch
        /\ a * patch \in Nat /\ i * patch \in Nat
    BY <1>1
  <2> DEFINE b == a * patch
             d == i * patch
             e == (a + i) * patch
             f == (i + 1) * patch
  <2>2. e = b + d /\ f = d + patch /\ b \in Nat /\ d \in Nat
    BY <2>1
  <2> HIDE DEF b, d, e, f
  <2>3. b + d = e + 0 /\ b + f - 1 = e + (patch - 1)
    BY <1>1, <2>2
  <2>4. QED
    BY <2>3 DEF b, d, e, f
<1>4. /\ ys = {row * patch + 0, row * patch + (patch - 1)}
      /\ xs = {col * patch + 0, col * patch + (patch - 1)}
  <2>1. t.source.top = top * patch /\ t.source.left = left * patch
    OBVIOUS
  <2> HIDE DEF patch
  <2>2. /\ top * patch + t.row * patch = row * patch + 0
        /\ top * patch + (t.row + 1) * patch - 1 = row * patch + (patch - 1)
    BY <1>3
  <2>3. /\ left * patch + t.col * patch = col * patch + 0
        /\ left * patch + (t.col + 1) * patch - 1 = col * patch + (patch - 1)
    BY <1>3
  <2> HIDE DEF row, col
  <2>4. QED
    BY <2>1, <2>2, <2>3
<1>5. \A o \in 0 .. patch - 1 : (row * patch + o) \div patch = row
  <2> HIDE DEF patch, row
  <2>1. QED
    BY <1>1, PixelOf
<1>6. \A o \in 0 .. patch - 1 : seen(col * patch + o) \div patch = Column(t, left)
  <2> SUFFICES ASSUME NEW o \in 0 .. patch - 1
               PROVE  seen(col * patch + o) \div patch = Column(t, left)
    OBVIOUS
  <2>1. Column(t, left) = IF t.source.flip THEN w - 1 - col ELSE col
    BY DEF Column
  <2>2. t.source.flip => col \in 0 .. w - 1
    OBVIOUS
  <2> HIDE DEF patch, col, w
  <2>3. CASE t.source.flip
    <3>1. col \in 0 .. w - 1 /\ w \in Nat
      BY <1>1, <2>2, <2>3
    <3>2. (w * patch - 1 - (col * patch + o)) \div patch = w - 1 - col
      BY <1>1, <3>1, PixelMirrored
    <3>3. QED
      BY <1>2, <2>1, <2>3, <3>2
  <2>4. CASE ~t.source.flip
    <3>1. (col * patch + o) \div patch = col
      BY <1>1, PixelOf
    <3>2. QED
      BY <2>1, <2>4, <3>1
  <2>5. QED
    BY <2>3, <2>4
<1>7. Under(t) = {Cell(t.source.frame, y \div patch, seen(x) \div patch) : y \in ys, x \in xs}
  BY DEF Under
<1> HIDE DEF seen
<1>8. 0 \in 0 .. patch - 1 /\ patch - 1 \in 0 .. patch - 1
  BY <1>1
<1>9. /\ \A y \in ys : y \div patch = row
      /\ \A x \in xs : seen(x) \div patch = Column(t, left)
      /\ ys # {} /\ xs # {}
  <2> HIDE DEF patch, row, col
  <2>1. /\ \A y \in ys : y = row * patch + 0 \/ y = row * patch + (patch - 1)
        /\ \A x \in xs : x = col * patch + 0 \/ x = col * patch + (patch - 1)
        /\ ys # {} /\ xs # {}
    BY <1>4
  <2> HIDE DEF ys, xs
  <2>2. QED
    BY <1>5, <1>6, <1>8, <2>1
<1> HIDE DEF ys, xs, patch, row
<1>10. \A c : c \in Under(t) <=> c = Cell(t.source.frame, row, Column(t, left))
  <2>1. \A y \in ys, x \in xs :
          Cell(t.source.frame, y \div patch, seen(x) \div patch)
            = Cell(t.source.frame, row, Column(t, left))
    BY <1>9
  <2>2. QED
    BY <1>7, <1>9, <2>1
<1>11. QED
  BY <1>10 DEF row

(* The patch a token sees, which is the one it is grouped by.               *)
Agrees(t) ==
    \E c \in Cells :
        /\ Under(t) = {c}
        /\ enc.server = "payload" => c = Cell(t.source.frame, t.row, t.col)
        /\ enc.server \notin {"payload", "marks"} => GroupOf(c) = TokenGroup(t)

(* A place of a frame is a cell.                                            *)
LEMMA CellType ==
    ASSUME enc \in Encodings, NEW f \in Frames,
           NEW row \in 0 .. Height(f, Finest) - 1, NEW col \in 0 .. Width(f, Finest) - 1
    PROVE  /\ Cell(f, row, col) \in Cells
           /\ Cell(f, row, col).frame = f /\ Cell(f, row, col).level = Finest
           /\ Cell(f, row, col).row = row /\ Cell(f, row, col).col = col
<1>1. Finest \in 1..Finest /\ Height(f, Finest) \in Nat /\ Width(f, Finest) \in Nat
  BY GridType
<1>2. row \in Nat /\ col \in Nat /\ row < Height(f, Finest) /\ col < Width(f, Finest)
  BY <1>1
<1>3. Cell(f, row, col) \in PatchesAt(Finest)
  BY <1>1, <1>2, PatchType DEF Cell
<1>4. QED
  BY <1>3 DEF Cell, Cells

(* The sources, by the grouping of the executor.                            *)
CropSource(c, flip) ==
    Source(c.top, c.left, (c.bottom - c.top) \div enc.patch, (c.right - c.left) \div enc.patch, flip)
CropSources ==
    {CropSource(c, flip) : c \in {CropList[k] : k \in DOMAIN CropList}, flip \in enc.flips}
WindowSource(k, m) ==
    Source(WindowStart(PixelHeight, enc.patch, k), WindowStart(PixelWidth, enc.patch, m),
           WindowLength(PixelHeight, enc.patch, k) \div enc.patch,
           WindowLength(PixelWidth, enc.patch, m) \div enc.patch, FALSE)
WindowSources == {WindowSource(k, m) : k \in 0..(WindowsAcross - 1), m \in 0..(WindowsAcross - 1)}
MarkSources ==
    {[Source(0, 0, enc.tokens[f][1], enc.tokens[f][2], FALSE) EXCEPT !.frame = f] : f \in Frames}
WholeSources ==
    {[Source(0, 0, Height(f, Finest), Width(f, Finest), flip) EXCEPT !.frame = f] :
       f \in Frames, flip \in enc.flips}

(* Each executor has its own.                                               *)
LEMMA SourcesOf ==
    Sources = CASE enc.server = "crops" -> CropSources
                [] enc.server = "windows" -> WindowSources
                [] enc.server = "marks" -> MarkSources
                [] OTHER -> WholeSources
BY DEF Sources, CropSources, CropSource, WindowSources, WindowSource, MarkSources, WholeSources

(* The tokens of a whole picture.                                           *)
LEMMA WholeToken ==
    ASSUME enc \in Encodings, enc.server \in {"payload", "tokens", "ungrouped"}, NEW t \in Tokens
    PROVE  /\ t.source.frame \in Frames /\ t.source.top = 0 /\ t.source.left = 0
           /\ t.source.rows = Height(t.source.frame, Finest)
           /\ t.source.cols = Width(t.source.frame, Finest)
           /\ t.source.flip \in enc.flips
           /\ t.row \in 0 .. Height(t.source.frame, Finest) - 1
           /\ t.col \in 0 .. Width(t.source.frame, Finest) - 1
<1>1. Sources = WholeSources
  BY SourcesOf
<1>2. PICK s \in Sources : t \in [source : {s}, row : 0..(s.rows - 1), col : 0..(s.cols - 1)]
  BY DEF Tokens
<1>3. PICK f \in Frames, flip \in enc.flips :
        s = [Source(0, 0, Height(f, Finest), Width(f, Finest), flip) EXCEPT !.frame = f]
  BY <1>1, <1>2 DEF WholeSources
<1>4. s = [frame |-> f, top |-> 0, left |-> 0, rows |-> Height(f, Finest),
           cols |-> Width(f, Finest), flip |-> flip]
  BY <1>3 DEF Source
<1>5. QED
  BY <1>2, <1>4

(* Such a token sees the patch of its own place, or of the mirrored one.    *)
LEMMA UnderWhole ==
    ASSUME enc \in Encodings, enc.server \in {"payload", "tokens", "ungrouped"}, NEW t \in Tokens,
           enc.flips \subseteq BOOLEAN,
           TRUE \in enc.flips =>
             \A f \in Frames : Width(f, Finest) = Width(1, Finest)
    PROVE  LET col == Mirrored(t.source, t.col)
           IN /\ Under(t) = {Cell(t.source.frame, t.row, col)}
              /\ col \in 0 .. Width(t.source.frame, Finest) - 1
<1> DEFINE s == t.source
           w == Width(s.frame, Finest)
<1>1. /\ s.frame \in Frames /\ s.top = 0 /\ s.left = 0 /\ s.cols = w /\ s.flip \in enc.flips
      /\ t.row \in 0 .. Height(s.frame, Finest) - 1
      /\ t.col \in 0 .. w - 1
  BY WholeToken
<1>2. Finest \in 1..Finest /\ enc.patch \in Nat \ {0} /\ w \in Nat \ {0}
      /\ Height(s.frame, Finest) \in Nat \ {0}
  BY <1>1, GridType
<1>3. t.row \in Nat /\ t.col \in Nat
  BY <1>1, <1>2
<1>4. s.flip => w = Width(1, Finest)
  BY <1>1
<1>5. 0 * enc.patch = 0
  BY <1>2
<1>6. s.flip => 0 + t.col \in 0 .. Width(1, Finest) - 1
  BY <1>1, <1>3, <1>4
<1>7. Under(t) = {Cell(s.frame, 0 + t.row, Column(t, 0))}
  BY <1>1, <1>3, <1>5, <1>6, UnderPatch
<1>8. Column(t, 0) = Mirrored(s, t.col) /\ Mirrored(s, t.col) \in 0 .. w - 1
  <2>1. Column(t, 0) = IF s.flip THEN w - 1 - t.col ELSE t.col
    BY <1>3, <1>4 DEF Column
  <2> HIDE DEF w
  <2>2. QED
    BY <1>1, <1>2, <1>3, <2>1 DEF Mirrored
<1>9. QED
  BY <1>3, <1>7, <1>8

-----------------------------------------------------------------------------
(* expansion: the client ranks the residual structure of a frame, the       *)
(* server a grid of numbers; with two levels they are the same grid.        *)
LEMMA StructureIsGrid ==
    ASSUME enc \in Encodings, Finest = 2, ~enc.baseOnly, NEW f \in Frames
    PROVE  /\ Structure(f) = Grid(f, 2) /\ Structure(f) \subseteq Cells
           /\ Count(f) = Height(f, 2) * Width(f, 2)
           /\ \A q \in Structure(f) : Place(q) = SpatialIdx(q)
<1>1. Residuals = PatchesAt(2) /\ Cells = PatchesAt(2)
  <2>1. 2 .. 2 = {2}
    OBVIOUS
  <2>2. QED
    BY <2>1 DEF Residuals, Cells
<1>2. \A q \in PatchesAt(2) : q.frame = f => q \in Grid(f, 2)
  BY PatchFields DEF Grid
<1>3. \A q \in Grid(f, 2) : q \in PatchesAt(2) /\ q.frame = f /\ q.level = 2
  BY DEF Grid, PatchesAt
<1>4. Structure(f) = Grid(f, 2)
  BY <1>1, <1>2, <1>3 DEF Structure
<1>5. Count(f) = Height(f, 2) * Width(f, 2)
  BY <1>4, GridSize DEF Count
<1>6. ASSUME NEW q \in Structure(f) PROVE Place(q) = SpatialIdx(q)
  <2>1. q.frame = f /\ q.level = 2
    BY <1>3, <1>4
  <2>2. {r \in Structure(q.frame) : r.level < q.level} = {}
    BY <1>3, <1>4, <2>1
  <2>3. Cardinality({}) = 0
    BY FS_EmptySet
  <2>4. SpatialIdx(q) \in Nat
    <3>1. q \in PatchesAt(2) /\ 2 \in 1..Finest
      BY <1>3, <1>4
    <3>2. SpatialIdx(q) \in 0 .. Height(q.frame, 2) * Width(q.frame, 2) - 1
      BY <3>1, SpatialIdxType
    <3>3. Height(q.frame, 2) * Width(q.frame, 2) \in Int
      BY <2>1, GridType
    <3>4. QED
      BY <3>2, <3>3
  <2>5. QED
    BY <2>2, <2>3, <2>4 DEF Place
<1>7. QED
  BY <1>1, <1>3, <1>4, <1>5, <1>6

(* A grid of rows of w places, numbered row by row.                         *)
LEMMA PlaceOfIndex ==
    ASSUME NEW h \in Nat \ {0}, NEW w \in Nat \ {0}
    PROVE  /\ \A row \in 0 .. h - 1, col \in 0 .. w - 1 :
                /\ row * w + col \in 0 .. h * w - 1
                /\ (row * w + col) \div w = row /\ (row * w + col) % w = col
           /\ \A i \in 0 .. h * w - 1 :
                /\ i \div w \in 0 .. h - 1 /\ i % w \in 0 .. w - 1
                /\ (i \div w) * w + (i % w) = i
<1>1. h * w \in Nat
  OBVIOUS
<1>2. ASSUME NEW row \in 0 .. h - 1, NEW col \in 0 .. w - 1
      PROVE  /\ row * w + col \in 0 .. h * w - 1
             /\ (row * w + col) \div w = row /\ (row * w + col) % w = col
  <2> DEFINE i == row * w + col
             a == row * w
             b == (h - 1 - row) * w
  <2>1. a \in Nat /\ b \in Nat /\ h * w = a + b + w /\ w * row = a
    <3>1. (h - 1 - row) * w = h * w - w - row * w
      OBVIOUS
    <3>2. h - 1 - row \in Nat
      OBVIOUS
    <3>3. (h - 1 - row) * w \in Nat
      BY <3>2
    <3>4. row * w \in Nat /\ w * row = row * w
      OBVIOUS
    <3> DEFINE c == h * w
    <3>5. b = c - w - a /\ a \in Nat /\ b \in Nat /\ c \in Nat
      BY <1>1, <3>1, <3>3, <3>4
    <3> HIDE DEF a, b, c
    <3>6. c = a + b + w
      BY <3>5
    <3>7. QED
      BY <3>4, <3>5, <3>6 DEF c, a
  <2>2. i \in Nat /\ i \in 0 .. h * w - 1
    <3> DEFINE c == h * w
    <3>1. i = a + col /\ c = a + b + w
      BY <2>1
    <3> HIDE DEF a, b, c, i
    <3>2. i \in 0 .. c - 1
      BY <2>1, <3>1
    <3>3. QED
      BY <3>2 DEF c
  <2>3. i \div w = row
    <3> HIDE DEF i
    <3>1. (row * w + col) \div w = row
      BY PixelOf
    <3>2. QED
      BY <3>1 DEF i
  <2>4. i % w = col
    <3> HIDE DEF i
    <3>1. i % w \in 0 .. w - 1 /\ i = (w * (i \div w)) + (i % w)
      BY <2>2, Division
    <3>2. i = a + (i % w)
      BY <2>1, <2>3, <3>1
    <3>3. i = a + col
      BY DEF i
    <3> HIDE DEF a
    <3>4. QED
      BY <2>1, <3>1, <3>2, <3>3
  <2>5. QED
    BY <2>2, <2>3, <2>4
<1>3. ASSUME NEW i \in 0 .. h * w - 1
      PROVE  /\ i \div w \in 0 .. h - 1 /\ i % w \in 0 .. w - 1
             /\ (i \div w) * w + (i % w) = i
  <2>1. i \in Nat /\ i < h * w
    BY <1>1
  <2>2. i \div w \in Nat /\ i % w \in 0 .. w - 1 /\ i = (w * (i \div w)) + (i % w)
    BY <2>1, Division
  <2>3. h * w = w * h
    OBVIOUS
  <2>4. i \div w < h
    BY <2>1, <2>3, DivisionBound
  <2>5. w * (i \div w) = (i \div w) * w
    BY <2>2
  <2>6. QED
    BY <2>2, <2>4, <2>5
<1>4. QED
  BY <1>2, <1>3

(* The server's keys, by number.                                            *)
Numbers(f) == 0 .. Height(f, 2) * Width(f, 2) - 1
NumberKeys(f) ==
    [i \in Numbers(f) |->
       ExpansionKey(Height(f, 2), Width(f, 2), i \div Width(f, 2), i % Width(f, 2))]

(* Every number is that of one patch, with the same key.                    *)
LEMMA NumberOfPatch ==
    ASSUME enc \in Encodings, Finest = 2, ~enc.baseOnly, NEW f \in Frames
    PROVE  /\ \A q \in Structure(f) :
                /\ SpatialIdx(q) \in Numbers(f)
                /\ NumberKeys(f)[SpatialIdx(q)] = RingKeys(f)[q]
           /\ \A q, r \in Structure(f) : SpatialIdx(q) = SpatialIdx(r) => q = r
           /\ \A i \in Numbers(f) : \E q \in Structure(f) : SpatialIdx(q) = i
<1> DEFINE h == Height(f, 2)
           w == Width(f, 2)
<1>1. h \in Nat \ {0} /\ w \in Nat \ {0} /\ Structure(f) = Grid(f, 2)
  BY StructureIsGrid, GridType
<1>2. /\ \A row \in 0 .. h - 1, col \in 0 .. w - 1 :
           /\ row * w + col \in 0 .. h * w - 1
           /\ (row * w + col) \div w = row /\ (row * w + col) % w = col
      /\ \A i \in 0 .. h * w - 1 :
           /\ i \div w \in 0 .. h - 1 /\ i % w \in 0 .. w - 1
           /\ (i \div w) * w + (i % w) = i
  <2> HIDE DEF h, w
  <2>1. QED
    BY <1>1, PlaceOfIndex
<1>3. ASSUME NEW q \in Structure(f)
      PROVE  /\ q.row \in 0 .. h - 1 /\ q.col \in 0 .. w - 1
             /\ q = [frame |-> f, level |-> 2, row |-> q.row, col |-> q.col]
             /\ SpatialIdx(q) = q.row * w + q.col
             /\ RingKeys(f)[q] = ExpansionKey(h, w, q.row, q.col)
  BY <1>1 DEF Grid, SpatialIdx, RingKeys, RingKey
<1>4. \A q \in Structure(f) :
        /\ SpatialIdx(q) \in 0 .. h * w - 1
        /\ SpatialIdx(q) \div w = q.row /\ SpatialIdx(q) % w = q.col
  <2> HIDE DEF h, w
  <2>1. QED
    BY <1>2, <1>3
<1>5. ASSUME NEW q \in Structure(f)
      PROVE  NumberKeys(f)[SpatialIdx(q)] = RingKeys(f)[q]
  <2>1. SpatialIdx(q) \in Numbers(f)
    BY <1>4 DEF Numbers
  <2>2. NumberKeys(f)[SpatialIdx(q)]
          = ExpansionKey(h, w, SpatialIdx(q) \div w, SpatialIdx(q) % w)
    BY <2>1 DEF NumberKeys
  <2> HIDE DEF h, w
  <2>3. QED
    BY <1>3, <1>4, <2>2
<1>6. ASSUME NEW q \in Structure(f), NEW r \in Structure(f), SpatialIdx(q) = SpatialIdx(r)
      PROVE  q = r
  <2>1. q.row = r.row /\ q.col = r.col
    BY <1>4, <1>6
  <2>2. QED
    BY <1>3, <2>1
<1>7. ASSUME NEW i \in Numbers(f)
      PROVE  \E q \in Structure(f) : SpatialIdx(q) = i
  <2> DEFINE row == i \div w
             col == i % w
             q == [frame |-> f, level |-> 2, row |-> row, col |-> col]
  <2>1. row \in 0 .. h - 1 /\ col \in 0 .. w - 1 /\ row * w + col = i
    BY <1>2 DEF Numbers
  <2> HIDE DEF row, col
  <2>2. q \in Grid(f, 2)
    BY <2>1 DEF Grid
  <2>3. SpatialIdx(q) = row * w + col
    BY DEF SpatialIdx
  <2>4. QED
    BY <1>1, <2>1, <2>2, <2>3
<1>8. QED
  BY <1>4, <1>5, <1>6, <1>7 DEF Numbers

(* So the ranks are the same.                                               *)
LEMMA RankAgrees ==
    ASSUME enc \in Encodings, Finest = 2, ~enc.baseOnly, NEW f \in Frames, NEW c \in Structure(f)
    PROVE  Rank(RingKeys(f), c)
             = RankOf(NumberKeys(f), [i \in Numbers(f) |-> i], SpatialIdx(c))
<1> DEFINE S == Structure(f)
           key == RingKeys(f)
           number == NumberKeys(f)
           A == {q \in S : key[q] < key[c] \/ (key[q] = key[c] /\ SpatialIdx(q) < SpatialIdx(c))}
           B == {i \in Numbers(f) : number[i] < number[SpatialIdx(c)]
                                    \/ (number[i] = number[SpatialIdx(c)] /\ i < SpatialIdx(c))}
           bij == [q \in A |-> SpatialIdx(q)]
<1>1. /\ \A q \in S : SpatialIdx(q) \in Numbers(f) /\ number[SpatialIdx(q)] = key[q]
      /\ \A q, r \in S : SpatialIdx(q) = SpatialIdx(r) => q = r
      /\ \A i \in Numbers(f) : \E q \in S : SpatialIdx(q) = i
  BY NumberOfPatch
<1>2. c.frame = f
  BY DEF Structure
<1>3. DOMAIN key = S /\ DOMAIN number = Numbers(f)
  BY DEF RingKeys, NumberKeys
<1>4. Rank(key, c) = Cardinality(A)
  <2> DEFINE place == [q \in S |-> Place(q)]
  <2>1. Rank(key, c) = RankOf(key, place, c)
    BY <1>2 DEF Rank
  <2>2. c \in S /\ \A q \in S : place[q] = SpatialIdx(q)
    BY StructureIsGrid
  <2> HIDE DEF key, S, place
  <2>3. {q \in S : key[q] < key[c] \/ (key[q] = key[c] /\ place[q] < place[c])} = A
    BY <2>2
  <2> HIDE DEF A
  <2>4. QED
    BY <1>3, <2>1, <2>3 DEF RankOf
<1>5. RankOf(number, [i \in Numbers(f) |-> i], SpatialIdx(c)) = Cardinality(B)
  <2> DEFINE place == [i \in Numbers(f) |-> i]
  <2>1. \A i \in Numbers(f) : place[i] = i
    OBVIOUS
  <2>2. SpatialIdx(c) \in Numbers(f)
    BY <1>1
  <2> HIDE DEF number, place
  <2>3. {i \in Numbers(f) : number[i] < number[SpatialIdx(c)]
                            \/ (number[i] = number[SpatialIdx(c)] /\ place[i] < place[SpatialIdx(c)])} = B
    BY <2>1, <2>2
  <2> HIDE DEF B
  <2>4. RankOf(number, place, SpatialIdx(c)) = Cardinality(B)
    BY <1>3, <2>3 DEF RankOf
  <2>5. QED
    BY <2>4 DEF place
<1> HIDE DEF key, number
<1>6. /\ \A q \in A : SpatialIdx(q) \in B
      /\ \A i \in B : \E q \in A : SpatialIdx(q) = i
  <2> HIDE DEF S
  <2>1. QED
    BY <1>1 DEF S
<1>7. bij \in Bijection(A, B)
  <2>1. A \subseteq S
    OBVIOUS
  <2> HIDE DEF A, B, S
  <2>2. bij \in [A -> B]
    BY <1>6
  <2>3. \A q, r \in A : bij[q] = bij[r] => q = r
    BY <1>1, <2>1
  <2>4. \A i \in B : \E q \in A : bij[q] = i
    BY <1>6
  <2> HIDE DEF bij
  <2>5. QED
    BY <2>2, <2>3, <2>4 DEF Bijection, Injection, Surjection, IsInjective
<1>8. IsFiniteSet(A)
  <2>1. IsFiniteSet(S) /\ A \in SUBSET S
    BY StructureType
  <2>2. QED
    BY <2>1, FS_Subset
<1> HIDE DEF A, B, bij
<1>9. ExistsBijection(A, B)
  BY <1>7 DEF ExistsBijection
<1>10. Cardinality(A) = Cardinality(B)
  BY <1>8, <1>9, FS_Bijection
<1>11. QED
  BY <1>4, <1>5, <1>10 DEF key, number

-----------------------------------------------------------------------------
(* Client and server agree.                                                 *)

(* The policies that have no grouping of their own follow the strategy.     *)
LEMMA PlainGroup ==
    ASSUME Plain(enc), NEW c
    PROVE  /\ GroupOf(c) = StrategyGroup(c)
           /\ enc.strategy = "grid" => StrategyGroup(c) = GridGroup(SideOf(NumGroups), c.row, c.col)
           /\ enc.strategy = "block_grid" =>
                StrategyGroup(c) = BlockGroup(SideOf(NumGroups), Height(c.frame, c.level),
                                              Width(c.frame, c.level), c.row, c.col)
           /\ enc.strategy = "expansion" =>
                StrategyGroup(c) = RankGroup(Rank(RingKeys(c.frame), c), Count(c.frame), NumGroups)
           /\ enc.strategy = "crop_cover" /\ enc.policy \in CropPolicies =>
                StrategyGroup(c) = FirstCover(CropList, RowCentre(0, enc.patch, c.row),
                                                        RowCentre(0, enc.patch, c.col))
<1>1. enc.policy \notin Windowed /\ enc.policy # "VGGT" /\ enc.policy # "FourierBinary"
  BY DEF Plain
<1>2. GroupOf(c) = StrategyGroup(c)
  BY <1>1 DEF GroupOf
<1>3. QED
  BY <1>2 DEF StrategyGroup

(* tokens: the executor groups the grid of tokens as the client its patches.*)
LEMMA AgreesTiled ==
    ASSUME enc \in Encodings, Finest = 2, ~enc.baseOnly, NumGroups \in Nat \ {0}, Plain(enc),
           NEW f \in Frames, NEW t, t.source.frame = f,
           t.source.rows = Height(f, 2), t.source.cols = Width(f, 2),
           t.row \in 0 .. Height(f, 2) - 1,
           NEW col \in 0 .. Width(f, 2) - 1, col = Mirrored(t.source, t.col),
           \/ enc.strategy = "grid"
           \/ enc.strategy = "block_grid"
           \/ enc.strategy = "expansion" /\ t.col = col
    PROVE  GroupOf(Cell(f, t.row, col)) = TiledMap(t)
<1> DEFINE c == Cell(f, t.row, col)
           s == t.source
           h == Height(f, 2)
           w == Width(f, 2)
           side == SideOf(NumGroups)
<1>1. /\ c \in Cells /\ c.frame = f /\ c.level = 2 /\ c.row = t.row /\ c.col = col
      /\ h \in Nat \ {0} /\ w \in Nat \ {0} /\ t.row \in Nat /\ col \in Nat
  BY CellType, GridType
<1>2. side \in Nat \ {0}
  BY SideOfPositive
<1>3. CASE enc.strategy = "grid"
  <2>1. GroupOf(c) = GridGroup(side, t.row, col)
    BY <1>1, <1>3, PlainGroup
  <2>2. TiledMap(t) = TiledGroup(side, t.row, col)
    BY <1>3 DEF TiledMap
  <2> HIDE DEF side
  <2>3. QED
    BY <1>1, <1>2, <2>1, <2>2, TiledGroupIsGridGroup
<1>4. CASE enc.strategy = "block_grid"
  <2>1. GroupOf(c) = BlockGroup(side, h, w, t.row, col)
    BY <1>1, <1>4, PlainGroup
  <2>2. TiledMap(t) = TiledBlock(side, h, w, t.row, col)
    <3> DEFINE index == [i \in 0..(s.rows * s.cols - 1) |-> i]
               key == [i \in DOMAIN index |-> ExpansionKey(s.rows, s.cols, i \div s.cols, i % s.cols)]
               grid == TiledGroup(side, t.row, Mirrored(s, t.col))
               block == TiledBlock(side, s.rows, s.cols, t.row, Mirrored(s, t.col))
               ring == RankGroup(RankOf(key, index, t.row * s.cols + t.col), s.rows * s.cols, NumGroups)
    <3>1. TiledMap(t) = CASE enc.strategy = "grid" -> grid
                          [] enc.strategy = "block_grid" -> block
                          [] enc.strategy = "expansion" -> ring
      BY DEF TiledMap
    <3>2. block = TiledBlock(side, h, w, t.row, col)
      OBVIOUS
    <3> HIDE DEF grid, block, ring
    <3>3. TiledMap(t) = block
      BY <1>4, <3>1
    <3>4. QED
      BY <3>2, <3>3
  <2> HIDE DEF side, h, w
  <2>3. t.row \in 0 .. h - 1 /\ col \in 0 .. w - 1
    BY DEF h, w
  <2>4. QED
    BY <1>1, <1>2, <2>1, <2>2, <2>3, TiledBlockIsBlockGroup
<1>5. CASE enc.strategy = "expansion" /\ t.col = col
  <2> DEFINE index == [i \in Numbers(f) |-> i]
  <2>1. GroupOf(c) = RankGroup(Rank(RingKeys(f), c), Count(f), NumGroups)
    BY <1>1, <1>5, PlainGroup
  <2>2. Count(f) = h * w
    BY StructureIsGrid
  <2>3. c \in Structure(f)
    <3>1. 2 \in 2..Finest /\ c \in PatchesAt(2)
      BY <1>1 DEF Cells
    <3>2. QED
      BY <1>1, <3>1 DEF Structure, Residuals
  <2>4. Rank(RingKeys(f), c) = RankOf(NumberKeys(f), index, SpatialIdx(c))
    BY <2>3, RankAgrees
  <2>5. SpatialIdx(c) = t.row * w + t.col
    BY <1>1, <1>5 DEF SpatialIdx
  <2>6. TiledMap(t) = RankGroup(RankOf(NumberKeys(f), index, t.row * w + t.col), h * w, NumGroups)
    <3>1. index = [i \in 0..(s.rows * s.cols - 1) |-> i]
      BY DEF Numbers
    <3>2. NumberKeys(f) = [i \in DOMAIN index |-> ExpansionKey(s.rows, s.cols, i \div s.cols, i % s.cols)]
      BY DEF NumberKeys
    <3> HIDE DEF index
    <3>3. QED
      BY <1>5, <3>1, <3>2 DEF TiledMap
  <2>7. QED
    BY <2>1, <2>2, <2>4, <2>5, <2>6
<1>6. QED
  BY <1>3, <1>4, <1>5

(* The executors that see the whole picture.                                *)
LEMMA AgreesWhole ==
    ASSUME enc \in Encodings, Finest = 2, ~enc.baseOnly, NumGroups \in Nat \ {0},
           enc.server \in {"payload", "tokens", "ungrouped"}, Match(enc), NEW t \in Tokens
    PROVE  Agrees(t)
<1> DEFINE f == t.source.frame
           col == Mirrored(t.source, t.col)
           c == Cell(f, t.row, col)
<1>1. /\ f \in Frames
      /\ t.source.rows = Height(f, 2) /\ t.source.cols = Width(f, 2)
      /\ t.source.flip \in enc.flips
      /\ t.row \in 0 .. Height(f, 2) - 1
  BY WholeToken
<1>2. enc.flips \subseteq BOOLEAN /\ (TRUE \in enc.flips => \A g \in Frames : Width(g, 2) = Width(1, 2))
  BY DEF Match, Mirrors, Frames, Width
<1>3. Under(t) = {c} /\ col \in 0 .. Width(f, 2) - 1
  BY <1>2, UnderWhole
<1>4. c \in Cells /\ c.level = 2
  BY <1>1, <1>3, CellType
<1>5. CASE enc.server = "payload"
  <2>1. ~t.source.flip
    BY <1>1, <1>5 DEF Match
  <2>2. col = t.col
    BY <2>1 DEF Mirrored
  <2>3. QED
    BY <1>3, <1>4, <1>5, <2>2 DEF Agrees
<1>6. CASE enc.server = "tokens"
  <2>1. Plain(enc) /\ (enc.strategy = "grid" \/ (enc.strategy \in {"block_grid", "expansion"} /\ enc.flips = {FALSE}))
    BY <1>6 DEF Match
  <2>2. enc.flips = {FALSE} => t.col = col
    BY <1>1 DEF Mirrored
  <2>3. GroupOf(c) = TiledMap(t)
    <3> HIDE DEF col
    <3>1. \/ enc.strategy = "grid"
          \/ enc.strategy = "block_grid"
          \/ enc.strategy = "expansion" /\ t.col = col
      BY <2>1, <2>2
    <3>2. QED
      BY <1>1, <1>3, <2>1, <3>1, AgreesTiled DEF col
  <2>4. TokenGroup(t) = TiledMap(t)
    BY <1>6 DEF TokenGroup
  <2>5. QED
    BY <1>3, <1>4, <1>6, <2>3, <2>4 DEF Agrees
<1>7. CASE enc.server = "ungrouped"
  <2>1. TokenGroup(t) = 1
    BY <1>7 DEF TokenGroup
  <2>2. GroupOf(c) = 1
    <3>1. CASE enc.policy = "FourierBinary"
      BY <3>1 DEF GroupOf, Windowed
    <3>2. CASE enc.policy # "FourierBinary"
      <4>1. Plain(enc) /\ enc.strategy = "grid" /\ enc.policy \notin CropPolicies /\ enc.groups = 1
        BY <1>7, <3>2 DEF Match
      <4>2. NumGroups = 1
        <5>1. enc.policy \in Policies
          BY TransmissionAssumption
        <5>2. enc.policy \in {"Progressive", "NYUProgressive", "FourierLaplacian", "Laplacian"}
          BY <4>1, <5>1 DEF Policies, Plain
        <5>3. NumGroups = IF enc.policy = "Laplacian" THEN 0 ELSE 1
          BY <4>1, <5>2 DEF NumGroups, Default, CropPolicies, Windowed
        <5>4. QED
          BY <5>3
      <4>3. SideOf(1) = 1
        <5>1. SideOf(1) \in 0..1 /\ SideOf(1) \in Nat \ {0}
          BY SideOfType, SideOfPositive
        <5>2. QED
          BY <5>1
      <4>4. GroupOf(c) = GridGroup(1, c.row, c.col)
        BY <4>1, <4>2, <4>3, PlainGroup
      <4>5. c.row \in Nat /\ c.col \in Nat
        BY <1>4, PatchFields, GridType DEF Cells
      <4>6. \A row \in Nat : row % 1 = 0
        OBVIOUS
      <4>7. GridGroup(1, c.row, c.col) = 1
        <5> HIDE DEF c
        <5>1. QED
          BY <4>5, <4>6 DEF GridGroup
      <4>8. QED
        BY <4>4, <4>7
    <3>3. QED
      BY <3>1, <3>2
  <2>3. QED
    BY <1>3, <1>4, <1>7, <2>1, <2>2 DEF Agrees
<1>8. QED
  BY <1>5, <1>6, <1>7

(* marks: the executor takes the marks of the payload for its own grid.     *)
LEMMA AgreesMarks ==
    ASSUME enc \in Encodings, enc.server = "marks", Match(enc), NEW t \in Tokens
    PROVE  Agrees(t)
<1>1. Sources = MarkSources
  BY SourcesOf
<1>2. PICK s \in Sources : t \in [source : {s}, row : 0..(s.rows - 1), col : 0..(s.cols - 1)]
  BY DEF Tokens
<1>3. PICK f \in Frames :
        s = [Source(0, 0, enc.tokens[f][1], enc.tokens[f][2], FALSE) EXCEPT !.frame = f]
  BY <1>1, <1>2 DEF MarkSources
<1>4. s = [frame |-> f, top |-> 0, left |-> 0, rows |-> enc.tokens[f][1],
           cols |-> enc.tokens[f][2], flip |-> FALSE]
  BY <1>3 DEF Source
<1>5. s.rows \in Nat \ {0} /\ s.cols \in Nat \ {0}
  <2>1. enc.tokens[f] \in Shapes
    BY DEF Match, Frames
  <2>2. QED
    BY <1>4, <2>1 DEF Shapes
<1>6. /\ t.source = s /\ s.frame = f
      /\ t.row \in 0 .. s.rows - 1 /\ t.col \in 0 .. s.cols - 1
  BY <1>2, <1>4
<1>7. Height(f, Finest) \in Nat \ {0} /\ Width(f, Finest) \in Nat \ {0}
  BY GridType
<1> DEFINE row == (t.row * Height(f, Finest)) \div s.rows
           col == (t.col * Width(f, Finest)) \div s.cols
<1>8. row \in 0 .. Height(f, Finest) - 1 /\ col \in 0 .. Width(f, Finest) - 1
  BY <1>5, <1>6, <1>7, Scaled
<1>9. Sampled(t) = Cell(f, row, col)
  BY <1>6 DEF Sampled
<1> HIDE DEF row, col
<1>10. Sampled(t) \in Cells
  BY <1>8, <1>9, CellType
<1>11. Under(t) = {Sampled(t)}
  BY DEF Under
<1>12. QED
  BY <1>10, <1>11 DEF Agrees

(* windows: a token of a window is grouped with the window, or by its place *)
(* in the picture.                                                          *)
LEMMA AgreesWindows ==
    ASSUME enc \in Encodings, NumGroups \in Nat \ {0}, enc.server = "windows", Match(enc),
           NEW t \in Tokens
    PROVE  Agrees(t)
<1> DEFINE patch == enc.patch
           h == Height(1, Finest)
           w == Width(1, Finest)
<1>1. patch \in Nat \ {0} /\ h \in Nat \ {0} /\ w \in Nat \ {0} /\ 1 \in Frames
      /\ PixelHeight = h * patch /\ PixelWidth = w * patch
  BY GridType DEF PixelHeight, PixelWidth
<1>2. \A k \in 0..(WindowsAcross - 1) : /\ WindowLength(PixelHeight, patch, k) > 0
                                  /\ WindowLength(PixelWidth, patch, k) > 0
  BY DEF Match, WindowsFit, Rows, Cols, PixelHeight, PixelWidth, Height, Width, Finest
<1>3. Sources = WindowSources
  BY SourcesOf
<1>4. PICK s \in Sources : t \in [source : {s}, row : 0..(s.rows - 1), col : 0..(s.cols - 1)]
  BY DEF Tokens
<1>5. PICK k \in 0..(WindowsAcross - 1), m \in 0..(WindowsAcross - 1) : s = WindowSource(k, m)
  BY <1>3, <1>4 DEF WindowSources
<1> HIDE DEF patch, h, w
<1>6. /\ t.source = s /\ s.frame = 1 /\ s.flip = FALSE
      /\ s.top = WindowStart(PixelHeight, patch, k) /\ s.left = WindowStart(PixelWidth, patch, m)
      /\ t.row \in 0 .. (WindowLength(PixelHeight, patch, k) \div patch) - 1
      /\ t.col \in 0 .. (WindowLength(PixelWidth, patch, m) \div patch) - 1
  BY <1>4, <1>5 DEF Source, WindowSource, patch
<1>7. 0 \in 0..(WindowsAcross - 1) /\ WindowsAcross - 1 \in 0..(WindowsAcross - 1)
  BY DEF WindowsAcross
<1>8. InWindow(h, patch, k, t.row) /\ InWindow(w, patch, m, t.col)
  BY <1>1, <1>2, <1>6, <1>7, WindowOfPatch
<1>9. PICK top \in Nat :
        /\ s.top = top * patch /\ top + t.row \in 0 .. h - 1
        /\ WindowAt(PixelHeight, patch, (top + t.row) * patch) = k
        /\ s.top \div WindowSize(PixelHeight, patch) = k
  BY <1>1, <1>6, <1>8 DEF InWindow
<1>10. PICK left \in Nat :
        /\ s.left = left * patch /\ left + t.col \in 0 .. w - 1
        /\ WindowAt(PixelWidth, patch, (left + t.col) * patch) = m
        /\ s.left \div WindowSize(PixelWidth, patch) = m
  BY <1>1, <1>6, <1>8 DEF InWindow
<1>11. t.row \in Nat /\ t.col \in Nat
  <2>1. \A n \in Int : \A x \in 0 .. n : x \in Nat
    OBVIOUS
  <2>2. t.row \in Int /\ t.col \in Int /\ t.row >= 0 /\ t.col >= 0
    BY <1>6
  <2>3. QED
    BY <2>2
<1> DEFINE c == Cell(1, top + t.row, left + t.col)
<1>12. Under(t) = {c}
  <2>1. Under(t) = {Cell(t.source.frame, top + t.row, Column(t, left))}
    BY <1>6, <1>9, <1>10, <1>11, UnderPatch DEF patch
  <2>2. Column(t, left) = left + t.col
    BY <1>6 DEF Column
  <2>3. QED
    BY <1>6, <2>1, <2>2
<1>13. c \in Cells /\ c.row = top + t.row /\ c.col = left + t.col
  <2> DEFINE row == top + t.row
             col == left + t.col
  <2>1. row \in 0 .. h - 1 /\ col \in 0 .. w - 1
    BY <1>9, <1>10
  <2> HIDE DEF row, col
  <2>2. Cell(1, row, col) \in Cells /\ Cell(1, row, col).row = row /\ Cell(1, row, col).col = col
    BY <1>1, <2>1, CellType DEF h, w
  <2>3. QED
    BY <2>2 DEF row, col
<1> HIDE DEF c
<1>14. TokenGroup(t) = WindowMap(t)
  BY DEF TokenGroup
<1>15. GroupOf(c) = WindowMap(t)
  <2>1. CASE enc.strategy = "grid"
    <3> DEFINE side == SideOf(NumGroups)
    <3>1. Plain(enc)
      BY <2>1 DEF Match
    <3>2. GroupOf(c) = GridGroup(side, top + t.row, left + t.col)
      BY <1>13, <2>1, <3>1, PlainGroup
    <3>3. WindowMap(t) = TiledGroup(side, s.top \div patch + t.row, s.left \div patch + t.col)
      BY <1>6, <2>1 DEF WindowMap, patch
    <3>4. s.top \div patch = top /\ s.left \div patch = left
      BY <1>1, <1>9, <1>10, DivisionExact
    <3>5. side \in Nat \ {0} /\ top + t.row \in Nat /\ left + t.col \in Nat
      BY <1>11, SideOfPositive
    <3> HIDE DEF side
    <3>6. QED
      BY <3>2, <3>3, <3>4, <3>5, TiledGroupIsGridGroup
  <2>2. CASE enc.strategy # "grid"
    <3>1. enc.policy \in Windowed
      BY <2>2 DEF Match
    <3>2. GroupOf(c) = WindowedGroup(c)
      BY <3>1 DEF GroupOf, Windowed
    <3>3. WindowedGroup(c) = 1 + k * WindowsAcross + m
      BY <1>9, <1>10, <1>13 DEF WindowedGroup, WindowGroup, patch
    <3>4. WindowMap(t) = 1 + k * WindowsAcross + m
      BY <1>6, <1>9, <1>10, <2>2 DEF WindowMap, patch
    <3>5. QED
      BY <3>2, <3>3, <3>4
  <2>3. QED
    BY <2>1, <2>2
<1>16. QED
  BY <1>12, <1>13, <1>14, <1>15 DEF Agrees

(* A whole number of patches.                                               *)
LEMMA WholePatches ==
    ASSUME NEW patch \in Nat \ {0}, NEW a \in Nat, a % patch = 0
    PROVE  a \div patch \in Nat /\ a = (a \div patch) * patch
<1>1. a \div patch \in Nat /\ a = (patch * (a \div patch)) + (a % patch)
  BY Division
<1> DEFINE q == a \div patch
<1>2. q \in Nat /\ a = patch * q + 0
  BY <1>1
<1> HIDE DEF q
<1>3. patch * q = q * patch /\ patch * q \in Nat
  BY <1>2
<1>4. QED
  BY <1>2, <1>3 DEF q

(* The tokens of a crop: patches within the picture.                        *)
LEMMA CropToken ==
    ASSUME NEW patch \in Nat \ {0}, NEW n \in Nat \ {0}, NEW first \in Nat, NEW last \in Int,
           first % patch = 0, last % patch = 0, last <= n * patch,
           NEW i \in 0 .. ((last - first) \div patch) - 1
    PROVE  /\ i \in Nat /\ first \div patch \in Nat /\ first = (first \div patch) * patch
           /\ (first \div patch) + i \in 0 .. n - 1
<1> DEFINE q == first \div patch
           r == (last - first) \div patch
<1>1. q \in Nat /\ first = q * patch
  BY WholePatches
<1>2. n * patch \in Nat
  OBVIOUS
<1>3. last - first >= 0
  <2> SUFFICES ASSUME last - first < 0 PROVE FALSE
    OBVIOUS
  <2>1. (last - first) \div patch < 0
    <3> DEFINE d == last - first
    <3>1. d \in Int /\ d < 0
      OBVIOUS
    <3> HIDE DEF d
    <3>2. d \div patch < 0
      BY <3>1
    <3>3. QED
      BY <3>2 DEF d
  <2>2. QED
    BY <2>1
<1>4. last - first \in Nat
  BY <1>3
<1>5. r \in Nat /\ patch * r <= last - first
  <2> DEFINE d == last - first
  <2>1. d \in Nat
    BY <1>4
  <2> HIDE DEF d
  <2>2. d \div patch \in Nat /\ patch * (d \div patch) <= d
    BY <2>1, Division
  <2>3. QED
    BY <2>2 DEF d
<1>6. i \in Nat /\ i < r
  <2> HIDE DEF r
  <2>1. i \in 0 .. r - 1
    BY DEF r
  <2>2. QED
    BY <1>5, <2>1
<1> HIDE DEF q, r
<1>7. patch * (q + i) < patch * n
  <2> DEFINE a == patch * q
             b == patch * i
             d == patch * r
             e == patch * n
  <2>1. patch * (q + i) = a + b
    BY <1>1, <1>6
  <2>2. b < d
    <3>1. d - b = patch * (r - i)
      BY <1>5, <1>6
    <3>2. r - i \in Nat \ {0}
      BY <1>5, <1>6
    <3>3. patch * (r - i) \in Nat \ {0}
      BY <3>2
    <3>4. d \in Nat /\ b \in Nat
      BY <1>5, <1>6
    <3> HIDE DEF b, d
    <3>5. QED
      BY <3>1, <3>3, <3>4
  <2>3. a = first /\ e = n * patch /\ d <= last - first
    BY <1>1, <1>5
  <2>4. a \in Nat /\ b \in Nat /\ d \in Nat /\ e \in Nat
    BY <1>1, <1>5, <1>6
  <2> HIDE DEF a, b, d, e
  <2>5. a + b < e
    BY <1>2, <2>2, <2>3, <2>4
  <2>6. QED
    BY <2>1, <2>5 DEF e
<1>8. q + i < n
  BY <1>1, <1>6, <1>7, Cancel
<1>9. QED
  BY <1>1, <1>6, <1>8 DEF q

(* The pixel at the centre of a token is one of its patch; mirrored, it is  *)
(* one of the mirrored patch, though not always the centre.                 *)
Centred(first, length, patch, n, a, i) ==
    /\ RowCentre(first, patch, i) \in Nat
    /\ RowCentre(first, patch, i) \div patch = a + i
    /\ RowCentre(first, patch, i) = RowCentre(0, patch, a + i)
    /\ length - 1 - RowCentre(first, patch, i) \in Nat
    /\ (length - 1 - RowCentre(first, patch, i)) \div patch = n - 1 - (a + i)

(* For the i-th token of a source that begins at patch a of n.              *)
LEMMA CentreOfPatch ==
    ASSUME NEW patch \in Nat \ {0}, NEW n \in Nat \ {0}, NEW a \in Nat, NEW i \in Nat,
           a + i \in 0 .. n - 1, NEW first, first = a * patch, NEW length, length = n * patch
    PROVE  Centred(first, length, patch, n, a, i)
<1> DEFINE half == patch \div 2
           k == a + i
<1>1. half \in 0 .. patch - 1
  OBVIOUS
<1>2. a * patch + i * patch = k * patch /\ k \in 0 .. n - 1 /\ k \in Nat
  OBVIOUS
<1>3. RowCentre(first, patch, i) = k * patch + half
  BY <1>2 DEF RowCentre
<1>4. RowCentre(0, patch, k) = k * patch + half
  <2> HIDE DEF half, k
  <2>1. 0 + k * patch + patch \div 2 = k * patch + half
    BY <1>2 DEF half
  <2>2. QED
    BY <2>1 DEF RowCentre
<1> HIDE DEF half, k
<1>5. k * patch + half \in Nat /\ (k * patch + half) \div patch = k
  BY <1>1, <1>2, PixelOf
<1>6. (n * patch - 1 - (k * patch + half)) \div patch = n - 1 - k
  BY <1>1, <1>2, PixelMirrored
<1>7. n * patch - 1 - (k * patch + half) \in Nat
  <2>1. n * patch - patch - k * patch = (n - 1 - k) * patch
    BY <1>2
  <2>2. (n - 1 - k) * patch \in Nat
    <3>1. n - 1 - k \in Nat
      BY <1>2
    <3>2. QED
      BY <3>1
  <2>3. n * patch \in Nat /\ k * patch \in Nat
    BY <1>2
  <2> DEFINE d == n * patch
             e == k * patch
  <2> HIDE DEF d, e
  <2>4. d - patch - e \in Nat
    BY <2>1, <2>2 DEF d, e
  <2>5. d - 1 - (e + half) \in Nat
    BY <1>1, <2>3, <2>4 DEF d, e
  <2>6. QED
    BY <2>5 DEF d, e
<1>8. QED
  BY <1>3, <1>4, <1>5, <1>6, <1>7 DEF k, Centred

(* crops: a token of a crop is grouped by the pixel at its centre.          *)
LEMMA AgreesCrops ==
    ASSUME enc \in Encodings, Finest = 2, NumGroups \in Nat \ {0}, enc.server = "crops", Match(enc),
           NEW t \in Tokens
    PROVE  Agrees(t)
<1> DEFINE patch == enc.patch
           h == Height(1, Finest)
           w == Width(1, Finest)
<1>1. /\ patch \in Nat \ {0} /\ h \in Nat \ {0} /\ w \in Nat \ {0} /\ 1 \in Frames
      /\ PixelHeight = h * patch /\ PixelWidth = w * patch
      /\ PixelHeight \in Nat /\ PixelWidth \in Nat
  BY GridType DEF PixelHeight, PixelWidth
<1>2. CropsAligned(enc) /\ enc.flips \subseteq BOOLEAN /\ Plain(enc)
  BY DEF Match
<1>3. \A k \in DOMAIN CropList : Aligns(enc, CropList[k])
  BY <1>2 DEF CropsAligned, CropList, PixelHeight, PixelWidth, Rows, Cols, Height, Width, Finest
<1>4. \A k \in DOMAIN CropList :
        /\ CropList[k].top \in Nat /\ CropList[k].bottom \in Int /\ CropList[k].bottom <= PixelHeight
        /\ CropList[k].left \in Nat /\ CropList[k].right \in Int /\ CropList[k].right <= PixelWidth
  <2>1. enc.crop \in Nat /\ enc.stride \in Nat \ {0}
    BY TransmissionAssumption
  <2>2. \A k \in DOMAIN CropList : Inside(CropList[k], PixelHeight, PixelWidth)
    BY <1>1, <2>1, CropInside DEF CropList
  <2>3. QED
    BY <2>2 DEF Inside
<1>5. Sources = CropSources
  BY SourcesOf
<1>6. PICK s \in Sources : t \in [source : {s}, row : 0..(s.rows - 1), col : 0..(s.cols - 1)]
  BY DEF Tokens
<1>7. PICK k \in DOMAIN CropList, flip \in enc.flips : s = CropSource(CropList[k], flip)
  BY <1>5, <1>6 DEF CropSources
<1> DEFINE crop == CropList[k]
<1>8. /\ t.source = s /\ s.frame = 1 /\ s.flip = flip /\ s.flip \in BOOLEAN
      /\ s.top = crop.top /\ s.left = crop.left
      /\ t.row \in 0 .. ((crop.bottom - crop.top) \div patch) - 1
      /\ t.col \in 0 .. ((crop.right - crop.left) \div patch) - 1
  BY <1>2, <1>6, <1>7 DEF CropSource, Source
<1>9. /\ crop.top % patch = 0 /\ crop.bottom % patch = 0
      /\ crop.left % patch = 0 /\ crop.right % patch = 0
  BY <1>3 DEF Aligns
<1>10. /\ crop.top \in Nat /\ crop.bottom \in Int /\ crop.bottom <= h * patch
       /\ crop.left \in Nat /\ crop.right \in Int /\ crop.right <= w * patch
  BY <1>1, <1>4
<1> HIDE DEF crop, patch, h, w
<1> DEFINE top == crop.top \div patch
           left == crop.left \div patch
<1>11. /\ t.row \in Nat /\ top \in Nat /\ crop.top = top * patch /\ top + t.row \in 0 .. h - 1
  BY <1>1, <1>8, <1>9, <1>10, CropToken
<1>12. /\ t.col \in Nat /\ left \in Nat /\ crop.left = left * patch /\ left + t.col \in 0 .. w - 1
  BY <1>1, <1>8, <1>9, <1>10, CropToken
<1> HIDE DEF top, left
<1> DEFINE row == top + t.row
           col == Column(t, left)
           c == Cell(1, row, col)
<1>13. Under(t) = {c}
  BY <1>8, <1>11, <1>12, UnderPatch DEF patch, w
<1>14. col = (IF flip THEN w - 1 - (left + t.col) ELSE left + t.col) /\ col \in 0 .. w - 1
  <2>1. col = IF flip THEN w - 1 - (left + t.col) ELSE left + t.col
    BY <1>8 DEF Column, w
  <2> HIDE DEF col
  <2>2. QED
    BY <1>1, <1>8, <1>12, <2>1
<1>15. row \in 0 .. h - 1
  BY <1>11
<1> HIDE DEF row, col
<1>16. c \in Cells /\ c.row = row /\ c.col = col /\ c.frame = 1 /\ c.level = 2
  BY <1>1, <1>14, <1>15, CellType DEF h, w
<1> HIDE DEF c
<1> DEFINE y == RowCentre(crop.top, patch, t.row)
           x == ColCentre(crop.left, patch, t.col, PixelWidth, flip)
<1>17. y \in Nat /\ y \div patch = row /\ y = RowCentre(0, patch, row)
  <2>1. Centred(crop.top, PixelHeight, patch, h, top, t.row)
    BY <1>1, <1>11, CentreOfPatch
  <2>2. QED
    BY <2>1 DEF Centred, row, y
<1>18. x \in Nat /\ x \div patch = col
  <2>1. x = IF flip THEN PixelWidth - 1 - RowCentre(crop.left, patch, t.col)
            ELSE RowCentre(crop.left, patch, t.col)
    BY DEF ColCentre, RowCentre
  <2>2. /\ RowCentre(crop.left, patch, t.col) \in Nat
        /\ RowCentre(crop.left, patch, t.col) \div patch = left + t.col
        /\ PixelWidth - 1 - RowCentre(crop.left, patch, t.col) \in Nat
        /\ (PixelWidth - 1 - RowCentre(crop.left, patch, t.col)) \div patch = w - 1 - (left + t.col)
    <3>1. Centred(crop.left, PixelWidth, patch, w, left, t.col)
      BY <1>1, <1>12, CentreOfPatch
    <3>2. QED
      BY <3>1 DEF Centred
  <2> HIDE DEF x
  <2>3. QED
    BY <1>12, <1>14, <2>1, <2>2
<1>19. RowCentre(0, patch, col) \in Nat /\ RowCentre(0, patch, col) \div patch = col
  <2>1. col \in Nat /\ 0 + col = col /\ 0 * patch = 0
    BY <1>1, <1>14
  <2>2. Centred(0, PixelWidth, patch, w, 0, col)
    BY <1>1, <1>14, <2>1, CentreOfPatch
  <2>3. QED
    BY <2>1, <2>2 DEF Centred
<1> HIDE DEF y, x
<1> DEFINE side == SideOf(NumGroups)
<1>20. side \in Nat \ {0}
  BY SideOfPositive
<1>21. TokenGroup(t) = CropMap(t)
  BY DEF TokenGroup
<1>22. GroupOf(c) = CropMap(t)
  <2>1. CASE enc.strategy = "grid"
    <3>1. GroupOf(c) = GridGroup(side, row, col)
      BY <1>2, <1>16, <2>1, PlainGroup
    <3>2. CropMap(t) = CropGridGroup(side, patch, y, x)
      BY <1>8, <2>1 DEF CropMap, y, x, patch
    <3>3. QED
      BY <1>17, <1>18, <3>1, <3>2 DEF CropGridGroup
  <2>2. CASE enc.strategy = "block_grid"
    <3>1. GroupOf(c) = BlockGroup(side, h, w, row, col)
      BY <1>2, <1>16, <2>2, PlainGroup DEF h, w
    <3>2. CropMap(t) = CropBlockGroup(side, patch, PixelHeight, PixelWidth, y, x)
      BY <1>8, <2>2 DEF CropMap, y, x, patch
    <3>3. \A n \in Nat \ {0} : Most(Ceiling(n * patch, patch), 1) = n
      <4> SUFFICES ASSUME NEW n \in Nat \ {0} PROVE Most(Ceiling(n * patch, patch), 1) = n
        OBVIOUS
      <4>1. patch - 1 \in 0 .. patch - 1
        BY <1>1
      <4>2. (n * patch + (patch - 1)) \div patch = n
        BY <1>1, <4>1, PixelOf
      <4>3. n * patch + patch - 1 = n * patch + (patch - 1)
        <5>1. n * patch \in Nat
          BY <1>1
        <5>2. QED
          BY <1>1, <5>1
      <4>4. Ceiling(n * patch, patch) = n
        BY <4>2, <4>3 DEF Ceiling
      <4>5. QED
        BY <4>4 DEF Most
    <3>4. Most(Ceiling(PixelHeight, patch), 1) = h /\ Most(Ceiling(PixelWidth, patch), 1) = w
      BY <1>1, <3>3
    <3>5. Least(row, h - 1) = row /\ Least(col, w - 1) = col
      BY <1>1, <1>14, <1>15 DEF Least
    <3>6. Most(h, 1) = h /\ Most(w, 1) = w
      BY <1>1 DEF Most
    <3> HIDE DEF side
    <3>7. CropBlockGroup(side, patch, PixelHeight, PixelWidth, y, x)
            = Least((row * side) \div h, side - 1) * side + Least((col * side) \div w, side - 1) + 1
      BY <1>17, <1>18, <3>4, <3>5 DEF CropBlockGroup
    <3>8. BlockGroup(side, h, w, row, col)
            = Least((row * side) \div h, side - 1) * side + Least((col * side) \div w, side - 1) + 1
      BY <3>6 DEF BlockGroup, Band
    <3>9. QED
      BY <3>1, <3>2, <3>7, <3>8
  <2>3. CASE enc.strategy = "crop_cover"
    <3>1. enc.policy \in CropPolicies
      BY <2>3 DEF Match
    <3>2. GroupOf(c) = FirstCover(CropList, RowCentre(0, patch, row), RowCentre(0, patch, col))
      BY <1>2, <1>16, <2>3, <3>1, PlainGroup DEF patch
    <3>3. CropMap(t) = FirstCover(CropList, y, x)
      BY <1>8, <2>3 DEF CropMap, y, x, patch
    <3>4. CropList \in Seq(Crop)
      BY CropListType
    <3>5. OnPatches(CropList, patch)
      BY <1>3, <1>4 DEF Aligns, OnPatches, patch
    <3>6. FirstCover(CropList, y, x) = FirstCover(CropList, y, RowCentre(0, patch, col))
      <4> DEFINE z == RowCentre(0, patch, col)
      <4>1. z \in Nat /\ x \div patch = z \div patch
        BY <1>18, <1>19
      <4> HIDE DEF z
      <4>2. FirstCover(CropList, y, x) = FirstCover(CropList, y, z)
        BY <1>1, <1>17, <1>18, <3>4, <3>5, <4>1, SameCover
      <4>3. QED
        BY <4>2 DEF z
    <3>7. QED
      BY <1>17, <3>2, <3>3, <3>6
  <2>4. enc.strategy \in {"grid", "block_grid", "crop_cover"}
    BY DEF Match
  <2>5. QED
    BY <2>1, <2>2, <2>3, <2>4
<1>23. QED
  BY <1>13, <1>16, <1>21, <1>22 DEF Agrees

(* Whatever the executor, where there are groups to agree on.               *)
LEMMA Agreement ==
    ASSUME Matching, enc \in Encodings, ~enc.baseOnly, NumGroups \in Nat \ {0}
    PROVE  /\ Finest = 2 /\ Residuals = Cells /\ Match(enc)
           /\ enc.policy \in CropPolicies => enc.strategy = "crop_cover"
           /\ \A t \in Tokens : Agrees(t)
<1>1. Finest = 2
  BY DEF Matching, Finest
<1>2. enc.policy # "Laplacian"
  BY DEF NumGroups, Windowed
<1>3. Match(enc) /\ (enc.policy \in CropPolicies => enc.strategy = "crop_cover")
  BY <1>2 DEF Matching
<1>4. Residuals = Cells
  <2>1. 2 .. 2 = {2}
    OBVIOUS
  <2>2. QED
    BY <1>1, <2>1 DEF Residuals, Cells
<1>5. enc.server \in {"payload", "tokens", "crops", "windows", "marks", "ungrouped"}
  BY TransmissionAssumption
<1>6. \A t \in Tokens : Agrees(t)
  BY <1>1, <1>3, <1>5, AgreesWhole, AgreesMarks, AgreesWindows, AgreesCrops
<1>7. QED
  BY <1>1, <1>3, <1>4, <1>6

-----------------------------------------------------------------------------
(* The invariant: groups have the numbers the server computes, what was     *)
(* written to the group map is no later than the group taken last, and a    *)
(* token was corrected if and only if the group of its patch was taken.     *)
Quiet ==
    /\ stage = "groups" => ~enc.baseOnly
    /\ ~Ready => next = 1

Grouped ==
    Ready /\ enc.server \notin {"payload", "marks"} =>
        \A t \in Tokens : \A c \in Under(t) : assigned[c] = TokenGroup(t)

Mapped ==
    \A c \in Cells : groupMap[c] <= (IF received = 0 THEN -1 ELSE sent[received].gid)

Given(t) == \E k \in 1..received : sent[k].gid # 0 /\ Under(t) \subseteq sent[k].patches
Counted == \A t \in Tokens : times[t] = IF Given(t) THEN 1 ELSE 0

Last == answered => received > 0 /\ sent[received].gid = LastGroup

TInv == Quiet /\ Grouped /\ Mapped /\ Counted /\ Last /\ stale = {}

(* What tokens see, and their groups, are made of the configuration.        *)
PatchesSeen(s, row, col, patch, width, finest) ==
    LET ys == {s.top + row * patch, s.top + (row + 1) * patch - 1}
        xs == {s.left + col * patch, s.left + (col + 1) * patch - 1}
    IN {[frame |-> s.frame, level |-> finest, row |-> y \div patch,
         col |-> (IF s.flip THEN width - 1 - x ELSE x) \div patch] : y \in ys, x \in xs}

(* So they stay as long as it does.                                         *)
LEMMA TokenFixed ==
    ASSUME enc' = enc
    PROVE  \A t : Under(t)' = Under(t) /\ TokenGroup(t)' = TokenGroup(t)
<1>1. /\ PixelHeight' = PixelHeight /\ PixelWidth' = PixelWidth
      /\ CropList' = CropList /\ NumGroups' = NumGroups /\ Finest' = Finest
  BY GridFixed, GroupsFixed DEF PixelHeight, PixelWidth
<1>2. \A t : Under(t)' = Under(t)
  <2>1. \A t : Sampled(t)' = Sampled(t)
    BY <1>1, GridFixed DEF Sampled, Cell
  <2>2. \A t : Under(t) =
               IF enc.server = "marks" THEN {Sampled(t)}
               ELSE PatchesSeen(t.source, t.row, t.col, enc.patch, PixelWidth, Finest)
    BY DEF Under, PatchesSeen, Cell
  <2>3. \A t : Under(t)' =
               IF enc'.server = "marks" THEN {Sampled(t)'}
               ELSE PatchesSeen(t.source, t.row, t.col, enc'.patch, PixelWidth', Finest')
    BY DEF Under, PatchesSeen, Cell
  <2>4. QED
    BY <1>1, <2>1, <2>2, <2>3
<1>3. \A t : /\ TiledMap(t)' = TiledMap(t)
             /\ CropMap(t)' = CropMap(t)
             /\ WindowMap(t)' = WindowMap(t)
  BY <1>1 DEF TiledMap, CropMap, WindowMap
<1>4. QED
  BY <1>2, <1>3 DEF TokenGroup

(* Once a group of residuals is yielded, there are groups to agree on.      *)
LEMMA SomeGroup ==
    ASSUME IInv, Quiet, NEW k \in DOMAIN sent, sent[k].gid # 0
    PROVE  /\ Ready /\ ~enc.baseOnly /\ NumGroups \in Nat \ {0} /\ received \in Nat
           /\ sent[k].gid \in Nat \ {0}
           /\ sent[k].patches = {p \in Residuals : assigned[p] = sent[k].gid}
<1>1. enc \in Encodings /\ sent \in Seq(Parcel) /\ received \in Nat
  BY DEF IInv, TypeOK, Yielded
<1>2. NumGroups \in Nat
  BY <1>1, NumGroupsType
<1>3. sent[k] \in Parcel
  BY <1>1
<1>4. sent[k].gid \in 1..NumGroups
  BY <1>2, <1>3 DEF Parcel
<1>5. sent[k].gid < next /\ sent[k].patches = Members(sent[k].gid)
  BY DEF IInv, Yielded
<1>6. next # 1
  BY <1>2, <1>4, <1>5
<1>7. Ready
  BY <1>6 DEF Quiet
<1>8. ~enc.baseOnly
  BY <1>7 DEF Quiet, Ready, LastGroup
<1>9. QED
  BY <1>1, <1>2, <1>4, <1>5, <1>7, <1>8 DEF Members

(* A group corrects the tokens that see one of its patches, and no other.   *)
CorrectsOwn(t, group) ==
    \E c \in Cells :
        /\ Under(t) = {c}
        /\ t \in Corrected(group, Written(groupMap, group)) <=> c \in group.patches

(* In particular the map written so far names none of its tokens.           *)
LEMMA CorrectedOwn ==
    ASSUME Matching, IInv, TInv, received < Len(sent), sent[received + 1].gid # 0, NEW t \in Tokens
    PROVE  CorrectsOwn(t, sent[received + 1])
<1> DEFINE group == sent[received + 1]
<1>1. /\ enc \in Encodings /\ sent \in Seq(Parcel) /\ received \in 0..Len(sent) /\ Len(sent) \in Nat
      /\ groupMap \in [Cells -> -1..NumGroups]
      /\ received + 1 \in DOMAIN sent
      /\ Quiet /\ Grouped /\ Mapped
  BY DEF IInv, TypeOK, Yielded, TInv
<1>2. /\ Ready /\ ~enc.baseOnly /\ NumGroups \in Nat \ {0} /\ received \in Nat
      /\ group.gid \in Nat \ {0}
      /\ group.patches = {p \in Residuals : assigned[p] = group.gid}
  BY <1>1, SomeGroup
<1>3. Finest = 2 /\ Residuals = Cells /\ Agrees(t)
  BY <1>1, <1>2, Agreement
<1>4. PICK c \in Cells :
        /\ Under(t) = {c}
        /\ enc.server = "payload" => c = Cell(t.source.frame, t.row, t.col)
        /\ enc.server \notin {"payload", "marks"} => GroupOf(c) = TokenGroup(t)
  BY <1>3 DEF Agrees
<1>5. c \in group.patches <=> assigned[c] = group.gid
  BY <1>2, <1>3
<1> DEFINE map == Written(groupMap, group)
<1>6. CASE enc.server = "payload"
  <2>1. t \in Corrected(group, map) <=> map[c] = group.gid
    BY <1>4, <1>6 DEF Corrected
  <2>2. map[c] = IF \E p \in group.patches : p.frame = c.frame /\ SpatialIdx(p) = SpatialIdx(c)
                 THEN group.gid ELSE groupMap[c]
    BY DEF Written
  <2>3. \A p \in group.patches : p.frame = c.frame /\ SpatialIdx(p) = SpatialIdx(c) => p = c
    <3>1. c.frame \in Frames
      BY <1>1, <1>3, PatchFields, GridType DEF Cells
    <3>2. \A p \in Cells : p.frame = c.frame => p \in Structure(c.frame)
      BY <1>3 DEF Structure
    <3>3. \A p \in group.patches : p \in Cells
      BY <1>2, <1>3
    <3>4. c \in Structure(c.frame)
      BY <3>2
    <3> HIDE DEF group
    <3>5. QED
      BY <1>1, <1>2, <1>3, <3>1, <3>2, <3>3, <3>4, NumberOfPatch
  <2>4. groupMap[c] # group.gid
    <3>1. groupMap[c] <= IF received = 0 THEN -1 ELSE sent[received].gid
      BY <1>1 DEF Mapped
    <3>2. received # 0 => sent[received].gid < group.gid /\ sent[received].gid \in Nat
      <4>1. \A j, k \in DOMAIN sent : j < k => sent[j].gid < sent[k].gid
        BY DEF IInv, Yielded
      <4>2. received # 0 => received \in DOMAIN sent /\ received < received + 1
        BY <1>1
      <4>3. \A k \in DOMAIN sent : sent[k].gid \in Nat
        <5>1. \A k \in DOMAIN sent : sent[k] \in Parcel
          BY <1>1
        <5>2. QED
          BY <1>2, <5>1 DEF Parcel
      <4>4. QED
        BY <1>1, <4>1, <4>2, <4>3
    <3>3. groupMap[c] \in Int
      BY <1>1
    <3> HIDE DEF group
    <3>4. QED
      BY <1>2, <3>1, <3>2, <3>3
  <2>5. t \in Corrected(group, map) <=> c \in group.patches
    BY <2>1, <2>2, <2>3, <2>4
  <2>6. QED
    BY <1>4, <2>5 DEF CorrectsOwn
<1>7. CASE enc.server = "marks"
  <2>1. Under(t) = {Sampled(t)}
    BY <1>7 DEF Under
  <2>2. c = Sampled(t)
    BY <1>4, <2>1
  <2>3. t \in Corrected(group, map) <=> c \in group.patches
    BY <1>7, <2>2 DEF Corrected
  <2>4. QED
    BY <1>4, <2>3 DEF CorrectsOwn
<1>8. CASE enc.server \notin {"payload", "marks"}
  <2>1. t \in Corrected(group, map) <=> TokenGroup(t) = group.gid
    BY <1>8 DEF Corrected
  <2>2. assigned[c] = TokenGroup(t)
    BY <1>1, <1>2, <1>4, <1>8 DEF Grouped
  <2>3. QED
    BY <1>4, <1>5, <2>1, <2>2 DEF CorrectsOwn
<1>9. QED
  BY <1>6, <1>7, <1>8

-----------------------------------------------------------------------------
(* The invariant holds at first.                                            *)
LEMMA TInvInit == Init => TInv
<1> SUFFICES ASSUME Init PROVE TInv
  OBVIOUS
<1>1. /\ stage = "base" /\ next = 1 /\ received = 0 /\ groupMap = [c \in Cells |-> -1]
      /\ times = [t \in Tokens |-> 0] /\ stale = {} /\ answered = FALSE
  BY DEF Init
<1>2. \A t \in Tokens : ~Given(t)
  <2>1. \A k : k \notin 1..received
    BY <1>1
  <2>2. QED
    BY <2>1 DEF Given
<1>3. Quiet /\ Grouped
  BY <1>1 DEF Quiet, Grouped, Ready
<1>4. Mapped
  BY <1>1 DEF Mapped
<1>5. Counted
  BY <1>1, <1>2 DEF Counted
<1>6. QED
  BY <1>1, <1>3, <1>4, <1>5 DEF TInv, Last

(* The encoder's steps do not disturb what the server has done.             *)
LEMMA ServerKeeps ==
    ASSUME TInv, received \in Nat, UNCHANGED << enc, server >>,
           \A k \in 1..received : sent'[k] = sent[k]
    PROVE  Mapped' /\ Counted' /\ Last' /\ stale' = {}
<1>1. /\ enc' = enc /\ received' = received /\ groupMap' = groupMap /\ times' = times
      /\ stale' = stale /\ answered' = answered
  BY DEF server
<1>2. /\ Cells' = Cells /\ Tokens' = Tokens /\ LastGroup' = LastGroup
      /\ \A t : Under(t)' = Under(t)
  BY <1>1, PatchesFixed, TokensFixed, GroupsFixed, TokenFixed
<1>3. received # 0 => received \in 1..received
  OBVIOUS
<1>4. Mapped'
  BY <1>1, <1>2, <1>3 DEF TInv, Mapped
<1>5. \A t : Given(t)' <=> Given(t)
  BY <1>1, <1>2 DEF Given
<1>6. Counted'
  BY <1>1, <1>2, <1>5 DEF TInv, Counted
<1>7. Last'
  BY <1>1, <1>2, <1>3 DEF TInv, Last
<1>8. QED
  BY <1>1, <1>4, <1>6, <1>7 DEF TInv

(* The groups are assigned: as the server counts them.                      *)
LEMMA EncodeBaseTokens ==
    ASSUME Matching, IInv, TInv, EncodeBase
    PROVE  TInv'
<1>1. /\ enc \in Encodings /\ stage = "base" /\ sent = << >> /\ next = 1 /\ received \in 0..Len(sent)
      /\ enc' = enc /\ next' = next /\ UNCHANGED server
  BY DEF IInv, TypeOK, Stages, EncodeBase
<1>2. received = 0
  BY <1>1
<1>3. Mapped' /\ Counted' /\ Last' /\ stale' = {}
  <2>1. \A k \in 1..received : sent'[k] = sent[k]
    BY <1>2
  <2>2. QED
    BY <1>1, <1>2, <2>1, ServerKeeps
<1>4. stage' = IF enc.baseOnly \/ NumGroups = 0 THEN "done"
               ELSE IF Raises THEN "raised" ELSE "groups"
  BY DEF EncodeBase
<1>5. LastGroup' = LastGroup /\ Tokens' = Tokens
      /\ \A t : Under(t)' = Under(t) /\ TokenGroup(t)' = TokenGroup(t)
  BY <1>1, GroupsFixed, TokensFixed, TokenFixed
<1>6. Ready' => stage' = "groups" /\ ~enc.baseOnly /\ NumGroups # 0
  <2>1. enc.baseOnly \/ NumGroups = 0 => LastGroup = 0
    BY <1>1, NumGroupsType DEF LastGroup
  <2>2. QED
    BY <1>4, <1>5, <2>1 DEF Ready
<1>7. Quiet'
  BY <1>1, <1>4, <1>6 DEF Quiet
<1>8. Grouped'
  <2> SUFFICES ASSUME Ready', enc.server \notin {"payload", "marks"},
                      NEW t \in Tokens, NEW c \in Under(t)
               PROVE  assigned'[c] = TokenGroup(t)
    BY <1>1, <1>5 DEF Grouped
  <2>1. stage' = "groups" /\ ~enc.baseOnly /\ NumGroups \in Nat \ {0}
    BY <1>1, <1>6, NumGroupsType
  <2>2. Residuals = Cells /\ Match(enc) /\ Agrees(t)
    BY <1>1, <2>1, Agreement
  <2>3. enc.strategy \notin Scored
    BY <2>2, Zenon DEF Match, Scored
  <2>4. assigned' = [p \in Residuals |-> GroupOf(p)]
    <3>1. assigned' \in Assignments
      BY <2>1 DEF EncodeBase
    <3>2. QED
      BY <2>3, <3>1 DEF Assignments, Scored
  <2>5. c \in Cells /\ GroupOf(c) = TokenGroup(t)
    BY <2>2 DEF Agrees
  <2>6. QED
    BY <2>2, <2>4, <2>5
<1>9. QED
  BY <1>3, <1>7, <1>8 DEF TInv

(* A group is yielded.                                                      *)
LEMMA EncodeGroupTokens ==
    ASSUME Matching, IInv, TInv, EncodeGroup
    PROVE  TInv'
<1>1. /\ enc \in Encodings /\ stage = "groups" /\ next \in 1..NumGroups /\ sent \in Seq(Parcel)
      /\ received \in 0..Len(sent)
      /\ enc' = enc /\ assigned' = assigned /\ UNCHANGED server
      /\ stage' = IF next = NumGroups THEN "done" ELSE "groups"
      /\ Yield(next, {p \in Residuals : assigned[p] = next})
  BY DEF IInv, TypeOK, Stages, Yielded, EncodeGroup
<1>2. Mapped' /\ Counted' /\ Last' /\ stale' = {}
  <2>1. \A k \in 1..received : k \in 1..Len(sent) /\ k # Len(sent) + 1
    BY <1>1
  <2>2. \A k \in 1..received : sent'[k] = sent[k]
    BY <1>1, <2>1 DEF Yield
  <2>3. received \in Nat
    BY <1>1
  <2>4. QED
    BY <1>1, <2>2, <2>3, ServerKeeps
<1>3. /\ LastGroup' = LastGroup /\ Tokens' = Tokens
      /\ \A t : Under(t)' = Under(t) /\ TokenGroup(t)' = TokenGroup(t)
  BY <1>1, GroupsFixed, TokensFixed, TokenFixed
<1>4. ~enc.baseOnly
  BY <1>1 DEF TInv, Quiet
<1>5. LastGroup # 0
  <2>1. NumGroups \in Nat \ {0} /\ Len(CropList) # 0
    BY <1>1, NumGroupsType, CropListType
  <2>2. QED
    BY <1>4, <2>1 DEF LastGroup
<1>6. Ready /\ Ready'
  BY <1>1, <1>3, <1>5 DEF Ready
<1>7. Quiet'
  BY <1>1, <1>4, <1>6 DEF Quiet
<1>8. Grouped'
  BY <1>1, <1>3, <1>6 DEF TInv, Grouped
<1>9. QED
  BY <1>2, <1>7, <1>8 DEF TInv

(* A group is served: its tokens are corrected, from pixels of the picture. *)
LEMMA ServeTokens ==
    ASSUME Matching, IInv, TInv, Serve, CanvasExact'
    PROVE  TInv'
<1> DEFINE group == sent[received + 1]
           map == Written(groupMap, group)
           tokens == IF group.gid = 0 THEN {} ELSE Corrected(group, map)
<1>1. /\ enc \in Encodings /\ ImageType /\ sent \in Seq(Parcel) /\ received \in 0..Len(sent)
      /\ Len(sent) \in Nat /\ received < Len(sent) /\ received \in Nat
      /\ groupMap \in [Cells -> -1..NumGroups] /\ times \in [Tokens -> Nat]
      /\ received + 1 \in DOMAIN sent /\ NumGroups \in Nat
      /\ Quiet /\ Grouped /\ Mapped /\ Counted /\ stale = {}
  BY NumGroupsType DEF IInv, TypeOK, Yielded, TInv, Serve, ImageType
<1>2. /\ enc' = enc /\ image' = image /\ assigned' = assigned /\ stage' = stage /\ next' = next
      /\ sent' = sent /\ received' = received + 1 /\ groupMap' = map
      /\ times' = [t \in Tokens |-> IF t \in tokens THEN times[t] + 1 ELSE times[t]]
      /\ stale' = (stale \ tokens) \cup {t \in tokens : \E c \in Under(t) : canvas'[c] # image[c]}
      /\ answered' = (group.gid = LastGroup)
  BY DEF Serve
<1>3. /\ Cells' = Cells /\ Tokens' = Tokens /\ LastGroup' = LastGroup
      /\ \A t : Under(t)' = Under(t) /\ TokenGroup(t)' = TokenGroup(t)
  BY <1>2, PatchesFixed, TokensFixed, GroupsFixed, TokenFixed
<1>4. Ready' <=> Ready
  BY <1>2, <1>3 DEF Ready
<1>5. Quiet' /\ Grouped'
  BY <1>1, <1>2, <1>3, <1>4 DEF Quiet, Grouped
<1>6. \A k \in DOMAIN sent : sent[k].gid \in Nat
  <2>1. \A k \in DOMAIN sent : sent[k] \in Parcel
    BY <1>1
  <2>2. QED
    BY <1>1, <2>1 DEF Parcel
<1>7. received # 0 => received \in DOMAIN sent /\ sent[received].gid < group.gid
  <2>1. \A j, k \in DOMAIN sent : j < k => sent[j].gid < sent[k].gid
    BY DEF IInv, Yielded
  <2>2. received # 0 => received \in DOMAIN sent /\ received < received + 1
    BY <1>1
  <2> HIDE DEF group
  <2>3. QED
    BY <1>1, <2>1, <2>2 DEF group
<1>8. Mapped'
  <2> SUFFICES ASSUME NEW c \in Cells PROVE map[c] <= group.gid
    <3>1. received + 1 # 0
      BY <1>1
    <3>2. QED
      BY <1>2, <1>3, <3>1 DEF Mapped
  <2>1. map[c] = group.gid \/ map[c] = groupMap[c]
    BY DEF Written
  <2>2. groupMap[c] \in Int /\ groupMap[c] <= IF received = 0 THEN -1 ELSE sent[received].gid
    BY <1>1 DEF Mapped
  <2>3. group.gid \in Nat
    BY <1>1, <1>6
  <2> HIDE DEF map, group
  <2>4. QED
    BY <1>6, <1>7, <2>1, <2>2, <2>3
<1>9. ASSUME group.gid # 0
      PROVE  /\ received # 0
             /\ Finest = 2
             /\ \A t \in Tokens : CorrectsOwn(t, group)
             /\ Arrived(received) \cap group.patches = {} /\ group.patches \subseteq Cells
  <2>1. ~enc.baseOnly /\ NumGroups \in Nat \ {0} /\ group.patches \subseteq Residuals
    BY <1>1, <1>9, SomeGroup
  <2>2. Finest = 2 /\ Residuals = Cells
    BY <1>1, <2>1, Agreement
  <2>3. Arrived(received) \cap group.patches = {}
    BY <1>1, GroupsApart
  <2>4. sent[1].gid = 0
    <3>1. sent # << >>
      BY <1>1
    <3>2. stage # "base"
      BY <3>1 DEF IInv, Stages
    <3>3. QED
      BY <3>2 DEF IInv, Stages
  <2>5. received # 0
    BY <1>9, <2>4
  <2>6. \A t \in Tokens : CorrectsOwn(t, group)
    BY <1>1, <1>9, CorrectedOwn
  <2>7. QED
    BY <2>1, <2>2, <2>3, <2>5, <2>6
<1>10. ASSUME NEW t \in Tokens
       PROVE  Given(t)' <=> Given(t) \/ (group.gid # 0 /\ Under(t) \subseteq group.patches)
  <2>1. \A k : k \in 1..(received + 1) <=> k \in 1..received \/ k = received + 1
    BY <1>1
  <2>2. Given(t)' <=> \E k \in 1..(received + 1) : sent[k].gid # 0 /\ Under(t) \subseteq sent[k].patches
    BY <1>2, <1>3 DEF Given
  <2>3. QED
    BY <2>1, <2>2 DEF Given
<1>11. ASSUME NEW t \in Tokens, group.gid # 0
       PROVE  /\ t \in tokens <=> Under(t) \subseteq group.patches
              /\ t \in tokens => ~Given(t)
  <2>1. PICK c \in Cells : Under(t) = {c} /\ (t \in Corrected(group, map) <=> c \in group.patches)
    BY <1>9, <1>11 DEF CorrectsOwn
  <2>2. t \in tokens <=> Under(t) \subseteq group.patches
    BY <1>11, <2>1
  <2>3. ASSUME t \in tokens, Given(t) PROVE FALSE
    <3>1. PICK k \in 1..received : Under(t) \subseteq sent[k].patches
      BY <2>3 DEF Given
    <3>2. c \in Arrived(received)
      BY <2>1, <3>1 DEF Arrived
    <3>3. c \in group.patches
      BY <1>11, <2>1, <2>3
    <3>4. QED
      BY <1>9, <1>11, <3>2, <3>3
  <2>4. QED
    BY <2>2, <2>3
<1>12. Counted'
  <2> SUFFICES ASSUME NEW t \in Tokens PROVE times'[t] = IF Given(t)' THEN 1 ELSE 0
    BY <1>3 DEF Counted
  <2>1. times[t] = IF Given(t) THEN 1 ELSE 0
    BY <1>1 DEF Counted
  <2>2. times'[t] = IF t \in tokens THEN times[t] + 1 ELSE times[t]
    BY <1>2
  <2>3. CASE group.gid = 0
    BY <1>10, <2>1, <2>2, <2>3
  <2>4. CASE group.gid # 0
    <3>1. t \in tokens <=> Under(t) \subseteq group.patches
      BY <1>11, <2>4
    <3>2. t \in tokens => ~Given(t)
      BY <1>11, <2>4
    <3> HIDE DEF tokens
    <3>3. QED
      BY <1>10, <2>1, <2>2, <2>4, <3>1, <3>2
  <2>5. QED
    BY <2>3, <2>4
<1>13. Last'
  <2>1. received' > 0 /\ sent'[received'] = group
    BY <1>1, <1>2
  <2> HIDE DEF group
  <2>2. QED
    BY <1>2, <1>3, <2>1 DEF Last
<1>14. stale' = {}
  <2> SUFFICES ASSUME NEW t \in tokens, NEW c \in Under(t) PROVE canvas'[c] = image[c]
    BY <1>1, <1>2
  <2>1. group.gid # 0
    OBVIOUS
  <2>2. t \in Tokens
    BY <1>1, <2>1, CorrectedType
  <2>3. c \in group.patches
    BY <1>11, <2>1, <2>2
  <2>4. received # 0 /\ Finest = 2 /\ c \in Cells
    BY <1>9, <2>1, <2>3
  <2>5. c \in PatchesAt(2) /\ 1 \in 1..Finest /\ 2 \in 1..Finest
    BY <2>4 DEF Cells
  <2>6. At(c, 2) = c /\ At(c, 1) \in PatchesAt(1)
    BY <1>1, <2>5, AtOwnLevel, AtType
  <2>7. sent[1].patches = PatchesAt(1)
    <3>1. sent # << >> /\ 1 \in DOMAIN sent
      BY <1>1
    <3>2. sent[1].gid = 0
      BY <3>1 DEF IInv, Stages
    <3>3. sent[1].patches = Members(0)
      BY <3>1, <3>2 DEF IInv, Yielded
    <3>4. QED
      BY <3>3 DEF Members
  <2>8. 1 \in 1..(received + 1) /\ received + 1 \in 1..(received + 1)
    BY <1>1
  <2>9. \A l \in 1..2 : At(c, l) \in Arrived(received + 1)
    <3>1. \A l \in 1..2 : l = 1 \/ l = 2
      OBVIOUS
    <3>2. QED
      BY <2>3, <2>6, <2>7, <2>8, <3>1 DEF Arrived
  <2>10. Arrived(received)' = Arrived(received + 1) /\ Finest' = 2 /\ \A l : At(c, l)' = At(c, l)
    BY <1>2, <2>4, GridFixed DEF Arrived, At
  <2>11. canvas'[c] = image'[c]
    BY <1>3, <2>4, <2>9, <2>10 DEF CanvasExact
  <2>12. QED
    BY <1>2, <2>11
<1>15. QED
  BY <1>5, <1>8, <1>12, <1>13, <1>14 DEF TInv

(* Nothing happens.                                                         *)
LEMMA StutterTokens ==
    ASSUME IInv, TInv, UNCHANGED vars
    PROVE  TInv'
<1>1. /\ enc' = enc /\ assigned' = assigned /\ stage' = stage /\ next' = next
      /\ sent' = sent /\ received' = received /\ received \in Nat /\ UNCHANGED server
  BY DEF vars, server, IInv, TypeOK, Yielded
<1>2. Mapped' /\ Counted' /\ Last' /\ stale' = {}
  BY <1>1, ServerKeeps
<1>3. /\ LastGroup' = LastGroup /\ Tokens' = Tokens
      /\ \A t : Under(t)' = Under(t) /\ TokenGroup(t)' = TokenGroup(t)
  BY <1>1, GroupsFixed, TokensFixed, TokenFixed
<1>4. Ready' <=> Ready
  BY <1>1, <1>3 DEF Ready
<1>5. Quiet' /\ Grouped'
  BY <1>1, <1>3, <1>4 DEF TInv, Quiet, Grouped
<1>6. QED
  BY <1>2, <1>5 DEF TInv

(* With two levels the canvas is exact, whatever the number of groups.      *)
LEMMA MatchingTwoLevels ==
    ASSUME Matching
    PROVE  TwoLevels /\ Nested
<1>1. \A e \in Encodings : Len(e.grids[1]) = 2
  BY DEF Matching
<1>2. \A l : l \notin 2..(2 - 1)
  OBVIOUS
<1>3. QED
  BY <1>1, <1>2 DEF TwoLevels, Nested

(* The invariant always holds.                                              *)
LEMMA TokensInvariance ==
    ASSUME Matching
    PROVE  Spec => [](IInv /\ TInv)
<1>1. Init => TInv
  BY TInvInit
<1>2. IInv /\ TInv /\ [Next]_vars /\ CanvasExact' => TInv'
  BY EncodeBaseTokens, EncodeGroupTokens, ServeTokens, StutterTokens DEF Next
<1>3. Spec => []CanvasExact
  BY MatchingTwoLevels, TransmissionCanvasExact
<1>4. Spec => []IInv
  BY Invariance
<1>5. QED
  BY <1>1, <1>2, <1>3, <1>4, PTL DEF Spec

(* Client and server group alike: whatever the executor and its formula, a  *)
(* token is corrected from pixels that have all arrived.                    *)
THEOREM TransmissionCorrectedFromArrived ==
    ASSUME Matching
    PROVE  Spec => []CorrectedFromArrived
<1>1. TInv => CorrectedFromArrived
  BY DEF TInv, CorrectedFromArrived
<1>2. QED
  BY <1>1, TokensInvariance, PTL

(* And when the answer is out it has been corrected exactly once, unless    *)
(* its patch was never to be sent.                                          *)
THEOREM TransmissionTokensCorrectedOnce ==
    ASSUME Matching
    PROVE  Spec => []TokensCorrectedOnce
<1>1. IInv /\ TInv => TokensCorrectedOnce
  <2> SUFFICES ASSUME IInv, TInv, answered, LastGroup # 0, NEW t \in Tokens
               PROVE  times[t] = IF \A c \in Under(t) : Kept(c) THEN 1 ELSE 0
    BY DEF TokensCorrectedOnce
  <2>1. /\ enc \in Encodings /\ sent \in Seq(Parcel) /\ received \in 0..Len(sent) /\ Len(sent) \in Nat
        /\ DOMAIN sent = 1..Len(sent) /\ received \in Nat
        /\ \A k \in DOMAIN sent : sent[k].gid < next /\ sent[k].patches = Members(sent[k].gid)
        /\ \A j, k \in DOMAIN sent : j < k => sent[j].gid < sent[k].gid
        /\ next \in 1..(NumGroups + 1)
    BY DEF IInv, TypeOK, Yielded
  <2>2. received \in DOMAIN sent /\ sent[received].gid = LastGroup
    BY <2>1 DEF TInv, Last
  <2>3. /\ Ready /\ ~enc.baseOnly /\ NumGroups \in Nat \ {0}
    BY <2>2, SomeGroup DEF TInv
  <2>4. /\ Finest = 2 /\ Residuals = Cells /\ Agrees(t)
        /\ enc.policy \in CropPolicies => enc.strategy = "crop_cover"
    BY <2>1, <2>3, Agreement
  <2>5. PICK c \in Cells : Under(t) = {c}
    BY <2>4 DEF Agrees
  <2>6. InGroup(assigned[c])
    BY <2>3, <2>4 DEF IInv, Stages
  <2>7. times[t] = IF Given(t) THEN 1 ELSE 0
    BY DEF TInv, Counted
  <2>8. ASSUME Kept(c) PROVE Given(t)
    <3>1. assigned[c] \in 1..LastGroup
      <4>1. Len(CropList) \in Nat
        BY <2>1, CropListType
      <4>2. CASE enc.policy \in CropPolicies
        <5>1. LastGroup = Len(CropList) /\ enc.strategy = "crop_cover"
          BY <2>3, <2>4, <4>2 DEF LastGroup
        <5>2. ~Drops /\ (enc.policy = "ADE20KWindow" => NumGroups = Len(CropList))
          BY <5>1 DEF Drops, NumGroups, Windowed
        <5>3. ByCrop \/ enc.policy = "ADE20KWindow"
          BY <4>2, <5>1 DEF CropPolicies, ByCrop
        <5>4. QED
          BY <2>6, <5>1, <5>2, <5>3 DEF InGroup
      <4>3. CASE enc.policy \notin CropPolicies
        <5>1. LastGroup = NumGroups
          BY <2>3, <4>3 DEF LastGroup
        <5>2. ~ByCrop
          BY <4>3 DEF ByCrop, CropPolicies
        <5>3. QED
          BY <2>6, <2>8, <5>1, <5>2 DEF InGroup, Drops, Kept
      <4>4. QED
        BY <4>2, <4>3
    <3>2. LastGroup < next /\ LastGroup \in Nat /\ next \in Nat
      BY <2>1, <2>2, <2>3, NumGroupsType
    <3>3. assigned[c] \in 1..(next - 1)
      BY <3>1, <3>2
    <3>4. PICK k \in DOMAIN sent : sent[k].gid = assigned[c]
      BY <2>3, <2>4, <3>3 DEF IInv, NonePassed
    <3>5. k \in 1..received
      <4>1. ~(received < k)
        BY <2>1, <2>2, <3>1, <3>2, <3>4
      <4>2. QED
        BY <2>1, <4>1
    <3>6. c \in sent[k].patches /\ sent[k].gid # 0
      <4>1. c \in Members(assigned[c])
        BY <2>4, <3>1, <3>2 DEF Members
      <4>2. QED
        BY <2>1, <3>1, <3>2, <3>4, <4>1
    <3>7. QED
      BY <2>5, <3>5, <3>6 DEF Given
  <2>9. ASSUME ~Kept(c) PROVE ~Given(t)
    <3> SUFFICES ASSUME NEW k \in 1..received, sent[k].gid # 0, c \in sent[k].patches PROVE FALSE
      BY <2>5 DEF Given
    <3>1. k \in DOMAIN sent
      BY <2>1
    <3>2. assigned[c] = sent[k].gid
      BY <2>1, <3>1 DEF Members
    <3>3. QED
      BY <2>9, <3>2 DEF Kept
  <2>10. QED
    BY <2>5, <2>7, <2>8, <2>9
<1>2. QED
  BY <1>1, TokensInvariance, PTL
=============================================================================
