---------------------------- MODULE Transmission ----------------------------
(***************************************************************************)
(* One request through a transmission policy (offload/policies/            *)
(* transmission): the client's encode() yields the coarse base and then    *)
(* the residual patches group by group, the decoder rebuilds the picture   *)
(* from what has arrived, and the executor corrects the tokens that belong *)
(* to the group.  The server learns the group numbers of patches only, so  *)
(* its tokens and the client's patches must have been grouped alike.       *)
(*                                                                         *)
(* A patch holds one value.  Level 1 is the coarsest of pyramid_levels,    *)
(* the last level is the picture itself; frames are the images of a batch  *)
(* or the views of a scene.                                                *)
(***************************************************************************)
EXTENDS Grouping, FiniteSetsExt

CONSTANTS
    Encodings,       \* the transmission configurations considered
    Seeds,           \* bound: pictures per configuration
    MaxPixel         \* the largest pixel value, 255 in the code

Windowed == {"COCOWindow", "FourierWindowed"}
CropPolicies == {"ADE20KWindow", "FourierADE20KWindow"}
Policies == {"Progressive", "NYUProgressive", "FourierLaplacian", "FourierBinary", "VGGT",
             "Laplacian"} \cup Windowed \cup CropPolicies

Shapes == (Nat \ {0}) \X (Nat \ {0})           \* rows and columns of patches
Rows(e) == e.grids[1][Len(e.grids[1])][1]
Cols(e) == e.grids[1][Len(e.grids[1])][2]

ASSUME TransmissionAssumption ==
    /\ MaxPixel \in Nat \ {0}
    /\ Seeds \subseteq Nat
    /\ \A e \in Encodings :
        /\ e.policy \in Policies
        /\ e.groups \in Nat          \* num_groups or correction_groups, 0 when absent
        /\ e.grids \in Seq(Seq(Shapes)) \ {<< >>}      \* of each frame, of each level
        /\ \A f \in DOMAIN e.grids : Len(e.grids[f]) = Len(e.grids[1]) /\ e.grids[f] # << >>
        /\ {e.patch, e.crop, e.stride} \subseteq Nat \ {0}
        /\ e.server \in {"payload", "tokens", "crops", "windows", "marks", "ungrouped"}
        /\ e.baseOnly \in BOOLEAN
        /\ e.policy = "VGGT" =>      \* as _correction_grouping asserts; two levels, as configured
             e.strategy \in {"per_frame", "spatial"} /\ Len(e.grids[1]) = 2
        /\ e.policy \in Windowed =>  \* _window_slices: no window is empty
             \A k \in 0..(WindowsAcross - 1) : /\ WindowLength(Rows(e) * e.patch, e.patch, k) > 0
                                        /\ WindowLength(Cols(e) * e.patch, e.patch, k) > 0

VARIABLES
    enc,             \* the configuration in use
    image,           \* the picture: a value for every patch of the last level
    assigned,        \* the group of every residual patch
    stage, next,     \* encode(): where it is, and the group its loop has come to
    sent, received,  \* the groups yielded, and how many the server has taken
    canvas,          \* context['input_hr_np']
    groupMap,        \* the group map written from the payload; -1 is no group
    times, stale,    \* how often a token was corrected, and those corrected too early
    answered

vars == << enc, image, assigned, stage, next, sent, received, canvas, groupMap, times, stale, answered >>

-----------------------------------------------------------------------------
(* Patches.                                                                 *)
Frames == DOMAIN enc.grids
Finest == Len(enc.grids[1])
Height(f, l) == enc.grids[f][l][1]
Width(f, l) == enc.grids[f][l][2]

PatchesAt(l) ==
    UNION {[frame : {f}, level : {l}, row : 0..(Height(f, l) - 1), col : 0..(Width(f, l) - 1)] :
           f \in Frames}
Cells == PatchesAt(Finest)
Residuals == IF enc.baseOnly THEN {} ELSE UNION {PatchesAt(l) : l \in 2..Finest}

SpatialIdx(p) == p.row * Width(p.frame, p.level) + p.col

(* The same place at another level.                                         *)
At(p, l) ==
    [p EXCEPT !.level = l,
              !.row = (@ * Height(p.frame, l)) \div Height(p.frame, p.level),
              !.col = (@ * Width(p.frame, l)) \div Width(p.frame, p.level)]

Clip(v) == Most(0, Least(v, MaxPixel))

(* What level l of the pyramid shows; the base has lost detail.             *)
Target(p) ==
    LET v == image[At(p, Finest)] IN IF p.level = 1 /\ Finest > 1 THEN v - (v % 2) ELSE v

(* The closed loop: the difference to what the decoder will predict, not to *)
(* the native level.                                                        *)
OpenLoop(p) == Target(p) - image[At(At(p, p.level - 1), Finest)]
Residual(p) == Target(p) - Target(At(p, p.level - 1))
Data(p) == IF p.level = 1 THEN Target(p) ELSE Residual(p)

Rebuilt(patches) ==
    LET value[l \in 1..Finest] ==
            [p \in PatchesAt(l) |->
               LET predicted == IF l = 1 THEN 0 ELSE value[l - 1][At(p, l - 1)]
               IN Clip(predicted + IF p \in patches THEN Data(p) ELSE 0)]
    IN value[Finest]

-----------------------------------------------------------------------------
(* The client's groups.                                                     *)
PixelHeight == Height(1, Finest) * enc.patch
PixelWidth == Width(1, Finest) * enc.patch
CropList == Crops(PixelHeight, PixelWidth, enc.crop, enc.stride)

Default(groups, otherwise) == IF groups = 0 THEN otherwise ELSE groups

NumGroups ==
    CASE enc.policy \in {"Progressive", "NYUProgressive"} -> Default(enc.groups, 4)
      [] enc.policy = "ADE20KWindow" -> Len(CropList)
      [] enc.policy \in Windowed -> WindowsAcross * WindowsAcross
      [] enc.policy \in {"FourierLaplacian", "FourierADE20KWindow", "VGGT"} -> Default(enc.groups, 1)
      [] enc.policy = "FourierBinary" -> 1
      [] enc.policy = "Laplacian" -> 0

(* What the scheduler takes for the last group of the request.              *)
LastGroup ==
    IF enc.baseOnly THEN 0
    ELSE IF enc.policy \in CropPolicies THEN Len(CropList)
    ELSE NumGroups

(* The residual structure of a frame: its patches, level by level.          *)
Structure(f) == {p \in Residuals : p.frame = f}
Count(f) == Cardinality(Structure(f))
Place(p) ==
    Cardinality({q \in Structure(p.frame) : q.level < p.level}) + SpatialIdx(p)
Rank(key, p) ==
    RankOf(key, [q \in Structure(p.frame) |-> Place(q)], p)

Energy(p) == Residual(p) * Residual(p)
Size(p) == 1 + Most(Residual(p), -Residual(p))     \* stands for the compressed size
RingKey(p) == ExpansionKey(Height(p.frame, p.level), Width(p.frame, p.level), p.row, p.col)
RingKeys(f) == [q \in Structure(f) |-> RingKey(q)]
Falling(f) == [q \in Structure(f) |-> -Energy(q)]

ResidualRound(p) ==
    LET h == Height(p.frame, p.level)
        w == Width(p.frame, p.level)
    IN IF NumGroups = 1 THEN 0
       ELSE IF enc.strategy = "per_frame" THEN Bucket(p.frame - 1, Len(enc.grids), NumGroups)
       ELSE IF h >= NumGroups THEN Bucket(p.row, h, NumGroups)
       ELSE Bucket(SpatialIdx(p), h * w, NumGroups)

WindowedGroup(p) ==
    WindowGroup(PixelHeight, PixelWidth, enc.patch, p.row * enc.patch, p.col * enc.patch)

StrategyGroup(p) ==
    LET h == Height(p.frame, p.level)
        w == Width(p.frame, p.level)
    IN CASE enc.strategy = "grid" -> GridGroup(SideOf(NumGroups), p.row, p.col)
         [] enc.strategy = "block_grid" -> BlockGroup(SideOf(NumGroups), h, w, p.row, p.col)
         [] enc.strategy = "sequential" -> SequentialGroup(SpatialIdx(p), Count(p.frame), NumGroups)
         [] enc.strategy = "expansion" -> RankGroup(Rank(RingKeys(p.frame), p), Count(p.frame), NumGroups)
         [] enc.strategy = "crop_cover" /\ enc.policy \in CropPolicies ->
              FirstCover(CropList, RowCentre(0, enc.patch, p.row), RowCentre(0, enc.patch, p.col))
         [] enc.strategy = "top_energy" ->
              IF Rank(Falling(p.frame), p) < Rounded(enc.keep * Count(p.frame), 100) THEN 1 ELSE 0
         [] enc.strategy = "top_energy_threshold" -> IF Energy(p) >= enc.threshold THEN 1 ELSE 0
         [] OTHER -> 1

GroupOf(p) ==
    CASE enc.policy = "VGGT" -> p.level - 1 + ResidualRound(p)
      [] enc.policy \in Windowed -> WindowedGroup(p)
      [] enc.policy = "FourierBinary" -> 1
      [] OTHER -> StrategyGroup(p)

(* The orders a sort that is not stable may give: the patch of each rank.   *)
Orders(f, key) ==
    {order \in [1..Count(f) -> Structure(f)] :
        \A i, j \in 1..Count(f) : i < j =>
            order[i] # order[j] /\ key[order[i]] <= key[order[j]]}

(* Groups of equal shares of the weight, summed over the frames by rank.    *)
Shared(key, weight) ==
    LET ranks == 1..Count(1)
        orders == {o \in [Frames -> UNION {Orders(f, key) : f \in Frames}] :
                     \A f \in Frames : o[f] \in Orders(f, key)}
        UpTo(o, k) == MapThenSumSet(LAMBDA x : weight[o[x[1]][x[2]]], Frames \X (1..k))
        RankIn(o, p) == CHOOSE k \in ranks : o[p.frame][k] = p
    IN {[p \in Residuals |->
           IF UpTo(o, Count(1)) = 0 THEN 1
           ELSE ShareGroup(UpTo(o, RankIn(o, p)), UpTo(o, Count(1)), NumGroups)] : o \in orders}

Sizes == [p \in Residuals |-> Size(p)]
Energies == [p \in Residuals |-> Energy(p)]

Assignments ==
    CASE enc.strategy = "uniform_diff" -> Shared(Sizes, Sizes)
      [] enc.strategy = "energy_asc" -> Shared(Energies, Energies)
      [] enc.strategy = "energy_desc" -> Shared([p \in Residuals |-> -Energy(p)], Energies)
      [] enc.strategy \in {"random", "geometric"} -> [Residuals -> 1..NumGroups]
      [] OTHER -> {[p \in Residuals |-> GroupOf(p)]}

(* encode() raises once the base is out: options that cannot be grouped     *)
(* (Misconfigured), and the crop policy's override of                       *)
(* _precompute_group_assignments, called with an argument it does not take. *)
Misconfigured ==
    \/ /\ enc.policy \in {"Progressive", "NYUProgressive", "FourierLaplacian"}
       /\ enc.strategy \in {"grid", "block_grid"}
       /\ SideOf(NumGroups) * SideOf(NumGroups) # NumGroups
    \/ /\ enc.strategy = "expansion"
       /\ \E f \in Frames : NumGroups > Count(f)
    \/ /\ enc.policy = "VGGT" /\ NumGroups > 1
       /\ \/ enc.strategy = "per_frame" /\ Len(enc.grids) < NumGroups
          \/ enc.strategy = "spatial"
             /\ \E f \in Frames : Height(f, Finest) * Width(f, Finest) < NumGroups

Raises ==
    \/ Misconfigured
    \/ enc.policy = "ADE20KWindow"
    \/ /\ enc.policy = "VGGT" /\ NumGroups > 1        \* an empty round
       /\ \E g \in 1..NumGroups : \A p \in Residuals : GroupOf(p) # g

-----------------------------------------------------------------------------
(* The server's tokens: grids of tokens over parts of the picture, which    *)
(* test-time augmentation may have mirrored.                                *)
Source(top, left, rows, cols, flip) ==
    [frame |-> 1, top |-> top, left |-> left, rows |-> rows, cols |-> cols, flip |-> flip]

Sources ==
    CASE enc.server = "crops" ->
            {Source(c.top, c.left, (c.bottom - c.top) \div enc.patch,
                    (c.right - c.left) \div enc.patch, flip) :
               c \in {CropList[k] : k \in DOMAIN CropList}, flip \in enc.flips}
      [] enc.server = "windows" ->
            {Source(WindowStart(PixelHeight, enc.patch, k), WindowStart(PixelWidth, enc.patch, m),
                    WindowLength(PixelHeight, enc.patch, k) \div enc.patch,
                    WindowLength(PixelWidth, enc.patch, m) \div enc.patch, FALSE) :
               k \in 0..(WindowsAcross - 1), m \in 0..(WindowsAcross - 1)}
      [] enc.server = "marks" ->
            {[Source(0, 0, enc.tokens[f][1], enc.tokens[f][2], FALSE) EXCEPT !.frame = f] : f \in Frames}
      [] OTHER ->
            {[Source(0, 0, Height(f, Finest), Width(f, Finest), flip) EXCEPT !.frame = f] :
               f \in Frames, flip \in enc.flips}

Tokens ==
    UNION {[source : {s}, row : 0..(s.rows - 1), col : 0..(s.cols - 1)] : s \in Sources}

Cell(f, row, col) == [frame |-> f, level |-> Finest, row |-> row, col |-> col]

(* The patch a mark of the transmission grid is read from.                  *)
SampledDirect(t) ==
    LET w == Width(t.source.frame, Finest)
        index == t.row * t.source.cols + t.col
    IN Cell(t.source.frame, index \div w, index % w)
Sampled(t) ==
    Cell(t.source.frame, (t.row * Height(t.source.frame, Finest)) \div t.source.rows,
                         (t.col * Width(t.source.frame, Finest)) \div t.source.cols)

(* The patches whose pixels the token sees.                                 *)
Under(t) ==
    LET s == t.source
        ys == {s.top + t.row * enc.patch, s.top + (t.row + 1) * enc.patch - 1}
        xs == {s.left + t.col * enc.patch, s.left + (t.col + 1) * enc.patch - 1}
    IN IF enc.server = "marks" THEN {Sampled(t)}
       ELSE {Cell(s.frame, y \div enc.patch,
                  (IF s.flip THEN PixelWidth - 1 - x ELSE x) \div enc.patch) : y \in ys, x \in xs}

(* The group maps of the executors: on the token grid, by the pixel at the  *)
(* token's centre, by the window.                                           *)
Unmirrored(s, col) == col
Mirrored(s, col) == IF s.flip THEN s.cols - 1 - col ELSE col

TiledMap(t) ==
    LET s == t.source
        side == SideOf(NumGroups)
        col == Mirrored(s, t.col)
        index == [i \in 0..(s.rows * s.cols - 1) |-> i]
        key == [i \in DOMAIN index |-> ExpansionKey(s.rows, s.cols, i \div s.cols, i % s.cols)]
    IN CASE enc.strategy = "grid" -> TiledGroup(side, t.row, col)
         [] enc.strategy = "block_grid" -> TiledBlock(side, s.rows, s.cols, t.row, t.col)
         [] enc.strategy = "expansion" ->
              RankGroup(RankOf(key, index, t.row * s.cols + t.col), s.rows * s.cols, NumGroups)

CropMap(t) ==
    LET s == t.source
        side == SideOf(NumGroups)
        y == RowCentre(s.top, enc.patch, t.row)
        x == ColCentre(s.left, enc.patch, t.col, PixelWidth, s.flip)
    IN CASE enc.strategy = "grid" -> CropGridGroup(side, enc.patch, y, x)
         [] enc.strategy = "block_grid" ->
              CropBlockGroup(side, enc.patch, PixelHeight, PixelWidth, y, x)
         [] enc.strategy = "crop_cover" -> FirstCover(CropList, y, x)

WindowMap(t) ==
    LET s == t.source
    IN IF enc.strategy = "grid"
       THEN TiledGroup(SideOf(NumGroups), s.top \div enc.patch + t.row, s.left \div enc.patch + t.col)
       ELSE 1 + (s.top \div WindowSize(PixelHeight, enc.patch)) * WindowsAcross
              + s.left \div WindowSize(PixelWidth, enc.patch)

TokenGroup(t) ==
    CASE enc.server = "ungrouped" -> 1
      [] enc.server = "tokens" -> TiledMap(t)
      [] enc.server = "crops" -> CropMap(t)
      [] enc.server = "windows" -> WindowMap(t)

(* The tokens a group corrects: by the map written from the payloads, by    *)
(* the marks of this payload, or by the executor's own map.                 *)
Corrected(group, map) ==
    CASE enc.server = "payload" ->
            {t \in Tokens : map[Cell(t.source.frame, t.row, t.col)] = group.gid}
      [] enc.server = "marks" -> {t \in Tokens : Sampled(t) \in group.patches}
      [] OTHER -> {t \in Tokens : TokenGroup(t) = group.gid}

(* preprocess() of the executors that group by payload.                     *)
Written(map, group) ==
    LET writers(c) == {p \in group.patches : p.frame = c.frame /\ SpatialIdx(p) = SpatialIdx(c)}
    IN [c \in Cells |-> IF writers(c) # {} THEN group.gid ELSE map[c]]

-----------------------------------------------------------------------------
Init ==
    /\ enc \in Encodings
    /\ \E seed \in Seeds :
         image = [c \in Cells |-> (5 * SpatialIdx(c) + 3 * c.frame + seed) % (MaxPixel + 1)]
    /\ assigned = << >>
    /\ stage = "base" /\ next = 1 /\ sent = << >> /\ received = 0
    /\ canvas = [c \in Cells |-> 0]
    /\ groupMap = [c \in Cells |-> -1]
    /\ times = [t \in Tokens |-> 0] /\ stale = {}
    /\ answered = FALSE

Group(g, patches) == [gid |-> g, patches |-> patches, total |-> Cardinality(patches)]
Yield(g, patches) ==
    sent' = IF patches = {} THEN sent ELSE Append(sent, Group(g, patches))

server == << received, canvas, groupMap, times, stale, answered >>

(* encode() up to its first yield.                                          *)
EncodeBase ==
    /\ stage = "base"
    /\ Yield(0, PatchesAt(1))
    /\ stage' = IF enc.baseOnly \/ NumGroups = 0 THEN "done"
                ELSE IF Raises THEN "raised" ELSE "groups"
    /\ assigned' \in IF stage' = "groups" THEN Assignments ELSE {<< >>}
    /\ UNCHANGED << enc, image, next, server >>

(* The next turn of its loop over the groups.                               *)
EncodeGroup ==
    /\ stage = "groups"
    /\ Yield(next, {p \in Residuals : assigned[p] = next})
    /\ next' = next + 1
    /\ stage' = IF next = NumGroups THEN "done" ELSE "groups"
    /\ UNCHANGED << enc, image, assigned, server >>

(* The patches decode() is given: the payload alone when it works in place, *)
(* else everything so far.                                                  *)
InPlace == enc.policy \in {"COCOWindow", "NYUProgressive"}
Arrived(n) == UNION {sent[k].patches : k \in 1..n}

DecodeAgain(group) ==
    IF InPlace /\ group.gid # 0
    THEN [c \in Cells |-> IF c \in Arrived(received + 1) THEN Clip(canvas[c] + Residual(c)) ELSE canvas[c]]
    ELSE Rebuilt(Arrived(received + 1))

Decode(group) ==
    IF InPlace /\ group.gid # 0 /\ (enc.policy = "NYUProgressive" => Finest = 2)
    THEN [c \in Cells |-> IF c \in group.patches THEN Clip(canvas[c] + Residual(c)) ELSE canvas[c]]
    ELSE Rebuilt(IF InPlace THEN group.patches ELSE Arrived(received + 1))

(* A group is complete: the worker decodes it, and its tokens are corrected *)
(* from the canvas.  Group 0 is the approximation.                          *)
Serve ==
    /\ ~answered /\ received < Len(sent)
    /\ LET group == sent[received + 1]
           map == Written(groupMap, group)
           tokens == IF group.gid = 0 THEN {} ELSE Corrected(group, map)
       IN /\ Cardinality(group.patches) = group.total
          /\ received' = received + 1
          /\ canvas' = Decode(group)
          /\ groupMap' = map
          /\ times' = [t \in Tokens |-> IF t \in tokens THEN times[t] + 1 ELSE times[t]]
          /\ stale' = (stale \ tokens)
                      \cup {t \in tokens : \E c \in Under(t) : canvas'[c] # image[c]}
          /\ answered' = (group.gid = LastGroup)
    /\ UNCHANGED << enc, image, assigned, stage, next, sent >>

Next == EncodeBase \/ EncodeGroup \/ Serve

(* The client's source and the server's threads keep running.               *)
Spec ==
    /\ Init /\ [][Next]_vars
    /\ WF_vars(EncodeBase \/ EncodeGroup)
    /\ WF_vars(Serve)

-----------------------------------------------------------------------------
TypeOK ==
    /\ enc \in Encodings
    /\ image \in [Cells -> 0..MaxPixel]
    /\ assigned \in {<< >>} \cup [Residuals -> 0..Most(NumGroups, Len(CropList))]
    /\ stage \in {"base", "groups", "done", "raised"}
    /\ next \in 1..(NumGroups + 1)
    /\ received \in 0..Len(sent)
    /\ canvas \in [Cells -> 0..MaxPixel]
    /\ groupMap \in [Cells -> -1..NumGroups]
    /\ times \in [Tokens -> Nat]
    /\ stale \subseteq Tokens
    /\ answered \in BOOLEAN
    /\ \A k \in DOMAIN sent :
         sent[k] \in [gid : 0..NumGroups, patches : SUBSET (PatchesAt(1) \cup Residuals), total : Nat]

(* Whatever the strategy, every residual patch travels in one group and no  *)
(* other, and none is left behind but those a keep rate or a threshold      *)
(* drops (the groups of encode()).                                          *)
Kept(p) ==
    ~(enc.strategy \in {"top_energy", "top_energy_threshold"} /\ assigned[p] = 0)

ResidualsSentOnce ==
    /\ \A j, k \in DOMAIN sent : j # k => sent[j].patches \cap sent[k].patches = {}
    /\ stage = "done" /\ LastGroup # 0 =>
         \A p \in Residuals : Kept(p) => \E k \in DOMAIN sent : p \in sent[k].patches

(* "Closed loop makes it lossless by construction" (laplacian.py): where    *)
(* the residuals of every level have arrived, the canvas shows the picture  *)
(* exactly, however little has arrived elsewhere.                           *)
CanvasExact ==
    \A c \in Cells :
        (\A l \in 1..Finest : At(c, l) \in Arrived(received)) /\ Finest > 1 =>
            canvas[c] = image[c]

(* Adding residuals to the canvas in place gives what rebuilding it from    *)
(* all patches would give (decode of the COCO and NYU policies).            *)
CanvasRebuilt == canvas = Rebuilt(Arrived(received))

(* A token is corrected with its group only when the pixels it sees have    *)
(* all arrived: client and server group alike.  Left out are crops that do  *)
(* not begin on a patch boundary: their tokens straddle patches.            *)
Aligned ==
    \A s \in Sources : s.top % enc.patch = 0 /\ s.left % enc.patch = 0

CorrectedFromArrived == Aligned => stale = {}

(* When the answer is out every token has been corrected exactly once,      *)
(* unless its patch was never to be sent: no group of the server's maps is  *)
(* missing from the client's, or corrected again.                           *)
TokensCorrectedOnce ==
    answered /\ LastGroup # 0 =>
        \A t \in Tokens :
            times[t] = IF \A c \in Under(t) : Kept(c) THEN 1 ELSE 0

(* Every request whose options can be grouped is answered: the group the    *)
(* scheduler waits for is sent, complete and after all the others.  Groups  *)
(* drawn at random may leave it empty, and a picture without residual       *)
(* energy leaves all but the first empty.                                   *)
Fills ==
    /\ enc.strategy \notin {"random", "geometric"}
    /\ enc.strategy \in {"energy_asc", "energy_desc"} => \E p \in Residuals : Energy(p) > 0

Finishes == stage = "base" /\ ~Misconfigured /\ Fills ~> answered
=============================================================================
