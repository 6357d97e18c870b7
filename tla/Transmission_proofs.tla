------------------------ MODULE Transmission_proofs -------------------------
(***************************************************************************)
(* Transmission, for every set of configurations that satisfies            *)
(* TransmissionAssumption, every picture and every pixel range: types,     *)
(* what is sent, and what the canvas shows.                                *)
(***************************************************************************)
EXTENDS Transmission, Grouping_proofs

-----------------------------------------------------------------------------
(* Geometry: the levels of a frame are grids of one patch at least, and a   *)
(* place of one level is a place of another.                                *)
LEMMA GridType ==
    ASSUME enc \in Encodings
    PROVE  /\ Finest \in Nat \ {0}
           /\ Frames = 1..Len(enc.grids) /\ Len(enc.grids) \in Nat \ {0}
           /\ 1 \in Frames /\ 1 \in 1..Finest /\ Finest \in 1..Finest
           /\ enc.patch \in Nat \ {0}
           /\ \A f \in Frames, l \in 1..Finest :
                Height(f, l) \in Nat \ {0} /\ Width(f, l) \in Nat \ {0}
<1>1. /\ enc.grids \in Seq(Seq(Shapes)) /\ enc.grids # << >>
      /\ \A f \in DOMAIN enc.grids : Len(enc.grids[f]) = Len(enc.grids[1]) /\ enc.grids[f] # << >>
      /\ enc.patch \in Nat \ {0}
  BY TransmissionAssumption
<1>2. Frames = 1..Len(enc.grids) /\ Len(enc.grids) \in Nat \ {0}
  BY <1>1 DEF Frames
<1>3. \A f \in Frames : enc.grids[f] \in Seq(Shapes) /\ Len(enc.grids[f]) = Finest
  BY <1>1, <1>2 DEF Frames, Finest
<1>4. Finest \in Nat \ {0}
  <2>1. 1 \in Frames
    BY <1>2
  <2>2. enc.grids[1] \in Seq(Shapes) /\ enc.grids[1] # << >>
    BY <1>1, <1>3, <2>1 DEF Frames
  <2>3. QED
    BY <2>2 DEF Finest
<1>5. \A f \in Frames, l \in 1..Finest : enc.grids[f][l] \in Shapes
  BY <1>3, <1>4
<1>6. \A f \in Frames, l \in 1..Finest :
        Height(f, l) \in Nat \ {0} /\ Width(f, l) \in Nat \ {0}
  BY <1>5 DEF Shapes, Height, Width
<1>7. QED
  BY <1>1, <1>2, <1>4, <1>6

(* The patches of a level, by frame, row and column.                        *)
LEMMA PatchType ==
    ASSUME enc \in Encodings, NEW l \in 1..Finest, NEW p
    PROVE  p \in PatchesAt(l) <=>
             \E f \in Frames, row \in Nat, col \in Nat :
               /\ row < Height(f, l) /\ col < Width(f, l)
               /\ p = [frame |-> f, level |-> l, row |-> row, col |-> col]
<1>1. \A f \in Frames : Height(f, l) \in Nat \ {0} /\ Width(f, l) \in Nat \ {0}
  BY GridType
<1>2. p \in PatchesAt(l) <=>
        \E f \in Frames :
          p \in [frame : {f}, level : {l}, row : 0..(Height(f, l) - 1), col : 0..(Width(f, l) - 1)]
  BY DEF PatchesAt
<1>3. ASSUME NEW f \in Frames
      PROVE  p \in [frame : {f}, level : {l}, row : 0..(Height(f, l) - 1), col : 0..(Width(f, l) - 1)]
               <=> \E row \in Nat, col \in Nat :
                     /\ row < Height(f, l) /\ col < Width(f, l)
                     /\ p = [frame |-> f, level |-> l, row |-> row, col |-> col]
  BY <1>1
<1>4. QED
  BY <1>2, <1>3

(* And back: the fields of a patch.                                         *)
LEMMA PatchFields ==
    ASSUME enc \in Encodings, NEW l \in 1..Finest, NEW p \in PatchesAt(l)
    PROVE  /\ p.frame \in Frames /\ p.level = l
           /\ p.row \in 0..(Height(p.frame, l) - 1)
           /\ p.col \in 0..(Width(p.frame, l) - 1)
           /\ p = [frame |-> p.frame, level |-> l, row |-> p.row, col |-> p.col]
<1>1. PICK f \in Frames, row \in Nat, col \in Nat :
        /\ row < Height(f, l) /\ col < Width(f, l)
        /\ p = [frame |-> f, level |-> l, row |-> row, col |-> col]
  BY PatchType
<1>2. Height(f, l) \in Nat \ {0} /\ Width(f, l) \in Nat \ {0}
  BY GridType
<1>3. QED
  BY <1>1, <1>2

(* Levels do not share patches.                                             *)
LEMMA LevelsApart ==
    ASSUME enc \in Encodings, NEW l \in 1..Finest, NEW m \in 1..Finest,
           NEW p \in PatchesAt(l), p \in PatchesAt(m)
    PROVE  l = m
BY PatchFields

(* The place at another level is a patch of that level.                     *)
LEMMA AtType ==
    ASSUME enc \in Encodings, NEW l \in 1..Finest, NEW m \in 1..Finest, NEW p \in PatchesAt(l)
    PROVE  At(p, m) \in PatchesAt(m)
<1>1. /\ p.frame \in Frames /\ p.level = l
      /\ p.row \in 0..(Height(p.frame, l) - 1)
      /\ p.col \in 0..(Width(p.frame, l) - 1)
      /\ p = [frame |-> p.frame, level |-> l, row |-> p.row, col |-> p.col]
  BY PatchFields
<1> DEFINE row == (p.row * Height(p.frame, m)) \div Height(p.frame, l)
           col == (p.col * Width(p.frame, m)) \div Width(p.frame, l)
<1>2. /\ Height(p.frame, l) \in Nat \ {0} /\ Width(p.frame, l) \in Nat \ {0}
      /\ Height(p.frame, m) \in Nat \ {0} /\ Width(p.frame, m) \in Nat \ {0}
  BY <1>1, GridType
<1>3. row \in 0..(Height(p.frame, m) - 1) /\ col \in 0..(Width(p.frame, m) - 1)
  BY <1>1, <1>2, Scaled
<1>4. At(p, m) = [frame |-> p.frame, level |-> m, row |-> row, col |-> col]
  <2>1. At(p, m) = [[[p EXCEPT !.level = m] EXCEPT !.row = row] EXCEPT !.col = col]
    BY <1>1 DEF At
  <2> HIDE DEF row, col
  <2>2. QED
    BY <1>1, <2>1
<1> HIDE DEF row, col
<1>5. row \in Nat /\ col \in Nat /\ row < Height(p.frame, m) /\ col < Width(p.frame, m)
  BY <1>2, <1>3
<1>6. QED
  BY <1>1, <1>4, <1>5, PatchType

(* A patch is where it is.                                                  *)
LEMMA AtOwnLevel ==
    ASSUME enc \in Encodings, NEW l \in 1..Finest, NEW p \in PatchesAt(l)
    PROVE  At(p, l) = p
<1>1. /\ p.frame \in Frames /\ p.level = l
      /\ p.row \in 0..(Height(p.frame, l) - 1)
      /\ p.col \in 0..(Width(p.frame, l) - 1)
      /\ p = [frame |-> p.frame, level |-> l, row |-> p.row, col |-> p.col]
  BY PatchFields
<1>2. Height(p.frame, l) \in Nat \ {0} /\ Width(p.frame, l) \in Nat \ {0}
  BY <1>1, GridType
<1>3. /\ (p.row * Height(p.frame, l)) \div Height(p.frame, l) = p.row
      /\ (p.col * Width(p.frame, l)) \div Width(p.frame, l) = p.col
  <2>1. p.row \in Nat /\ p.col \in Nat
    BY <1>1, <1>2
  <2>2. QED
    BY <1>2, <2>1, DivisionExact
<1>4. At(p, l) = [frame |-> p.frame, level |-> l, row |-> p.row, col |-> p.col]
  BY <1>1, <1>3 DEF At
<1>5. QED
  BY <1>1, <1>4

(* spatial_idx numbers the patches of one level and frame.                  *)
LEMMA SpatialIdxType ==
    ASSUME enc \in Encodings, NEW l \in 1..Finest, NEW p \in PatchesAt(l)
    PROVE  SpatialIdx(p) \in 0..(Height(p.frame, l) * Width(p.frame, l) - 1)
<1> DEFINE h == Height(p.frame, l)
           w == Width(p.frame, l)
<1>1. /\ p.frame \in Frames /\ p.level = l
      /\ p.row \in 0..(h - 1) /\ p.col \in 0..(w - 1)
  BY PatchFields
<1>2. h \in Nat \ {0} /\ w \in Nat \ {0}
  BY <1>1, GridType
<1>3. SpatialIdx(p) = p.row * w + p.col
  BY <1>1 DEF SpatialIdx
<1> HIDE DEF h, w
<1>4. p.row * w <= (h - 1) * w /\ p.row * w \in Nat
  BY <1>1, <1>2
<1>5. (h - 1) * w = h * w - w /\ h * w \in Nat
  BY <1>2
<1>6. p.row * w + p.col \in 0..(h * w - 1)
  BY <1>1, <1>2, <1>4, <1>5
<1>7. QED
  BY <1>3, <1>6 DEF h, w

-----------------------------------------------------------------------------
(* The residual structure of a frame is finite and holds at least the       *)
(* patches of each level after the first.                                   *)
LEMMA FiniteFamily ==
    ASSUME NEW S, IsFiniteSet(S), NEW U, NEW F \in [S -> U], \A x \in S : IsFiniteSet(F[x]),
           NEW V, \A v \in V : \E x \in S : v \in F[x]
    PROVE  IsFiniteSet(V)
<1> DEFINE T == {F[x] : x \in S}
<1>1. F \in Surjection(S, T)
  BY DEF Surjection
<1>2. IsFiniteSet(T)
  BY <1>1, FS_Surjection
<1>3. \A X \in T : IsFiniteSet(X)
  OBVIOUS
<1>4. V \in SUBSET (UNION T)
  OBVIOUS
<1> HIDE DEF T
<1>5. IsFiniteSet(UNION T)
  BY <1>2, <1>3, FS_UNION
<1>6. QED
  BY <1>4, <1>5, FS_Subset

(* The patches of a frame at a level, by row and column.                    *)
Grid(f, l) == [frame : {f}, level : {l}, row : 0..(Height(f, l) - 1), col : 0..(Width(f, l) - 1)]

(* A grid has rows times columns patches.                                   *)
LEMMA GridSize ==
    ASSUME enc \in Encodings, NEW f \in Frames, NEW l \in 1..Finest
    PROVE  IsFiniteSet(Grid(f, l)) /\ Cardinality(Grid(f, l)) = Height(f, l) * Width(f, l)
<1> DEFINE rows == 0..(Height(f, l) - 1)
           cols == 0..(Width(f, l) - 1)
           place == [x \in rows \X cols |->
                       [frame |-> f, level |-> l, row |-> x[1], col |-> x[2]]]
<1>1. Height(f, l) \in Nat \ {0} /\ Width(f, l) \in Nat \ {0}
  BY GridType
<1>2. /\ IsFiniteSet(rows) /\ Cardinality(rows) = Height(f, l)
      /\ IsFiniteSet(cols) /\ Cardinality(cols) = Width(f, l)
  <2>1. ASSUME NEW n \in Nat \ {0}
        PROVE  IsFiniteSet(0..(n - 1)) /\ Cardinality(0..(n - 1)) = n
    BY FS_Interval, 0 \in Int, n - 1 \in Int
  <2>2. QED
    BY <1>1, <2>1
<1>3. place \in Bijection(rows \X cols, Grid(f, l))
  <2>1. place \in [rows \X cols -> Grid(f, l)]
    BY DEF Grid
  <2>2. \A x, y \in rows \X cols : place[x] = place[y] => x = y
    OBVIOUS
  <2>3. \A p \in Grid(f, l) : \E x \in rows \X cols : place[x] = p
    <3> SUFFICES ASSUME NEW p \in Grid(f, l) PROVE \E x \in rows \X cols : place[x] = p
      OBVIOUS
    <3>1. p = [frame |-> f, level |-> l, row |-> p.row, col |-> p.col]
      BY DEF Grid
    <3>2. << p.row, p.col >> \in rows \X cols
      BY DEF Grid
    <3>3. place[<< p.row, p.col >>] = p
      BY <3>1, <3>2
    <3>4. QED
      BY <3>2, <3>3
  <2> HIDE DEF place, rows, cols
  <2>4. QED
    BY <2>1, <2>2, <2>3 DEF Bijection, Injection, Surjection, IsInjective
<1> HIDE DEF rows, cols, place
<1>4. IsFiniteSet(rows \X cols) /\ Cardinality(rows \X cols) = Height(f, l) * Width(f, l)
  BY <1>2, FS_Product
<1>5. ExistsBijection(rows \X cols, Grid(f, l))
  BY <1>3 DEF ExistsBijection
<1>6. QED
  BY <1>4, <1>5, FS_Bijection

(* A level is finite.                                                       *)
LEMMA LevelFinite ==
    ASSUME enc \in Encodings, NEW l \in 1..Finest
    PROVE  IsFiniteSet(PatchesAt(l))
<1> DEFINE F == [f \in Frames |-> Grid(f, l)]
<1>1. IsFiniteSet(Frames)
  <2>1. Frames = 1..Len(enc.grids) /\ Len(enc.grids) \in Int /\ 1 \in Int
    BY GridType
  <2>2. QED
    BY <2>1, FS_Interval
<1>2. \A f \in Frames : IsFiniteSet(F[f])
  BY GridSize
<1>3. F \in [Frames -> {Grid(f, l) : f \in Frames}]
  OBVIOUS
<1>4. \A p \in PatchesAt(l) : \E f \in Frames : p \in F[f]
  BY DEF PatchesAt, Grid
<1> HIDE DEF F
<1>5. QED
  BY <1>1, <1>2, <1>3, <1>4, FiniteFamily

(* So are all levels together.                                              *)
LEMMA ResidualsFinite ==
    ASSUME enc \in Encodings
    PROVE  IsFiniteSet(Residuals)
<1> DEFINE F == [l \in 2..Finest |-> PatchesAt(l)]
<1>1. Finest \in Nat
  BY GridType
<1>2. IsFiniteSet(2..Finest)
  BY <1>1, FS_Interval, 2 \in Int, Finest \in Int
<1>3. \A l \in 2..Finest : IsFiniteSet(F[l])
  BY <1>1, LevelFinite
<1>4. \A p \in Residuals : \E l \in 2..Finest : p \in F[l]
  BY DEF Residuals
<1>5. F \in [2..Finest -> {PatchesAt(l) : l \in 2..Finest}]
  OBVIOUS
<1> HIDE DEF F
<1>6. QED
  BY <1>2, <1>3, <1>4, <1>5, FiniteFamily

(* A residual patch lies at a level after the first.                        *)
LEMMA ResidualLevel ==
    ASSUME enc \in Encodings, NEW p \in Residuals
    PROVE  /\ p.level \in 2..Finest /\ p.level \in 1..Finest /\ p \in PatchesAt(p.level)
           /\ p.frame \in Frames /\ ~enc.baseOnly
<1>1. Finest \in Nat
  BY GridType
<1>2. PICK l \in 2..Finest : p \in PatchesAt(l)
  BY DEF Residuals
<1>3. ~enc.baseOnly
  BY DEF Residuals
<1>4. l \in 1..Finest
  BY <1>1
<1>5. p.level = l /\ p.frame \in Frames
  BY <1>2, <1>4, PatchFields
<1>6. QED
  BY <1>2, <1>3, <1>4, <1>5

(* And the residual structure of a frame.                                   *)
LEMMA StructureType ==
    ASSUME enc \in Encodings, NEW f
    PROVE  IsFiniteSet(Structure(f)) /\ Count(f) \in Nat
<1>1. Structure(f) \in SUBSET Residuals
  BY DEF Structure
<1>2. IsFiniteSet(Structure(f))
  BY <1>1, ResidualsFinite, FS_Subset
<1>3. QED
  BY <1>2, FS_CardinalityType DEF Count

(* A spatial_idx is smaller than the number of residual patches.            *)
LEMMA PlaceInStructure ==
    ASSUME enc \in Encodings, NEW p \in Residuals
    PROVE  SpatialIdx(p) \in 0..(Count(p.frame) - 1)
<1>1. /\ p.level \in 2..Finest /\ p.level \in 1..Finest /\ p \in PatchesAt(p.level)
      /\ p.frame \in Frames /\ ~enc.baseOnly
  BY ResidualLevel
<1>2. Grid(p.frame, p.level) \in SUBSET Structure(p.frame)
  <2> SUFFICES ASSUME NEW q \in Grid(p.frame, p.level) PROVE q \in Structure(p.frame)
    OBVIOUS
  <2>1. q \in PatchesAt(p.level)
    BY <1>1 DEF PatchesAt, Grid
  <2>2. q \in Residuals
    BY <1>1, <2>1 DEF Residuals
  <2>3. q.frame = p.frame
    BY DEF Grid
  <2>4. QED
    BY <2>2, <2>3 DEF Structure
<1>3. Height(p.frame, p.level) * Width(p.frame, p.level) <= Count(p.frame)
  BY <1>1, <1>2, GridSize, StructureType, FS_Subset DEF Count
<1>4. SpatialIdx(p) \in 0..(Height(p.frame, p.level) * Width(p.frame, p.level) - 1)
  BY <1>1, SpatialIdxType
<1>5. Count(p.frame) \in Nat
  BY StructureType
<1>6. Height(p.frame, p.level) \in Nat /\ Width(p.frame, p.level) \in Nat
  BY <1>1, GridType
<1>7. QED
  BY <1>3, <1>4, <1>5, <1>6

(* The place in the residual structure is a number.                         *)
LEMMA PlaceType ==
    ASSUME enc \in Encodings, NEW p \in Residuals
    PROVE  Place(p) \in Int
<1> DEFINE before == {q \in Structure(p.frame) : q.level < p.level}
<1>1. before \in SUBSET Structure(p.frame)
  OBVIOUS
<1> HIDE DEF before
<1>2. Cardinality(before) \in Nat
  BY <1>1, StructureType, FS_Subset, FS_CardinalityType
<1>3. SpatialIdx(p) \in Int
  BY PlaceInStructure
<1>4. QED
  BY <1>2, <1>3 DEF Place, before

(* So is the key of the expansion order.                                    *)
LEMMA RingKeyType ==
    ASSUME enc \in Encodings, NEW p \in Residuals
    PROVE  RingKey(p) \in Int
<1>1. /\ p.level \in 1..Finest /\ p \in PatchesAt(p.level) /\ p.frame \in Frames
  BY ResidualLevel
<1>2. p.row \in 0..(Height(p.frame, p.level) - 1) /\ p.col \in 0..(Width(p.frame, p.level) - 1)
  BY <1>1, PatchFields
<1>3. Height(p.frame, p.level) \in Nat /\ Width(p.frame, p.level) \in Nat
  BY <1>1, GridType
<1> DEFINE h == Height(p.frame, p.level)
           w == Width(p.frame, p.level)
           a == 2 * p.row - (h - 1)
           b == 2 * p.col - (w - 1)
           c == Most(w - 1, 1)
           d == Most(h - 1, 1)
<1>4. a \in Int /\ b \in Int /\ c \in Int /\ d \in Int
  BY <1>2, <1>3 DEF Most
<1>5. RingKey(p) = a * a * c * c + b * b * d * d
  BY DEF RingKey, ExpansionKey
<1> HIDE DEF a, b, c, d
<1>6. QED
  BY <1>4, <1>5

-----------------------------------------------------------------------------
(* Every strategy assigns a group that exists; only a keep rate and a       *)
(* threshold assign none (0), and the crops may be more than the groups     *)
(* that the hybrid of DCT base and crops was given.                         *)
Drops == enc.strategy \in {"top_energy", "top_energy_threshold"}
ByCrop == enc.policy = "FourierADE20KWindow" /\ enc.strategy = "crop_cover"
InGroup(g) ==
    IF ByCrop THEN g \in 1..Len(CropList)
    ELSE g \in 1..NumGroups \/ (g = 0 /\ Drops)
Largest == Most(NumGroups, Len(CropList))

(* The crops of the picture.                                                *)
LEMMA CropListType ==
    ASSUME enc \in Encodings
    PROVE  CropList \in Seq(Crop) /\ Len(CropList) \in Nat \ {0}
<1>1. enc.crop \in Nat /\ enc.stride \in Nat \ {0}
  BY TransmissionAssumption
<1>2. Height(1, Finest) \in Nat /\ Width(1, Finest) \in Nat /\ enc.patch \in Nat
  BY GridType
<1>3. PixelHeight \in Nat /\ PixelWidth \in Nat
  BY <1>2 DEF PixelHeight, PixelWidth
<1>4. QED
  BY <1>1, <1>3, CropsType DEF CropList

(* The number of groups; only the plain pyramid has none.                   *)
LEMMA NumGroupsType ==
    ASSUME enc \in Encodings
    PROVE  NumGroups \in Nat /\ (LastGroup # 0 => LastGroup \in Nat /\ NumGroups # 0)
<1>1. enc.policy \in Policies /\ enc.groups \in Nat
  BY TransmissionAssumption
<1>2. Len(CropList) \in Nat \ {0}
  BY CropListType
<1>3. NumGroups \in Nat /\ (NumGroups = 0 => enc.policy = "Laplacian")
  BY <1>1, <1>2 DEF NumGroups, Policies, Windowed, CropPolicies, Default, WindowsAcross
<1>4. QED
  BY <1>2, <1>3 DEF LastGroup, CropPolicies

(* A group assigned is within the range of TypeOK.                          *)
LEMMA InGroupType ==
    ASSUME enc \in Encodings, NEW g, InGroup(g)
    PROVE  g \in 0..Largest
<1>1. NumGroups \in Nat /\ Len(CropList) \in Nat
  BY NumGroupsType, CropListType
<1>2. QED
  BY <1>1 DEF InGroup, Largest, Most

(* The rank of a patch within its frame.                                    *)
LEMMA RankInStructure ==
    ASSUME enc \in Encodings, NEW p \in Residuals
    PROVE  Rank(RingKeys(p.frame), p) \in 0..(Count(p.frame) - 1)
<1> DEFINE S == Structure(p.frame)
           place == [q \in S |-> Place(q)]
<1>1. S \subseteq Residuals /\ p \in S /\ IsFiniteSet(S)
  BY StructureType DEF Structure
<1>2. RingKeys(p.frame) \in [S -> Int]
  BY <1>1, RingKeyType DEF RingKeys
<1>3. place[p] \in Int
  BY <1>1, PlaceType
<1> HIDE DEF S, place
<1>4. RankOf(RingKeys(p.frame), place, p) \in 0..(Cardinality(S) - 1)
  BY <1>1, <1>2, <1>3, RankRange
<1>5. QED
  BY <1>4 DEF Rank, Count, S, place

(* The strategies of ProgressiveLPyramidPolicy.                             *)
LEMMA StrategyRange ==
    ASSUME enc \in Encodings, NumGroups # 0, enc.policy # "ADE20KWindow", NEW p \in Residuals
    PROVE  InGroup(StrategyGroup(p))
<1>1. /\ p.level \in 2..Finest /\ p.level \in 1..Finest /\ p \in PatchesAt(p.level)
      /\ p.frame \in Frames /\ ~enc.baseOnly
  BY ResidualLevel
<1> DEFINE h == Height(p.frame, p.level)
           w == Width(p.frame, p.level)
           side == SideOf(NumGroups)
<1>2. h \in Nat \ {0} /\ w \in Nat \ {0}
  BY <1>1, GridType
<1>3. p.row \in Nat /\ p.col \in Nat
  BY <1>1, <1>2, PatchFields
<1>4. NumGroups \in Nat \ {0}
  BY NumGroupsType
<1>5. side \in Nat \ {0} /\ side * side <= NumGroups
  BY <1>4, SideOfType, SideOfPositive
<1> HIDE DEF h, w, side
<1>6. CASE enc.strategy = "grid"
  <2>1. GridGroup(side, p.row, p.col) \in 1..(side * side)
    BY <1>3, <1>5, GridGroupRange
  <2>2. StrategyGroup(p) = GridGroup(side, p.row, p.col)
    BY <1>6 DEF StrategyGroup, side
  <2>3. QED
    BY <1>4, <1>5, <1>6, <2>1, <2>2 DEF InGroup, ByCrop
<1>7. CASE enc.strategy = "block_grid"
  <2>1. BlockGroup(side, h, w, p.row, p.col) \in 1..(side * side)
    BY <1>2, <1>3, <1>5, BlockGroupRange
  <2>2. StrategyGroup(p) = BlockGroup(side, h, w, p.row, p.col)
    BY <1>7 DEF StrategyGroup, side, h, w
  <2>3. QED
    BY <1>4, <1>5, <1>7, <2>1, <2>2 DEF InGroup, ByCrop
<1>8. CASE enc.strategy = "sequential"
  <2>1. SpatialIdx(p) \in 0..(Count(p.frame) - 1) /\ Count(p.frame) \in Nat
    BY PlaceInStructure, StructureType
  <2>2. SequentialGroup(SpatialIdx(p), Count(p.frame), NumGroups) \in 1..NumGroups
    BY <1>4, <2>1, SequentialGroupRange
  <2>3. QED
    BY <1>8, <2>2 DEF StrategyGroup, InGroup, ByCrop
<1>9. CASE enc.strategy = "expansion"
  <2>1. Rank(RingKeys(p.frame), p) \in 0..(Count(p.frame) - 1) /\ Count(p.frame) \in Nat
    BY RankInStructure, StructureType
  <2>2. RankGroup(Rank(RingKeys(p.frame), p), Count(p.frame), NumGroups) \in 1..NumGroups
    BY <1>4, <2>1, RankGroupRange
  <2>3. QED
    BY <1>9, <2>2 DEF StrategyGroup, InGroup, ByCrop
<1>10. CASE enc.strategy = "crop_cover" /\ enc.policy \in CropPolicies
  <2>1. \A y, x : FirstCover(CropList, y, x) \in 1..Len(CropList)
    BY CropListType, FirstCoverRange
  <2>2. ByCrop
    BY <1>10 DEF ByCrop, CropPolicies
  <2>3. StrategyGroup(p)
          = FirstCover(CropList, RowCentre(0, enc.patch, p.row), RowCentre(0, enc.patch, p.col))
    BY <1>10 DEF StrategyGroup
  <2>4. QED
    BY <2>1, <2>2, <2>3 DEF InGroup
<1>11. CASE Drops
  <2>1. StrategyGroup(p) \in {0, 1}
    BY <1>11 DEF StrategyGroup, Drops
  <2>2. QED
    BY <1>4, <1>11, <2>1 DEF InGroup, ByCrop, Drops
<1>12. CASE /\ enc.strategy \notin {"grid", "block_grid", "sequential", "expansion"}
            /\ ~(enc.strategy = "crop_cover" /\ enc.policy \in CropPolicies) /\ ~Drops
  <2>1. StrategyGroup(p) = 1
    BY <1>12 DEF StrategyGroup, Drops
  <2>2. ~ByCrop
    BY <1>12 DEF ByCrop, CropPolicies
  <2>3. QED
    BY <1>4, <2>1, <2>2 DEF InGroup
<1>13. QED
  BY <1>6, <1>7, <1>8, <1>9, <1>10, <1>11, <1>12

(* VGGT's rounds.                                                           *)
LEMMA ResidualRoundRange ==
    ASSUME enc \in Encodings, NumGroups # 0, enc.policy = "VGGT", NEW p \in Residuals
    PROVE  ResidualRound(p) \in 0..(NumGroups - 1)
<1>1. /\ p.level \in 1..Finest /\ p \in PatchesAt(p.level) /\ p.frame \in Frames
  BY ResidualLevel
<1> DEFINE h == Height(p.frame, p.level)
           w == Width(p.frame, p.level)
           n == Len(enc.grids)
<1>2. h \in Nat \ {0} /\ w \in Nat \ {0} /\ n \in Nat /\ p.frame \in 1..n
  BY <1>1, GridType
<1>3. NumGroups \in Nat \ {0}
  BY NumGroupsType
<1>4. p.row \in 0..(h - 1) /\ SpatialIdx(p) \in 0..(h * w - 1)
  BY <1>1, PatchFields, SpatialIdxType
<1>5. ResidualRound(p) =
        IF NumGroups = 1 THEN 0
        ELSE IF enc.strategy = "per_frame" THEN Bucket(p.frame - 1, n, NumGroups)
        ELSE IF h >= NumGroups THEN Bucket(p.row, h, NumGroups)
        ELSE Bucket(SpatialIdx(p), h * w, NumGroups)
  BY DEF ResidualRound
<1> HIDE DEF h, w, n
<1>6. Bucket(p.frame - 1, n, NumGroups) \in 0..(NumGroups - 1)
  <2>1. p.frame - 1 \in 0..(n - 1)
    BY <1>2
  <2>2. QED
    BY <1>2, <1>3, <2>1, BucketRange
<1>7. Bucket(p.row, h, NumGroups) \in 0..(NumGroups - 1)
  BY <1>2, <1>3, <1>4, BucketRange
<1>8. Bucket(SpatialIdx(p), h * w, NumGroups) \in 0..(NumGroups - 1)
  <2>1. h * w \in Nat
    BY <1>2
  <2>2. QED
    BY <1>3, <1>4, <2>1, BucketRange
<1>9. QED
  BY <1>3, <1>5, <1>6, <1>7, <1>8

(* The detector's windows.                                                  *)
LEMMA WindowedRange ==
    ASSUME enc \in Encodings, enc.policy \in Windowed, NEW p \in Residuals
    PROVE  WindowedGroup(p) \in 1..(WindowsAcross * WindowsAcross)
<1>1. /\ p.level \in 1..Finest /\ p \in PatchesAt(p.level) /\ p.frame \in Frames
  BY ResidualLevel
<1>2. /\ Height(1, Finest) \in Nat /\ Width(1, Finest) \in Nat /\ enc.patch \in Nat \ {0}
      /\ Height(p.frame, p.level) \in Nat /\ Width(p.frame, p.level) \in Nat
  BY <1>1, GridType
<1>3. PixelHeight \in Nat /\ PixelWidth \in Nat
  BY <1>2 DEF PixelHeight, PixelWidth
<1>4. /\ WindowLength(PixelHeight, enc.patch, 0) > 0
      /\ WindowLength(PixelWidth, enc.patch, 0) > 0
  <2>1. 0 \in 0..(WindowsAcross - 1)
    BY DEF WindowsAcross
  <2>2. QED
    BY <2>1, TransmissionAssumption DEF PixelHeight, PixelWidth, Height, Width, Finest, Rows, Cols
<1>5. p.row * enc.patch \in Nat /\ p.col * enc.patch \in Nat
  <2>1. p.row \in Nat /\ p.col \in Nat
    BY <1>1, <1>2, PatchFields
  <2>2. QED
    BY <1>2, <2>1
<1>6. QED
  BY <1>2, <1>3, <1>4, <1>5, WindowGroupRange DEF WindowedGroup

(* Every policy.                                                            *)
LEMMA GroupRange ==
    ASSUME enc \in Encodings, NumGroups # 0, enc.policy # "ADE20KWindow", NEW p \in Residuals
    PROVE  InGroup(GroupOf(p))
<1>1. NumGroups \in Nat \ {0} /\ enc.policy \in Policies
  BY NumGroupsType, TransmissionAssumption
<1>2. CASE enc.policy = "VGGT"
  <2>1. p.level = 2
    <3>1. Finest = 2
      BY <1>2, TransmissionAssumption DEF Finest
    <3>2. QED
      BY <3>1, ResidualLevel
  <2>2. ResidualRound(p) \in 0..(NumGroups - 1)
    BY <1>2, ResidualRoundRange
  <2>3. GroupOf(p) = 1 + ResidualRound(p)
    BY <1>2, <2>1, <2>2 DEF GroupOf, Windowed
  <2>4. QED
    BY <1>1, <1>2, <2>2, <2>3 DEF InGroup, ByCrop
<1>3. CASE enc.policy \in Windowed
  <2>1. GroupOf(p) = WindowedGroup(p) /\ NumGroups = WindowsAcross * WindowsAcross
    BY <1>3 DEF GroupOf, NumGroups, Windowed
  <2>2. QED
    BY <1>3, <2>1, WindowedRange DEF InGroup, ByCrop, Windowed
<1>4. CASE enc.policy = "FourierBinary"
  BY <1>1, <1>4 DEF GroupOf, Windowed, InGroup, ByCrop
<1>5. CASE enc.policy \notin Windowed \cup {"VGGT", "FourierBinary"}
  <2>1. GroupOf(p) = StrategyGroup(p)
    BY <1>5 DEF GroupOf, Windowed
  <2>2. QED
    BY <2>1, StrategyRange
<1>6. QED
  BY <1>2, <1>3, <1>4, <1>5

(* And every assignment, chance and ties included.                          *)
LEMMA AssignmentsRange ==
    ASSUME enc \in Encodings, NumGroups # 0, enc.policy # "ADE20KWindow",
           NEW a \in Assignments
    PROVE  /\ a \in [Residuals -> 0..Largest]
           /\ \A p \in Residuals : InGroup(a[p])
<1>1. NumGroups \in Nat \ {0}
  BY NumGroupsType
<1>2. ASSUME NEW key, NEW weight, NEW b \in Shared(key, weight)
      PROVE  b \in [Residuals -> 1..NumGroups]
  <2> DEFINE ranks == 1..Count(1)
             orders == {o \in [Frames -> UNION {Orders(f, key) : f \in Frames}] :
                          \A f \in Frames : o[f] \in Orders(f, key)}
             UpTo(o, k) == MapThenSumSet(LAMBDA x : weight[o[x[1]][x[2]]], Frames \X (1..k))
             RankIn(o, p) == CHOOSE k \in ranks : o[p.frame][k] = p
             shares(o) == [p \in Residuals |->
                             IF UpTo(o, Count(1)) = 0 THEN 1
                             ELSE ShareGroup(UpTo(o, RankIn(o, p)), UpTo(o, Count(1)), NumGroups)]
  <2>1. \A x, y : ShareGroup(x, y, NumGroups) \in 1..NumGroups
    BY <1>1, ShareGroupRange
  <2>2. b \in {shares(o) : o \in orders}
    BY <1>2 DEF Shared
  <2> HIDE DEF UpTo, RankIn, orders
  <2>3. QED
    BY <1>1, <2>1, <2>2
<1>3. CASE a \in [Residuals -> 1..NumGroups] /\ enc.strategy # "crop_cover"
  <2>1. \A p \in Residuals : InGroup(a[p])
    BY <1>3 DEF InGroup, ByCrop
  <2>2. \A p \in Residuals : a[p] \in 0..Largest
    BY <2>1, InGroupType
  <2>3. QED
    BY <1>3, <2>1, <2>2
<1>4. CASE a = [p \in Residuals |-> GroupOf(p)]
  <2>1. \A p \in Residuals : InGroup(GroupOf(p)) /\ GroupOf(p) \in 0..Largest
    BY GroupRange, InGroupType
  <2>2. QED
    BY <1>4, <2>1
<1>5. \/ a \in [Residuals -> 1..NumGroups] /\ enc.strategy # "crop_cover"
      \/ a = [p \in Residuals |-> GroupOf(p)]
  BY <1>2 DEF Assignments
<1>6. QED
  BY <1>3, <1>4, <1>5

-----------------------------------------------------------------------------
(* The picture and what the levels of its pyramid show.                     *)
ImageType == image \in [Cells -> 0..MaxPixel]

(* Clipping gives a pixel, and leaves one alone.                            *)
LEMMA ClipType ==
    ASSUME NEW v \in Int
    PROVE  Clip(v) \in 0..MaxPixel /\ (v \in 0..MaxPixel => Clip(v) = v)
BY TransmissionAssumption DEF Clip, Most, Least

(* What a level shows are pixels.                                           *)
LEMMA TargetType ==
    ASSUME enc \in Encodings, ImageType, NEW l \in 1..Finest, NEW p \in PatchesAt(l)
    PROVE  Target(p) \in 0..MaxPixel
<1>1. At(p, Finest) \in Cells
  BY GridType, AtType DEF Cells
<1> DEFINE v == image[At(p, Finest)]
<1>2. v \in 0..MaxPixel /\ MaxPixel \in Nat
  BY <1>1, TransmissionAssumption DEF ImageType
<1>3. v - (v % 2) \in 0..MaxPixel
  <2> HIDE DEF v
  <2>1. v \in Nat /\ v % 2 \in Nat /\ v % 2 <= v
    BY <1>2
  <2>2. QED
    BY <1>2, <2>1
<1>4. Target(p) = v \/ Target(p) = v - (v % 2)
  BY DEF Target
<1>5. QED
  BY <1>2, <1>3, <1>4

(* The difference of two pixels is a number.                                *)
LEMMA ResidualType ==
    ASSUME enc \in Encodings, ImageType, NEW l \in 2..Finest, NEW p \in PatchesAt(l)
    PROVE  Residual(p) \in Int /\ Residual(p) = Target(p) - Target(At(p, l - 1))
<1>1. l \in 1..Finest /\ l - 1 \in 1..Finest
  BY GridType
<1>2. At(p, l - 1) \in PatchesAt(l - 1)
  BY <1>1, AtType
<1>3. Target(p) \in Int /\ Target(At(p, l - 1)) \in Int
  BY <1>1, <1>2, TargetType, TransmissionAssumption
<1>4. p.level = l
  BY <1>1, PatchFields
<1>5. QED
  BY <1>3, <1>4 DEF Residual

(* What a patch carries is a number.                                        *)
LEMMA DataType ==
    ASSUME enc \in Encodings, ImageType, NEW l \in 1..Finest, NEW p \in PatchesAt(l)
    PROVE  Data(p) \in Int
<1>1. p.level = l
  BY PatchFields
<1>2. CASE l = 1
  BY <1>1, <1>2, TargetType, TransmissionAssumption DEF Data
<1>3. CASE l # 1
  <2>1. l \in 2..Finest
    BY <1>3, GridType
  <2>2. QED
    BY <1>1, <1>3, <2>1, ResidualType DEF Data
<1>4. QED
  BY <1>2, <1>3

-----------------------------------------------------------------------------
(* The recursion over the levels, coarsest first, has a solution, and it    *)
(* shows pixels: Rebuilt is defined and in range for any set of patches.    *)
Shown(prior, l, patches) ==
    [p \in PatchesAt(l) |->
       LET predicted == IF l = 1 THEN 0 ELSE prior[At(p, l - 1)]
       IN Clip(predicted + IF p \in patches THEN Data(p) ELSE 0)]
Value(value, n, patches) == value = [l \in 1..n |-> Shown(value[l - 1], l, patches)]

(* A level made from the level before shows pixels.                         *)
LEMMA ShownType ==
    ASSUME enc \in Encodings, ImageType, NEW l \in 1..Finest, NEW patches, NEW prior,
           l # 1 => prior \in [PatchesAt(l - 1) -> 0..MaxPixel]
    PROVE  Shown(prior, l, patches) \in [PatchesAt(l) -> 0..MaxPixel]
<1> SUFFICES ASSUME NEW p \in PatchesAt(l)
             PROVE  Clip((IF l = 1 THEN 0 ELSE prior[At(p, l - 1)])
                          + (IF p \in patches THEN Data(p) ELSE 0)) \in 0..MaxPixel
  BY DEF Shown
<1>1. Data(p) \in Int
  BY DataType
<1>2. l # 1 => prior[At(p, l - 1)] \in Int
  <2> SUFFICES ASSUME l # 1 PROVE prior[At(p, l - 1)] \in Int
    OBVIOUS
  <2>1. l - 1 \in 1..Finest
    BY GridType
  <2>2. At(p, l - 1) \in PatchesAt(l - 1)
    BY <2>1, AtType
  <2>3. QED
    BY <2>2, TransmissionAssumption
<1> DEFINE sum == (IF l = 1 THEN 0 ELSE prior[At(p, l - 1)]) + (IF p \in patches THEN Data(p) ELSE 0)
<1>3. sum \in Int
  BY <1>1, <1>2
<1> HIDE DEF sum
<1>4. Clip(sum) \in 0..MaxPixel
  BY <1>3, ClipType
<1>5. QED
  BY <1>4 DEF sum

(* So do all levels.                                                        *)
LEMMA ValueType ==
    ASSUME enc \in Encodings, ImageType, NEW patches, NEW n \in 0..Finest, NEW value,
           Value(value, n, patches)
    PROVE  \A l \in 1..n : value[l] \in [PatchesAt(l) -> 0..MaxPixel]
<1> DEFINE T == {m \in Nat : m \in 1..n => value[m] \in [PatchesAt(m) -> 0..MaxPixel]}
<1>1. n \in Nat /\ n <= Finest /\ Finest \in Nat
  BY GridType
<1>2. \A l \in 1..n : value[l] = Shown(value[l - 1], l, patches)
  BY DEF Value
<1>3. 0 \in T
  OBVIOUS
<1>4. \A m \in Nat : m \in T => m + 1 \in T
  <2> SUFFICES ASSUME NEW m \in Nat, m \in T, m + 1 \in 1..n
               PROVE  value[m + 1] \in [PatchesAt(m + 1) -> 0..MaxPixel]
    OBVIOUS
  <2>1. value[m + 1] = Shown(value[m], m + 1, patches)
    <3>1. (m + 1) - 1 = m
      OBVIOUS
    <3>2. QED
      BY <1>2, <3>1
  <2>2. m + 1 # 1 => value[m] \in [PatchesAt(m) -> 0..MaxPixel]
    BY <1>1
  <2>3. m + 1 \in 1..Finest /\ (m + 1) - 1 = m
    BY <1>1
  <2>4. QED
    BY <2>1, <2>2, <2>3, ShownType
<1>5. Nat \subseteq T
  <2> HIDE DEF T
  <2>1. QED
    BY <1>3, <1>4, SetInduction
<1>6. QED
  BY <1>5

(* Levels can be added one by one.                                          *)
LEMMA ValueExists ==
    ASSUME enc \in Encodings, ImageType, NEW patches
    PROVE  \E value : Value(value, Finest, patches)
<1> DEFINE T == {n \in Nat : \E value : Value(value, n, patches)}
<1>1. 0 \in T
  <2>1. Value([l \in 1..0 |-> 0], 0, patches)
    BY DEF Value
  <2>2. QED
    BY <2>1
<1>2. \A n \in Nat : n \in T => n + 1 \in T
  <2> SUFFICES ASSUME NEW n \in Nat, NEW value, Value(value, n, patches)
               PROVE  \E longer : Value(longer, n + 1, patches)
    OBVIOUS
  <2> DEFINE longer == [l \in 1..(n + 1) |->
                          IF l = n + 1 THEN Shown(value[n], n + 1, patches) ELSE value[l]]
  <2>1. \A l \in 1..n : value[l] = Shown(value[l - 1], l, patches)
    BY DEF Value
  <2>2. ASSUME NEW l \in 1..(n + 1) PROVE longer[l] = Shown(longer[l - 1], l, patches)
    <3>1. CASE l = 1
      <4>1. \A a, b : Shown(a, 1, patches) = Shown(b, 1, patches)
        BY DEF Shown
      <4>2. CASE n = 0
        BY <3>1, <4>1, <4>2
      <4>3. CASE n # 0
        <5>1. longer[1] = value[1] /\ 1 \in 1..n
          BY <4>3
        <5>2. QED
          BY <3>1, <4>1, <5>1, <2>1
      <4>4. QED
        BY <4>2, <4>3
    <3>2. CASE l # 1 /\ l = n + 1
      <4>1. longer[l - 1] = value[n] /\ longer[l] = Shown(value[n], n + 1, patches)
        BY <3>2
      <4>2. QED
        BY <3>2, <4>1
    <3>3. CASE l # 1 /\ l # n + 1
      <4>1. l \in 1..n /\ l - 1 \in 1..n
        BY <3>3
      <4>2. longer[l] = value[l] /\ longer[l - 1] = value[l - 1]
        BY <4>1
      <4>3. QED
        BY <2>1, <4>1, <4>2
    <3>4. QED
      BY <3>1, <3>2, <3>3
  <2>3. longer = [l \in 1..(n + 1) |-> longer[l]]
    OBVIOUS
  <2> HIDE DEF longer
  <2>4. Value(longer, n + 1, patches)
    BY <2>2, <2>3 DEF Value
  <2>5. QED
    BY <2>4
<1>3. Nat \subseteq T
  <2> HIDE DEF T
  <2>1. QED
    BY <1>1, <1>2, SetInduction
<1>4. Finest \in Nat
  BY GridType
<1>5. QED
  BY <1>3, <1>4

(* Rebuilt is the last level of such a pyramid.                             *)
LEMMA RebuiltValue ==
    ASSUME enc \in Encodings, ImageType, NEW patches
    PROVE  \E value : Value(value, Finest, patches) /\ Rebuilt(patches) = value[Finest]
<1> DEFINE solution == CHOOSE value : Value(value, Finest, patches)
<1>1. Rebuilt(patches) = solution[Finest]
  BY DEF Rebuilt, Value, Shown
<1>2. Value(solution, Finest, patches)
  BY ValueExists
<1>3. QED
  BY <1>1, <1>2

(* A picture rebuilt from any patches is a picture.                         *)
LEMMA RebuiltType ==
    ASSUME enc \in Encodings, ImageType, NEW patches
    PROVE  Rebuilt(patches) \in [Cells -> 0..MaxPixel]
<1>1. PICK value : Value(value, Finest, patches) /\ Rebuilt(patches) = value[Finest]
  BY RebuiltValue
<1>2. Finest \in 0..Finest /\ Finest \in 1..Finest
  BY GridType
<1>3. value[Finest] \in [PatchesAt(Finest) -> 0..MaxPixel]
  BY <1>1, <1>2, ValueType
<1>4. QED
  BY <1>1, <1>3 DEF Cells

-----------------------------------------------------------------------------
(* What is made of the configuration and the picture stays as long as they  *)
(* do.                                                                      *)
LEMMA GridFixed ==
    ASSUME enc' = enc
    PROVE  /\ Frames' = Frames /\ Finest' = Finest
           /\ \A f, l : Height(f, l)' = Height(f, l) /\ Width(f, l)' = Width(f, l)
BY DEF Frames, Finest, Height, Width

(* The patches.                                                             *)
LEMMA PatchesFixed ==
    ASSUME enc' = enc
    PROVE  /\ \A l : PatchesAt(l)' = PatchesAt(l)
           /\ Cells' = Cells /\ Residuals' = Residuals
<1>1. \A l : PatchesAt(l)' = PatchesAt(l)
  BY GridFixed DEF PatchesAt
<1>2. QED
  BY <1>1, GridFixed DEF Cells, Residuals

(* The numbers of groups.                                                   *)
LEMMA GroupsFixed ==
    ASSUME enc' = enc
    PROVE  /\ NumGroups' = NumGroups /\ LastGroup' = LastGroup /\ CropList' = CropList
           /\ Largest' = Largest
<1>1. PixelHeight' = PixelHeight /\ PixelWidth' = PixelWidth
  BY GridFixed DEF PixelHeight, PixelWidth
<1>2. CropList' = CropList
  BY <1>1 DEF CropList
<1>3. NumGroups' = NumGroups
  BY <1>2 DEF NumGroups
<1>4. QED
  BY <1>2, <1>3 DEF LastGroup, Largest

(* The tokens.                                                              *)
LEMMA TokensFixed ==
    ASSUME enc' = enc
    PROVE  Tokens' = Tokens
<1>1. Sources' = Sources
  BY SMTT(30) DEF Sources, CropList, PixelHeight, PixelWidth, Height, Width, Finest, Frames
<1>2. QED
  BY <1>1 DEF Tokens

-----------------------------------------------------------------------------
(* The invariant.  A group that was yielded holds the patches assigned to   *)
(* it, the base those of the first level; the groups are yielded in rising  *)
(* order, the base first, and none that holds a patch has been passed over. *)
(* While groups are yielded, and when all are, every residual patch has a   *)
(* group.                                                                   *)
Ready == stage = "groups" \/ (stage = "done" /\ LastGroup # 0)

Parcel == [gid : 0..NumGroups, patches : SUBSET (PatchesAt(1) \cup Residuals), total : Nat]

Members(g) == IF g = 0 THEN PatchesAt(1) ELSE {p \in Residuals : assigned[p] = g}

Stages ==
    /\ stage = "base" => sent = << >> /\ next = 1
    /\ stage # "base" => sent # << >> /\ sent[1].gid = 0
    /\ stage = "groups" => next \in 1..NumGroups
    /\ stage = "done" /\ LastGroup # 0 => next = NumGroups + 1
    /\ Ready => /\ assigned \in [Residuals -> 0..Largest]
                /\ \A p \in Residuals : InGroup(assigned[p])

Yielded ==
    /\ sent \in Seq(Parcel)
    /\ \A k \in DOMAIN sent : sent[k].gid < next /\ sent[k].patches = Members(sent[k].gid)
    /\ \A j, k \in DOMAIN sent : j < k => sent[j].gid < sent[k].gid

NonePassed ==
    Ready => \A p \in Residuals :
               assigned[p] \in 1..(next - 1) => \E k \in DOMAIN sent : sent[k].gid = assigned[p]

IInv == TypeOK /\ Stages /\ Yielded /\ NonePassed

(* The base is never empty, so it is always yielded.                        *)
LEMMA BaseNotEmpty ==
    ASSUME enc \in Encodings
    PROVE  PatchesAt(1) # {} /\ IsFiniteSet(PatchesAt(1))
<1>1. 1 \in Frames /\ 1 \in 1..Finest /\ Height(1, 1) \in Nat \ {0} /\ Width(1, 1) \in Nat \ {0}
  BY GridType
<1>2. [frame |-> 1, level |-> 1, row |-> 0, col |-> 0] \in PatchesAt(1)
  <2>1. 0 \in Nat /\ 0 < Height(1, 1) /\ 0 < Width(1, 1)
    BY <1>1
  <2>2. QED
    BY <1>1, <2>1, PatchType
<1>3. QED
  BY <1>1, <1>2, LevelFinite

(* The base holds no residual patch.                                        *)
LEMMA BaseApart ==
    ASSUME enc \in Encodings
    PROVE  PatchesAt(1) \cap Residuals = {}
<1> SUFFICES ASSUME NEW p \in PatchesAt(1), p \in Residuals PROVE FALSE
  OBVIOUS
<1>1. p.level = 1
  BY GridType, PatchFields
<1>2. p.level \in 2..Finest /\ Finest \in Nat
  BY ResidualLevel, GridType
<1>3. QED
  BY <1>1, <1>2

(* The invariant holds at first.                                            *)
LEMMA IInvInit == Init => IInv
<1> SUFFICES ASSUME Init PROVE IInv
  OBVIOUS
<1>1. enc \in Encodings
  BY DEF Init
<1>2. NumGroups \in Nat
  BY <1>1, NumGroupsType
<1>3. image \in [Cells -> 0..MaxPixel]
  <2>1. PICK seed \in Seeds :
          image = [c \in Cells |-> (5 * SpatialIdx(c) + 3 * c.frame + seed) % (MaxPixel + 1)]
    BY DEF Init
  <2>2. ASSUME NEW c \in Cells
        PROVE  (5 * SpatialIdx(c) + 3 * c.frame + seed) % (MaxPixel + 1) \in 0..MaxPixel
    <3>1. Finest \in 1..Finest /\ c \in PatchesAt(Finest)
      BY <1>1, GridType DEF Cells
    <3>2. c.frame \in Frames /\ c.frame \in Nat
      BY <1>1, <3>1, PatchFields, GridType
    <3>3. Height(c.frame, Finest) \in Nat /\ Width(c.frame, Finest) \in Nat
      BY <1>1, <3>1, <3>2, GridType
    <3>4. SpatialIdx(c) \in Nat
      BY <1>1, <3>1, <3>3, SpatialIdxType
    <3>5. seed \in Nat /\ MaxPixel + 1 \in Nat \ {0} /\ MaxPixel \in Nat
      BY <2>1, TransmissionAssumption
    <3> DEFINE sum == 5 * SpatialIdx(c) + 3 * c.frame + seed
    <3>6. sum \in Nat
      BY <3>2, <3>4, <3>5
    <3> HIDE DEF sum
    <3>7. sum % (MaxPixel + 1) \in 0..((MaxPixel + 1) - 1)
      BY <3>5, <3>6, Division
    <3>8. QED
      BY <3>5, <3>7 DEF sum
  <2>3. QED
    BY <2>1, <2>2
<1>4. MaxPixel \in Nat
  BY TransmissionAssumption
<1>5. TypeOK
  <2>1. /\ assigned = << >> /\ stage = "base" /\ next = 1 /\ sent = << >> /\ received = 0
        /\ canvas = [c \in Cells |-> 0] /\ groupMap = [c \in Cells |-> -1]
        /\ times = [t \in Tokens |-> 0] /\ stale = {} /\ answered = FALSE
    BY DEF Init
  <2>2. /\ canvas \in [Cells -> 0..MaxPixel] /\ groupMap \in [Cells -> -1..NumGroups]
        /\ times \in [Tokens -> Nat]
    BY <1>2, <1>4, <2>1
  <2>3. received \in 0..Len(sent) /\ next \in 1..(NumGroups + 1) /\ DOMAIN sent = {}
    BY <1>2, <2>1
  <2>4. QED
    BY <1>1, <1>3, <2>1, <2>2, <2>3 DEF TypeOK
<1>6. Stages /\ Yielded /\ NonePassed
  BY DEF Stages, Yielded, NonePassed, Ready, Init
<1>7. QED
  BY <1>5, <1>6 DEF IInv

(* What a step must keep when only the encoder moves.                       *)
LEMMA EncoderFrame ==
    ASSUME IInv, UNCHANGED << enc, image, server >>,
           sent' \in Seq(Parcel), Len(sent') >= Len(sent),
           next' \in 1..(NumGroups + 1), stage' \in {"base", "groups", "done", "raised"},
           assigned' \in {<< >>} \cup [Residuals -> 0..Largest]
    PROVE  TypeOK'
<1>1. /\ enc' = enc /\ image' = image /\ received' = received /\ canvas' = canvas
      /\ groupMap' = groupMap /\ times' = times /\ stale' = stale /\ answered' = answered
  BY DEF server
<1>2. /\ Residuals' = Residuals /\ Cells' = Cells /\ PatchesAt(1)' = PatchesAt(1)
      /\ NumGroups' = NumGroups /\ Largest' = Largest /\ Tokens' = Tokens
  BY <1>1, PatchesFixed, GroupsFixed, TokensFixed
<1>3. received' \in 0..Len(sent')
  <2>1. received \in 0..Len(sent) /\ Len(sent) \in Nat /\ Len(sent') \in Nat
    BY DEF IInv, TypeOK, Yielded
  <2>2. QED
    BY <1>1, <2>1
<1>4. \A k \in DOMAIN sent' : sent'[k] \in Parcel
  OBVIOUS
<1>5. QED
  BY <1>1, <1>2, <1>3, <1>4 DEF IInv, TypeOK, Parcel, Largest

(* The base is yielded and the groups are assigned.                         *)
LEMMA EncodeBaseStep ==
    ASSUME IInv, EncodeBase
    PROVE  IInv'
<1>1. /\ enc \in Encodings /\ stage = "base" /\ sent = << >> /\ next = 1
  BY DEF IInv, TypeOK, Stages, EncodeBase
<1>2. NumGroups \in Nat /\ (LastGroup # 0 => NumGroups # 0)
  BY <1>1, NumGroupsType
<1>3. /\ enc' = enc /\ image' = image /\ next' = 1 /\ UNCHANGED server
  BY <1>1 DEF EncodeBase
<1>4. /\ sent' \in Seq(Parcel) /\ Len(sent') = 1 /\ DOMAIN sent' = {1}
      /\ sent'[1].gid = 0 /\ sent'[1].patches = PatchesAt(1)
  <2>1. PatchesAt(1) # {} /\ IsFiniteSet(PatchesAt(1))
    BY <1>1, BaseNotEmpty
  <2>2. sent' = Append(sent, Group(0, PatchesAt(1)))
    BY <2>1 DEF EncodeBase, Yield
  <2>3. 0 \in 0..NumGroups
    BY <1>2
  <2>4. Group(0, PatchesAt(1)) \in Parcel
    BY <2>1, <2>3, FS_CardinalityType DEF Group, Parcel
  <2>5. sent' = << Group(0, PatchesAt(1)) >>
    BY <1>1, <2>2
  <2>6. QED
    BY <2>4, <2>5 DEF Group
<1>5. stage' \in {"groups", "done", "raised"}
  BY DEF EncodeBase
<1>6. ASSUME stage' = "groups"
      PROVE  /\ NumGroups # 0
             /\ assigned' \in [Residuals -> 0..Largest]
             /\ \A p \in Residuals : InGroup(assigned'[p])
  <2>1. NumGroups # 0 /\ ~Raises /\ assigned' \in Assignments
    BY <1>6 DEF EncodeBase
  <2>2. enc.policy # "ADE20KWindow"
    BY <2>1 DEF Raises
  <2>3. QED
    BY <1>1, <2>1, <2>2, AssignmentsRange
<1>7. stage' # "groups" => assigned' = << >>
  BY DEF EncodeBase
<1>8. stage' = "done" => LastGroup = 0
  <2>1. stage' = "done" => enc.baseOnly \/ NumGroups = 0
    BY DEF EncodeBase
  <2>2. enc.baseOnly => LastGroup = 0
    BY DEF LastGroup
  <2>3. QED
    BY <1>2, <2>1, <2>2
<1>9. /\ Residuals' = Residuals /\ PatchesAt(1)' = PatchesAt(1)
      /\ NumGroups' = NumGroups /\ LastGroup' = LastGroup /\ Largest' = Largest /\ CropList' = CropList
  BY <1>3, PatchesFixed, GroupsFixed
<1>10. TypeOK'
  <2>1. 1 \in 1..(NumGroups + 1) /\ Len(sent') >= Len(sent)
    BY <1>1, <1>2, <1>4
  <2>2. assigned' \in {<< >>} \cup [Residuals -> 0..Largest]
    BY <1>6, <1>7
  <2>3. QED
    BY <1>3, <1>4, <1>5, <2>1, <2>2, EncoderFrame
<1>11. Stages'
  <2>1. stage' = "groups" => 1 \in 1..NumGroups
    BY <1>2, <1>6
  <2>2. sent' # << >>
    BY <1>4
  <2>3. Ready' => /\ assigned' \in [Residuals -> 0..Largest]
                 /\ \A p \in Residuals : InGroup(assigned'[p])
    BY <1>5, <1>6, <1>8, <1>9 DEF Ready
  <2>4. \A p \in Residuals : InGroup(assigned[p])' <=> InGroup(assigned'[p])
    BY <1>3, <1>9 DEF InGroup, Drops, ByCrop
  <2>5. QED
    BY <1>3, <1>4, <1>5, <1>8, <1>9, <2>1, <2>2, <2>3, <2>4 DEF Stages
<1>12. Yielded'
  <2>1. Parcel' = Parcel
    BY <1>9 DEF Parcel
  <2>2. \A k \in DOMAIN sent' : sent'[k].gid < next' /\ sent'[k].patches = Members(sent[k].gid)'
    BY <1>3, <1>4, <1>9 DEF Members
  <2>3. \A j, k \in DOMAIN sent' : ~(j < k)
    BY <1>4
  <2>4. QED
    BY <1>4, <2>1, <2>2, <2>3 DEF Yielded
<1>13. NonePassed'
  BY <1>3 DEF NonePassed
<1>14. QED
  BY <1>10, <1>11, <1>12, <1>13 DEF IInv

(* A group is yielded, or passed over because it is empty.                  *)
LEMMA EncodeGroupStep ==
    ASSUME IInv, EncodeGroup
    PROVE  IInv'
<1> DEFINE members == {p \in Residuals : assigned[p] = next}
<1>1. /\ enc \in Encodings /\ stage = "groups" /\ next \in 1..NumGroups
      /\ sent # << >> /\ sent[1].gid = 0 /\ sent \in Seq(Parcel)
      /\ assigned \in [Residuals -> 0..Largest]
      /\ \A p \in Residuals : InGroup(assigned[p])
  BY DEF IInv, TypeOK, Stages, Yielded, EncodeGroup, Ready
<1>2. NumGroups \in Nat /\ next \in Nat \ {0}
  BY <1>1, NumGroupsType
<1>3. /\ enc' = enc /\ image' = image /\ assigned' = assigned /\ UNCHANGED server
      /\ next' = next + 1
      /\ stage' = IF next = NumGroups THEN "done" ELSE "groups"
  BY DEF EncodeGroup
<1>4. /\ Residuals' = Residuals /\ PatchesAt(1)' = PatchesAt(1)
      /\ NumGroups' = NumGroups /\ LastGroup' = LastGroup /\ Largest' = Largest /\ CropList' = CropList
  BY <1>3, PatchesFixed, GroupsFixed
<1>5. members = Members(next) /\ members \subseteq Residuals /\ IsFiniteSet(members)
  <2>1. members \in SUBSET Residuals
    OBVIOUS
  <2>2. members = Members(next)
    BY <1>2 DEF Members
  <2>3. QED
    BY <1>1, <2>1, <2>2, ResidualsFinite, FS_Subset
<1>6. sent' = IF members = {} THEN sent ELSE Append(sent, Group(next, members))
  BY DEF EncodeGroup, Yield
<1> HIDE DEF members
<1>7. sent' \in Seq(Parcel) /\ Len(sent') >= Len(sent) /\ sent' # << >>
  <2>1. CASE members = {}
    BY <1>1, <1>6, <2>1
  <2>2. CASE members # {}
    <3>1. next \in 0..NumGroups
      BY <1>1, <1>2
    <3>2. Group(next, members) \in Parcel
      BY <1>5, <3>1, FS_CardinalityType DEF Group, Parcel
    <3>3. QED
      BY <1>1, <1>6, <2>2, <3>2
  <2>3. QED
    BY <2>1, <2>2
<1> DEFINE last == Len(sent) + 1
<1>8. /\ \A k \in DOMAIN sent' : k \in DOMAIN sent \/ (members # {} /\ k = last)
      /\ \A k \in DOMAIN sent : k \in DOMAIN sent' /\ k \in Nat /\ k < last /\ sent'[k] = sent[k]
      /\ members # {} => last \in DOMAIN sent' /\ sent'[last] = Group(next, members)
      /\ 1 \in DOMAIN sent
  <2>1. CASE members = {}
    BY <1>1, <1>6, <2>1
  <2>2. CASE members # {}
    BY <1>1, <1>6, <2>2
  <2>3. QED
    BY <2>1, <2>2
<1>9. last \in Nat
  BY <1>1
<1> HIDE DEF last
<1>10. TypeOK'
  <2>1. next' \in 1..(NumGroups + 1)
    BY <1>1, <1>2, <1>3
  <2>2. stage' \in {"base", "groups", "done", "raised"}
    BY <1>3
  <2>3. QED
    BY <1>1, <1>3, <1>7, <2>1, <2>2, EncoderFrame
<1>11. Stages'
  <2>1. sent' # << >> /\ sent'[1].gid = 0
    BY <1>1, <1>7, <1>8
  <2>2. stage' = "groups" => next' \in 1..NumGroups
    BY <1>1, <1>2, <1>3
  <2>3. stage' = "done" => next' = NumGroups + 1
    BY <1>3
  <2>4. stage' # "base"
    BY <1>3
  <2>5. \A p \in Residuals : InGroup(assigned[p])'
    BY <1>1, <1>3, <1>4 DEF InGroup, Drops, ByCrop
  <2>6. QED
    BY <1>1, <1>3, <1>4, <2>1, <2>2, <2>3, <2>4, <2>5 DEF Stages
<1>12. Yielded'
  <2>1. Parcel' = Parcel
    BY <1>4 DEF Parcel
  <2>2. /\ \A k \in DOMAIN sent : /\ sent[k].gid < next /\ sent[k].gid \in Nat
                                 /\ sent[k].patches = Members(sent[k].gid)
        /\ \A j, k \in DOMAIN sent : j < k => sent[j].gid < sent[k].gid
    BY DEF IInv, TypeOK, Yielded
  <2>3. ASSUME NEW k \in DOMAIN sent'
        PROVE  sent'[k].gid < next' /\ sent'[k].patches = Members(sent[k].gid)'
    <3>1. CASE k \in DOMAIN sent
      <4>1. sent'[k] = sent[k]
        BY <1>8, <3>1
      <4>2. Members(sent[k].gid)' = Members(sent[k].gid)
        BY <1>3, <1>4, <4>1 DEF Members
      <4>3. sent[k].gid < next'
        BY <1>2, <1>3, <2>2, <3>1
      <4>4. QED
        BY <2>2, <3>1, <4>1, <4>2, <4>3
    <3>2. CASE members # {} /\ k = last
      <4>1. sent'[k].gid = next /\ sent'[k].patches = Members(next)
        BY <1>5, <1>8, <3>2 DEF Group
      <4>2. QED
        BY <1>2, <1>3, <1>4, <4>1 DEF Members
    <3>3. QED
      BY <1>8, <3>1, <3>2
  <2>4. ASSUME NEW j \in DOMAIN sent', NEW k \in DOMAIN sent', j < k
        PROVE  sent'[j].gid < sent'[k].gid
    <3>1. j \in DOMAIN sent
      BY <1>8, <1>9, <2>4
    <3>2. CASE k \in DOMAIN sent
      BY <1>8, <2>2, <2>4, <3>1, <3>2
    <3>3. CASE members # {} /\ k = last
      <4>1. sent'[k].gid = next
        BY <1>8, <3>3 DEF Group
      <4>2. QED
        BY <1>8, <2>2, <3>1, <4>1
    <3>4. QED
      BY <1>8, <3>2, <3>3
  <2>5. QED
    BY <1>7, <2>1, <2>3, <2>4 DEF Yielded
<1>13. NonePassed'
  <2> SUFFICES ASSUME NEW p \in Residuals, assigned[p] \in 1..next
               PROVE  \E k \in DOMAIN sent' : sent'[k].gid = assigned[p]
    BY <1>2, <1>3, <1>4 DEF NonePassed
  <2>1. CASE assigned[p] = next
    <3>1. members # {}
      BY <2>1 DEF members
    <3>2. QED
      BY <1>8, <2>1, <3>1 DEF Group
  <2>2. CASE assigned[p] # next
    <3>1. assigned[p] \in 1..(next - 1)
      BY <1>2, <2>2
    <3>2. PICK k \in DOMAIN sent : sent[k].gid = assigned[p]
      BY <1>1, <3>1 DEF IInv, NonePassed, Ready
    <3>3. QED
      BY <1>8, <3>2
  <2>3. QED
    BY <2>1, <2>2
<1>14. QED
  BY <1>10, <1>11, <1>12, <1>13 DEF IInv

(* What a residual patch that is decoded in place adds is a whole number.   *)
LEMMA DecodeType ==
    ASSUME IInv, received < Len(sent)
    PROVE  Decode(sent[received + 1]) \in [Cells -> 0..MaxPixel]
<1> DEFINE group == sent[received + 1]
<1>1. enc \in Encodings /\ ImageType /\ canvas \in [Cells -> 0..MaxPixel]
  BY DEF IInv, TypeOK, ImageType
<1>2. group.patches = Members(group.gid)
  <2>1. received + 1 \in DOMAIN sent
    BY DEF IInv, TypeOK, Yielded
  <2>2. QED
    BY <2>1 DEF IInv, Yielded
<1> HIDE DEF group
<1>3. \A P : Rebuilt(P) \in [Cells -> 0..MaxPixel]
  BY <1>1, RebuiltType
<1>4. ASSUME group.gid # 0, NEW c \in Cells
      PROVE  (IF c \in group.patches THEN Clip(canvas[c] + Residual(c)) ELSE canvas[c]) \in 0..MaxPixel
  <2>1. CASE c \in group.patches
    <3>1. c \in Residuals
      BY <1>2, <1>4, <2>1 DEF Members
    <3>2. c.level \in 2..Finest /\ c \in PatchesAt(c.level)
      BY <1>1, <3>1, ResidualLevel
    <3>3. Residual(c) \in Int
      BY <1>1, <3>2, ResidualType
    <3>4. canvas[c] \in Int
      BY <1>1, TransmissionAssumption
    <3>5. Clip(canvas[c] + Residual(c)) \in 0..MaxPixel
      BY <3>3, <3>4, ClipType
    <3>6. QED
      BY <2>1, <3>5
  <2>2. CASE c \notin group.patches
    BY <1>1, <2>2
  <2>3. QED
    BY <2>1, <2>2
<1>5. CASE InPlace /\ group.gid # 0 /\ (enc.policy = "NYUProgressive" => Finest = 2)
  <2>1. Decode(group) =
          [c \in Cells |-> IF c \in group.patches THEN Clip(canvas[c] + Residual(c)) ELSE canvas[c]]
    BY <1>5 DEF Decode
  <2>2. QED
    BY <1>4, <1>5, <2>1 DEF group
<1>6. CASE ~(InPlace /\ group.gid # 0 /\ (enc.policy = "NYUProgressive" => Finest = 2))
  <2>1. \E P : Decode(group) = Rebuilt(P)
    BY <1>6 DEF Decode
  <2>2. QED
    BY <1>3, <2>1 DEF group
<1>7. QED
  BY <1>5, <1>6

(* What a group corrects are tokens.                                        *)
LEMMA CorrectedType ==
    ASSUME enc \in Encodings, NEW group, NEW map
    PROVE  Corrected(group, map) \subseteq Tokens
<1>1. enc.server \in {"payload", "tokens", "crops", "windows", "marks", "ungrouped"}
  BY TransmissionAssumption
<1>2. QED
  BY <1>1 DEF Corrected

(* The server takes a group.                                                *)
LEMMA ServeStep ==
    ASSUME IInv, Serve
    PROVE  IInv'
<1> DEFINE group == sent[received + 1]
           map == Written(groupMap, group)
           tokens == IF group.gid = 0 THEN {} ELSE Corrected(group, map)
<1>1. /\ enc \in Encodings /\ received \in 0..Len(sent) /\ received < Len(sent)
      /\ DOMAIN sent = 1..Len(sent) /\ Len(sent) \in Nat
      /\ groupMap \in [Cells -> -1..NumGroups] /\ times \in [Tokens -> Nat]
      /\ stale \subseteq Tokens
  BY DEF IInv, TypeOK, Yielded, Serve
<1>2. /\ enc' = enc /\ image' = image /\ assigned' = assigned /\ stage' = stage
      /\ next' = next /\ sent' = sent
      /\ received' = received + 1
      /\ canvas' = Decode(group)
      /\ groupMap' = map
      /\ times' = [t \in Tokens |-> IF t \in tokens THEN times[t] + 1 ELSE times[t]]
      /\ stale' = (stale \ tokens) \cup {t \in tokens : \E c \in Under(t) : canvas'[c] # image[c]}
      /\ answered' = (group.gid = LastGroup)
  BY DEF Serve
<1>3. group.gid \in 0..NumGroups
  BY <1>1 DEF IInv, TypeOK
<1>4. /\ Residuals' = Residuals /\ Cells' = Cells /\ PatchesAt(1)' = PatchesAt(1)
      /\ NumGroups' = NumGroups /\ LastGroup' = LastGroup /\ Largest' = Largest /\ CropList' = CropList /\ Tokens' = Tokens
  BY <1>2, PatchesFixed, GroupsFixed, TokensFixed
<1>5. canvas' \in [Cells -> 0..MaxPixel]
  BY <1>1, <1>2, DecodeType
<1>6. map \in [Cells -> -1..NumGroups]
  BY <1>1, <1>3, NumGroupsType DEF Written
<1>7. tokens \subseteq Tokens
  BY <1>1, CorrectedType
<1>8. received' \in 0..Len(sent')
  BY <1>1, <1>2
<1> HIDE DEF group, map, tokens
<1>9. times' \in [Tokens -> Nat] /\ stale' \subseteq Tokens /\ answered' \in BOOLEAN
  BY <1>1, <1>2, <1>7
<1>10. TypeOK'
  BY <1>2, <1>4, <1>5, <1>6, <1>8, <1>9 DEF IInv, TypeOK, Largest
<1>11. Stages'
  <2>1. \A p \in Residuals : InGroup(assigned[p])' <=> InGroup(assigned[p])
    BY <1>2, <1>4 DEF InGroup, Drops, ByCrop
  <2>2. QED
    BY <1>2, <1>4, <2>1 DEF IInv, Stages, Ready
<1>12. Yielded'
  <2>1. Parcel' = Parcel
    BY <1>4 DEF Parcel
  <2>2. \A k \in DOMAIN sent : Members(sent[k].gid)' = Members(sent[k].gid)
    BY <1>2, <1>4 DEF Members
  <2>3. QED
    BY <1>2, <2>1, <2>2 DEF IInv, Yielded
<1>13. NonePassed'
  BY <1>2, <1>4 DEF IInv, NonePassed, Ready
<1>14. QED
  BY <1>10, <1>11, <1>12, <1>13 DEF IInv

(* Nothing happens.                                                         *)
LEMMA Stutter ==
    ASSUME IInv, UNCHANGED vars
    PROVE  IInv'
<1>1. /\ enc' = enc /\ image' = image /\ assigned' = assigned /\ stage' = stage /\ next' = next
      /\ sent' = sent /\ received' = received /\ canvas' = canvas /\ groupMap' = groupMap
      /\ times' = times /\ stale' = stale /\ answered' = answered
  BY DEF vars
<1>2. /\ Residuals' = Residuals /\ Cells' = Cells /\ PatchesAt(1)' = PatchesAt(1)
      /\ NumGroups' = NumGroups /\ LastGroup' = LastGroup /\ Largest' = Largest /\ CropList' = CropList /\ Tokens' = Tokens
  BY <1>1, PatchesFixed, GroupsFixed, TokensFixed
<1>3. TypeOK'
  BY <1>1, <1>2 DEF IInv, TypeOK, Largest
<1>4. Stages'
  <2>1. \A p \in Residuals : InGroup(assigned[p])' <=> InGroup(assigned[p])
    BY <1>1, <1>2 DEF InGroup, Drops, ByCrop
  <2>2. QED
    BY <1>1, <1>2, <2>1 DEF IInv, Stages, Ready
<1>5. Yielded'
  <2>1. Parcel' = Parcel
    BY <1>2 DEF Parcel
  <2>2. \A k \in DOMAIN sent : Members(sent[k].gid)' = Members(sent[k].gid)
    BY <1>1, <1>2 DEF Members
  <2>3. QED
    BY <1>1, <2>1, <2>2 DEF IInv, Yielded
<1>6. NonePassed'
  BY <1>1, <1>2 DEF IInv, NonePassed, Ready
<1>7. QED
  BY <1>3, <1>4, <1>5, <1>6 DEF IInv

(* Every step keeps the invariant.                                          *)
LEMMA IInvNext == IInv /\ [Next]_vars => IInv'
BY EncodeBaseStep, EncodeGroupStep, ServeStep, Stutter DEF Next

(* So it always holds.                                                      *)
LEMMA Invariance == Spec => []IInv
<1>1. Init => IInv
  BY IInvInit
<1>2. IInv /\ [Next]_vars => IInv'
  BY IInvNext
<1>3. QED
  BY <1>1, <1>2, PTL DEF Spec

(* Every variable keeps its type: a group of every patch, in range whatever *)
(* the strategy, a canvas of pixels whatever has arrived.                   *)
THEOREM TransmissionTypeOK == Spec => []TypeOK
<1>1. IInv => TypeOK
  BY DEF IInv
<1>2. QED
  BY <1>1, Invariance, PTL

(* The groups the configuration gives the hybrid of DCT base and crops are  *)
(* as many as the crops of the picture.  Its encode() does not count them,  *)
(* so without this the patches of the crops beyond stay behind.             *)
CropsFit ==
    \A e \in Encodings :
        e.policy = "FourierADE20KWindow" /\ e.strategy = "crop_cover" =>
            Len(Crops(Rows(e) * e.patch, Cols(e) * e.patch, e.crop, e.stride)) <= Most(e.groups, 1)

(* The number of crops is the one of the configuration in use.              *)
LEMMA CropsFitGroups ==
    ASSUME CropsFit, enc \in Encodings, ByCrop
    PROVE  Len(CropList) <= NumGroups
<1>1. Len(CropList) <= Most(enc.groups, 1)
  BY DEF CropsFit, ByCrop, CropList, PixelHeight, PixelWidth, Height, Width, Finest, Rows, Cols
<1>2. NumGroups = Most(enc.groups, 1)
  BY TransmissionAssumption DEF ByCrop, NumGroups, Default, Windowed, Most
<1>3. QED
  BY <1>1, <1>2

(* encode(): no residual patch travels twice and, once it is through, none  *)
(* has been left behind but those a keep rate or a threshold drops.         *)
THEOREM TransmissionResidualsSentOnce ==
    ASSUME CropsFit
    PROVE  Spec => []ResidualsSentOnce
<1>1. IInv => ResidualsSentOnce
  <2> SUFFICES ASSUME IInv PROVE ResidualsSentOnce
    OBVIOUS
  <2>1. /\ enc \in Encodings /\ sent \in Seq(Parcel) /\ DOMAIN sent = 1..Len(sent) /\ Len(sent) \in Nat
        /\ \A k \in DOMAIN sent : sent[k].gid \in Nat /\ sent[k].patches = Members(sent[k].gid)
        /\ \A j, k \in DOMAIN sent : j < k => sent[j].gid < sent[k].gid
    BY DEF IInv, TypeOK, Yielded
  <2>2. ASSUME NEW g \in Nat, NEW h \in Nat, g # h
        PROVE  Members(g) \cap Members(h) = {}
    <3>1. PatchesAt(1) \cap Residuals = {}
      BY <2>1, BaseApart
    <3>2. QED
      BY <2>2, <3>1 DEF Members
  <2>3. ASSUME NEW j \in DOMAIN sent, NEW k \in DOMAIN sent, j # k
        PROVE  sent[j].patches \cap sent[k].patches = {}
    <3>1. j < k \/ k < j
      BY <2>1, <2>3
    <3>2. sent[j].gid # sent[k].gid
      BY <2>1, <3>1
    <3>3. QED
      BY <2>1, <2>2, <3>2
  <2>4. ASSUME stage = "done", LastGroup # 0, NEW p \in Residuals, Kept(p)
        PROVE  \E k \in DOMAIN sent : p \in sent[k].patches
    <3>1. InGroup(assigned[p]) /\ next = NumGroups + 1 /\ NumGroups \in Nat
      BY <2>1, <2>4, NumGroupsType DEF IInv, Stages, Ready
    <3>2. ByCrop => Len(CropList) <= NumGroups
      BY <2>1, CropsFitGroups
    <3>3. assigned[p] \in 1..(next - 1)
      BY <2>1, <2>4, <3>1, <3>2, CropListType DEF InGroup, Drops, Kept
    <3>4. PICK k \in DOMAIN sent : sent[k].gid = assigned[p]
      BY <2>4, <3>3 DEF IInv, NonePassed, Ready
    <3>5. p \in Members(assigned[p])
      BY <3>1, <3>3 DEF Members
    <3>6. QED
      BY <2>1, <3>4, <3>5
  <2>5. QED
    BY <2>3, <2>4 DEF ResidualsSentOnce
<1>2. QED
  BY <1>1, Invariance, PTL

-----------------------------------------------------------------------------
(* The levels of a pyramid are determined by the patches.                   *)
LEMMA ValueLevel ==
    ASSUME enc \in Encodings, NEW patches, NEW value, Value(value, Finest, patches),
           NEW l \in 1..Finest
    PROVE  value[l] = Shown(value[l - 1], l, patches)
BY DEF Value

(* There is one pyramid of a set of patches.                                *)
LEMMA ValueUnique ==
    ASSUME enc \in Encodings, NEW patches,
           NEW v, Value(v, Finest, patches), NEW w, Value(w, Finest, patches)
    PROVE  \A l \in 1..Finest : v[l] = w[l]
<1> DEFINE T == {m \in Nat : m \in 1..Finest => v[m] = w[m]}
<1>1. Finest \in Nat
  BY GridType
<1>2. 0 \in T
  OBVIOUS
<1>3. \A m \in Nat : m \in T => m + 1 \in T
  <2> SUFFICES ASSUME NEW m \in Nat, m \in T, m + 1 \in 1..Finest
               PROVE  v[m + 1] = w[m + 1]
    OBVIOUS
  <2>1. (m + 1) - 1 = m
    OBVIOUS
  <2>2. v[m + 1] = Shown(v[m], m + 1, patches) /\ w[m + 1] = Shown(w[m], m + 1, patches)
    BY <2>1, ValueLevel
  <2>3. CASE m = 0
    <3>1. Shown(v[m], 1, patches) = Shown(w[m], 1, patches)
      BY DEF Shown
    <3>2. QED
      BY <2>2, <2>3, <3>1
  <2>4. CASE m # 0
    <3>1. v[m] = w[m]
      BY <1>1, <2>4
    <3>2. QED
      BY <2>2, <3>1
  <2>5. QED
    BY <2>3, <2>4
<1>4. Nat \subseteq T
  <2> HIDE DEF T
  <2>1. QED
    BY <1>2, <1>3, SetInduction
<1>5. QED
  BY <1>4

(* Rebuilt is the last level of it.                                         *)
LEMMA RebuiltUnique ==
    ASSUME enc \in Encodings, ImageType, NEW patches, NEW value, Value(value, Finest, patches)
    PROVE  Rebuilt(patches) = value[Finest]
<1>1. PICK other : Value(other, Finest, patches) /\ Rebuilt(patches) = other[Finest]
  BY RebuiltValue
<1>2. Finest \in 1..Finest
  BY GridType
<1>3. QED
  BY <1>1, <1>2, ValueUnique

(* Without a patch every level is black.                                    *)
LEMMA NothingShown ==
    ASSUME enc \in Encodings, NEW value, Value(value, Finest, {})
    PROVE  value[Finest] = [c \in Cells |-> 0]
<1> DEFINE T == {m \in Nat : m \in 1..Finest => value[m] = [p \in PatchesAt(m) |-> 0]}
<1>1. Finest \in Nat /\ Finest \in 1..Finest /\ MaxPixel \in Nat
  BY GridType, TransmissionAssumption
<1>2. 0 \in T
  OBVIOUS
<1>3. \A m \in Nat : m \in T => m + 1 \in T
  <2> SUFFICES ASSUME NEW m \in Nat, m \in T, m + 1 \in 1..Finest
               PROVE  value[m + 1] = [p \in PatchesAt(m + 1) |-> 0]
    OBVIOUS
  <2>1. (m + 1) - 1 = m
    OBVIOUS
  <2>2. value[m + 1] = Shown(value[m], m + 1, {})
    BY <2>1, ValueLevel
  <2>3. Clip(0 + 0) = 0
    BY <1>1, ClipType, 0 + 0 = 0
  <2>4. ASSUME NEW p \in PatchesAt(m + 1)
        PROVE  (IF m + 1 = 1 THEN 0 ELSE value[m][At(p, (m + 1) - 1)]) = 0
    <3>1. CASE m = 0
      BY <3>1
    <3>2. CASE m # 0
      <4>1. m \in 1..Finest /\ value[m] = [q \in PatchesAt(m) |-> 0]
        BY <1>1, <3>2
      <4>2. At(p, m) \in PatchesAt(m)
        BY <4>1, AtType
      <4>3. QED
        BY <2>1, <4>1, <4>2
    <3>3. QED
      BY <3>1, <3>2
  <2>5. QED
    BY <2>2, <2>3, <2>4 DEF Shown
<1>4. Nat \subseteq T
  <2> HIDE DEF T
  <2>1. QED
    BY <1>2, <1>3, SetInduction
<1>5. QED
  BY <1>1, <1>4 DEF Cells

-----------------------------------------------------------------------------
(* What the patches show stays as long as configuration and picture do.     *)
LEMMA DataFixed ==
    ASSUME enc' = enc, image' = image
    PROVE  \A p : Data(p)' = Data(p)
BY GridFixed DEF Data, Target, Residual, At, Height, Width, Finest

(* A level made from patches that have arrived before the step, or after.   *)
LEMMA ShownFixed ==
    ASSUME enc' = enc, image' = image, NEW P, Arrived(received)' = P
    PROVE  \A prior, l : Shown(prior, l, Arrived(received))' = Shown(prior, l, P)
<1>1. \A l : PatchesAt(l)' = PatchesAt(l)
  BY PatchesFixed
<1>2. \A p : Data(p)' = Data(p)
  BY DataFixed
<1>3. \A p, l : At(p, l)' = At(p, l)
  BY GridFixed DEF At
<1>4. QED
  BY <1>1, <1>2, <1>3 DEF Shown, Clip

(* The canvas is the last level of the pyramid of all that has arrived.     *)
Shows == \E value : Value(value, Finest, Arrived(received)) /\ canvas = value[Finest]

(* After a step the canvas shows what it is shown to show.                  *)
LEMMA ShowsStep ==
    ASSUME enc' = enc, image' = image, NEW P, Arrived(received)' = P,
           NEW value, Value(value, Finest, P), canvas' = value[Finest]
    PROVE  Shows'
<1>1. Finest' = Finest
  BY GridFixed
<1>2. \A prior, l : Shown(prior, l, Arrived(received))' = Shown(prior, l, P)
  BY ShownFixed
<1>3. Value(value, Finest, Arrived(received))'
  BY <1>1, <1>2 DEF Value
<1>4. QED
  BY <1>1, <1>3 DEF Shows

-----------------------------------------------------------------------------
(* Nothing has arrived at first, and nothing shows.                         *)
LEMMA ShowsInit ==
    ASSUME Init, IInv
    PROVE  Shows
<1>1. enc \in Encodings /\ ImageType /\ received = 0 /\ canvas = [c \in Cells |-> 0]
  BY DEF Init, IInv, TypeOK, ImageType
<1>2. PICK value : Value(value, Finest, {})
  BY <1>1, ValueExists
<1>3. Arrived(received) = {}
  <2>1. \A k : k \notin 1..received
    BY <1>1
  <2>2. QED
    BY <2>1 DEF Arrived
<1>4. canvas = value[Finest]
  BY <1>1, <1>2, NothingShown
<1>5. QED
  BY <1>2, <1>3, <1>4 DEF Shows

(* The encoder only adds to what was yielded.                               *)
LEMMA ShowsEncode ==
    ASSUME Shows, UNCHANGED << enc, image, received, canvas >>,
           \A k \in 1..received : sent'[k] = sent[k]
    PROVE  Shows'
<1>1. PICK value : Value(value, Finest, Arrived(received)) /\ canvas = value[Finest]
  BY DEF Shows
<1>2. Arrived(received)' = Arrived(received)
  BY DEF Arrived
<1>3. QED
  BY <1>1, <1>2, ShowsStep

(* The picture of all that has arrived, made anew.                          *)
LEMMA ShowsRebuilt ==
    ASSUME enc \in Encodings, ImageType, enc' = enc, image' = image,
           NEW P, Arrived(received)' = P, canvas' = Rebuilt(P)
    PROVE  Shows'
<1>1. PICK value : Value(value, Finest, P) /\ Rebuilt(P) = value[Finest]
  BY RebuiltValue
<1>2. QED
  BY <1>1, ShowsStep

(* A picture that patches make, and one with the residuals of G added.      *)
Depicts(patches, picture) == \E w : Value(w, Finest, patches) /\ picture = w[Finest]
AddedTo(picture, G, more) ==
    \A c \in Cells : more[c] = IF c \in G THEN Clip(picture[c] + Residual(c)) ELSE picture[c]

(* Residuals of the last of two levels, added to a picture they are not     *)
(* part of: the pyramid of all patches together.                            *)
LEMMA AddedInPlace ==
    ASSUME enc \in Encodings, ImageType, Finest = 2,
           NEW P, NEW G \in SUBSET Cells, P \cap G = {},
           NEW value, Value(value, Finest, P), NEW more \in [Cells -> 0..MaxPixel],
           AddedTo(value[2], G, more)
    PROVE  Depicts(P \cup G, more)
<1> DEFINE w == [l \in 1..Finest |-> IF l = 2 THEN more ELSE value[1]]
<1>1. 1 \in 1..Finest /\ 2 \in 1..Finest /\ Cells = PatchesAt(2) /\ 2 - 1 = 1
  BY DEF Cells
<1>2. value[1] = Shown(value[0], 1, P) /\ value[2] = Shown(value[1], 2, P)
  <2>1. \A l \in 1..Finest : value[l] = Shown(value[l - 1], l, P)
    BY ValueLevel
  <2>2. 1 - 1 = 0
    OBVIOUS
  <2>3. QED
    BY <1>1, <2>1, <2>2
<1>3. value[1] \in [PatchesAt(1) -> 0..MaxPixel]
  <2>1. Finest \in 0..Finest
    BY GridType
  <2>2. QED
    BY <1>1, <2>1, ValueType
<1>4. value[1] = Shown(w[0], 1, P \cup G)
  <2>1. ASSUME NEW p \in PatchesAt(1) PROVE p \in P \cup G <=> p \in P
    <3>1. p \notin Cells
      BY <1>1, LevelsApart
    <3>2. QED
      BY <3>1
  <2> HIDE DEF w
  <2>2. QED
    BY <1>2, <2>1 DEF Shown
<1>5. more = Shown(value[1], 2, P \cup G)
  <2>1. ASSUME NEW c \in Cells
        PROVE  more[c] = Clip(value[1][At(c, 1)] + IF c \in P \cup G THEN Data(c) ELSE 0)
    <3> DEFINE below == value[1][At(c, 1)]
    <3>1. below \in 0..MaxPixel /\ below \in Int
      BY <1>1, <1>3, AtType, TransmissionAssumption
    <3>2. value[2][c] = Clip(below + IF c \in P THEN Data(c) ELSE 0)
      BY <1>1, <1>2 DEF Shown
    <3>3. Data(c) = Residual(c)
      <4>1. c.level = 2
        BY <1>1, PatchFields
      <4>2. QED
        BY <4>1 DEF Data
    <3> HIDE DEF below
    <3>4. CASE c \in G
      <4>1. c \notin P
        BY <3>4
      <4>2. value[2][c] = Clip(below + 0)
        BY <3>2, <4>1
      <4>3. below + 0 = below
        BY <3>1
      <4>4. value[2][c] = below
        BY <3>1, <4>2, <4>3, ClipType
      <4>5. QED
        BY <3>3, <3>4, <4>4 DEF below, AddedTo
    <3>5. CASE c \notin G
      BY <3>2, <3>5 DEF below, AddedTo
    <3>6. QED
      BY <3>4, <3>5
  <2>2. more = [c \in Cells |-> more[c]]
    OBVIOUS
  <2>3. QED
    BY <1>1, <2>1, <2>2 DEF Shown
<1>6. ASSUME NEW l \in 1..Finest PROVE w[l] = Shown(w[l - 1], l, P \cup G)
  <2>1. CASE l = 1
    <3>1. w[1] = value[1] /\ l - 1 = 0
      BY <1>1, <2>1
    <3>2. QED
      BY <1>4, <2>1, <3>1
  <2>2. CASE l = 2
    <3>1. w[1] = value[1] /\ w[2] = more /\ l - 1 = 1
      BY <1>1, <2>2
    <3>2. QED
      BY <1>5, <2>2, <3>1
  <2>3. QED
    BY <2>1, <2>2
<1>7. w = [l \in 1..Finest |-> w[l]] /\ w[Finest] = more
  BY <1>1
<1> HIDE DEF w
<1>8. Value(w, Finest, P \cup G)
  BY <1>6, <1>7 DEF Value
<1>9. QED
  BY <1>7, <1>8 DEF Depicts

(* Decoding in place is for the last of two levels: the residuals of the    *)
(* detector's windows have no other, and NYU's decode() that is configured  *)
(* with another number of levels decodes the payload alone.                 *)
TwoLevels == \A e \in Encodings : e.policy \in {"COCOWindow", "NYUProgressive"} => Len(e.grids[1]) = 2

(* The parts of what has arrived after one group more.                      *)
LEMMA ArrivedMore ==
    ASSUME received \in Nat
    PROVE  Arrived(received + 1) = Arrived(received) \cup sent[received + 1].patches
<1>1. \A k : k \in 1..(received + 1) <=> k \in 1..received \/ k = received + 1
  OBVIOUS
<1>2. QED
  BY <1>1 DEF Arrived

(* The base comes first and no other group is numbered 0; no patch comes    *)
(* twice.                                                                   *)
LEMMA GroupsApart ==
    ASSUME IInv, received < Len(sent)
    PROVE  /\ sent[received + 1].gid = 0 => received = 0
           /\ Arrived(received) \cap sent[received + 1].patches = {}
           /\ sent[received + 1].gid # 0 => sent[received + 1].patches \subseteq Residuals
<1> DEFINE n == received + 1
<1>1. /\ enc \in Encodings /\ received \in Nat /\ n \in DOMAIN sent
      /\ \A k \in 1..received : k \in DOMAIN sent /\ k < n
      /\ \A k \in DOMAIN sent : sent[k].gid \in Nat /\ sent[k].patches = Members(sent[k].gid)
      /\ \A j, k \in DOMAIN sent : j < k => sent[j].gid < sent[k].gid
  BY DEF IInv, TypeOK, Yielded
<1> HIDE DEF n
<1>2. sent[n].gid = 0 => received = 0
  <2> SUFFICES ASSUME sent[n].gid = 0, received # 0 PROVE FALSE
    OBVIOUS
  <2>1. 1 \in 1..received
    BY <1>1
  <2>2. sent[1].gid < sent[n].gid /\ sent[1].gid \in Nat
    BY <1>1, <2>1
  <2>3. QED
    BY <2>2
<1>3. ASSUME NEW k \in 1..received PROVE sent[k].patches \cap sent[n].patches = {}
  <2>1. sent[k].gid < sent[n].gid /\ sent[k].gid \in Nat /\ sent[n].gid \in Nat
    BY <1>1
  <2>2. PatchesAt(1) \cap Residuals = {}
    BY <1>1, BaseApart
  <2>3. sent[k].patches = Members(sent[k].gid) /\ sent[n].patches = Members(sent[n].gid)
    BY <1>1
  <2>4. QED
    BY <2>1, <2>2, <2>3 DEF Members
<1>4. Arrived(received) \cap sent[n].patches = {}
  BY <1>3 DEF Arrived
<1>5. sent[n].gid # 0 => sent[n].patches \subseteq Residuals
  BY <1>1 DEF Members
<1>6. QED
  BY <1>2, <1>4, <1>5 DEF n

(* Serve: the three cases of decode().                                      *)
LEMMA ShowsServe ==
    ASSUME TwoLevels, IInv, Shows, Serve
    PROVE  Shows'
<1> DEFINE group == sent[received + 1]
           P == Arrived(received + 1)
<1>1. /\ enc \in Encodings /\ ImageType /\ received \in Nat /\ received < Len(sent)
      /\ canvas \in [Cells -> 0..MaxPixel]
  BY DEF IInv, TypeOK, Yielded, ImageType, Serve
<1>2. /\ enc' = enc /\ image' = image /\ sent' = sent /\ received' = received + 1
      /\ canvas' = Decode(group)
  BY DEF Serve
<1>3. Arrived(received)' = P
  BY <1>2 DEF Arrived
<1>4. CASE InPlace /\ group.gid # 0
  <2>1. Finest = 2
    BY <1>1, <1>4 DEF TwoLevels, InPlace, Finest
  <2>2. PICK value : Value(value, Finest, Arrived(received)) /\ canvas = value[Finest]
    BY DEF Shows
  <2>3. canvas' = [c \in Cells |-> IF c \in group.patches THEN Clip(value[2][c] + Residual(c))
                                   ELSE value[2][c]]
    BY <1>2, <1>4, <2>1, <2>2 DEF Decode
  <2>4. group.patches \in SUBSET Cells
    <3>1. group.patches \subseteq Residuals
      BY <1>1, <1>4, GroupsApart
    <3>2. \A p \in Residuals : p \in Cells
      <4>1. \A p \in Residuals : p.level = 2 /\ p \in PatchesAt(p.level)
        BY <1>1, <2>1, ResidualLevel
      <4>2. QED
        BY <2>1, <4>1 DEF Cells
    <3>3. QED
      BY <3>1, <3>2
  <2>5. Arrived(received) \cap group.patches = {}
    BY <1>1, GroupsApart
  <2>6. P = Arrived(received) \cup group.patches
    BY <1>1, ArrivedMore
  <2> HIDE DEF group, P
  <2>7. ASSUME NEW Q, Q = Arrived(received), NEW G \in SUBSET Cells, G = group.patches,
               NEW more \in [Cells -> 0..MaxPixel], more = canvas'
        PROVE  Depicts(Q \cup G, more)
    <3>1. AddedTo(value[2], G, more)
      BY <2>3, <2>7 DEF AddedTo
    <3>2. Value(value, Finest, Q) /\ Q \cap G = {}
      BY <2>2, <2>5, <2>7
    <3>3. QED
      BY <1>1, <2>1, <3>1, <3>2, AddedInPlace
  <2>8. PICK w : Value(w, Finest, P) /\ canvas' = w[Finest]
    <3>1. canvas' \in [Cells -> 0..MaxPixel]
      BY <1>1, <1>2, DecodeType DEF group
    <3>2. QED
      BY <2>4, <2>6, <2>7, <3>1 DEF Depicts
  <2>9. QED
    BY <1>2, <1>3, <2>8, ShowsStep
<1>5. CASE ~(InPlace /\ group.gid # 0)
  <2>1. canvas' = Rebuilt(IF InPlace THEN group.patches ELSE P)
    BY <1>2, <1>5 DEF Decode
  <2>2. InPlace => group.patches = P
    <3> SUFFICES ASSUME InPlace PROVE group.patches = P
      OBVIOUS
    <3>1. received = 0
      BY <1>1, <1>5, GroupsApart
    <3>2. Arrived(received) = {}
      BY <3>1 DEF Arrived
    <3>3. QED
      BY <1>1, <3>2, ArrivedMore
  <2> HIDE DEF group, P
  <2>3. canvas' = Rebuilt(P)
    BY <2>1, <2>2
  <2>4. QED
    BY <1>1, <1>2, <1>3, <2>3, ShowsRebuilt
<1>6. QED
  BY <1>4, <1>5

(* Every step keeps the canvas that pyramid.                                *)
LEMMA ShowsNext ==
    ASSUME TwoLevels, IInv, Shows, [Next]_vars
    PROVE  Shows'
<1>1. /\ received \in 0..Len(sent) /\ Len(sent) \in Nat /\ sent \in Seq(Parcel)
  BY DEF IInv, TypeOK, Yielded
<1>2. ASSUME NEW g, NEW patches, Yield(g, patches), UNCHANGED << enc, image, server >>
      PROVE  Shows'
  <2>1. \A k \in 1..received : k \in 1..Len(sent) /\ k # Len(sent) + 1
    BY <1>1
  <2>2. \A k \in 1..received : sent'[k] = sent[k]
    BY <1>1, <1>2, <2>1 DEF Yield
  <2>3. QED
    BY <1>2, <2>2, ShowsEncode DEF server
<1>3. CASE EncodeBase
  <2>1. Yield(0, PatchesAt(1)) /\ UNCHANGED << enc, image, server >>
    BY <1>3 DEF EncodeBase
  <2>2. QED
    BY <1>2, <2>1
<1>4. CASE EncodeGroup
  <2>1. Yield(next, {p \in Residuals : assigned[p] = next}) /\ UNCHANGED << enc, image, server >>
    BY <1>4 DEF EncodeGroup
  <2>2. QED
    BY <1>2, <2>1
<1>5. CASE Serve
  BY <1>5, ShowsServe
<1>6. CASE UNCHANGED vars
  <2>1. UNCHANGED << enc, image, received, canvas, sent >>
    BY <1>6 DEF vars
  <2>2. QED
    BY <2>1, ShowsEncode
<1>7. QED
  BY <1>3, <1>4, <1>5, <1>6 DEF Next

(* And so does every behaviour.                                             *)
LEMMA CanvasInvariance ==
    ASSUME TwoLevels
    PROVE  Spec => [](IInv /\ Shows)
<1>1. Init => IInv /\ Shows
  BY IInvInit, ShowsInit
<1>2. (IInv /\ Shows) /\ [Next]_vars => (IInv /\ Shows)'
  BY IInvNext, ShowsNext
<1>3. QED
  BY <1>1, <1>2, PTL DEF Spec

(* decode(): the canvas is what rebuilding the picture from all patches     *)
(* that have arrived would give, whether the policy does that or adds the   *)
(* residuals of the group in place.                                         *)
THEOREM TransmissionCanvasRebuilt ==
    ASSUME TwoLevels
    PROVE  Spec => []CanvasRebuilt
<1>1. IInv /\ Shows => CanvasRebuilt
  <2> SUFFICES ASSUME IInv, Shows PROVE CanvasRebuilt
    OBVIOUS
  <2>1. enc \in Encodings /\ ImageType
    BY DEF IInv, TypeOK, ImageType
  <2>2. PICK value : Value(value, Finest, Arrived(received)) /\ canvas = value[Finest]
    BY DEF Shows
  <2>3. Rebuilt(Arrived(received)) = value[Finest]
    BY <2>1, <2>2, RebuiltUnique
  <2>4. QED
    BY <2>2, <2>3 DEF CanvasRebuilt
<1>2. QED
  BY <1>1, CanvasInvariance, PTL

-----------------------------------------------------------------------------
(* Each level of a pyramid divides the one below it, so that the patch      *)
(* above the patch above is the patch two levels above.  Of two levels      *)
(* nothing is asked.                                                        *)
Nested ==
    \A e \in Encodings : \A f \in DOMAIN e.grids : \A l \in 2..(Len(e.grids[1]) - 1) :
        /\ Multiple(e.grids[f][l][1], e.grids[f][l - 1][1])
        /\ Multiple(e.grids[f][l][2], e.grids[f][l - 1][2])

(* The place above a place above a cell is a place above the cell.          *)
LEMMA AtNested ==
    ASSUME Nested, enc \in Encodings, NEW c \in Cells, NEW l \in 2..Finest
    PROVE  At(At(c, l), l - 1) = At(c, l - 1)
<1>1. /\ Finest \in Nat /\ Finest \in 1..Finest /\ l \in 1..Finest /\ l - 1 \in 1..Finest
      /\ c \in PatchesAt(Finest)
  BY GridType DEF Cells
<1>2. CASE l = Finest
  BY <1>1, <1>2, AtOwnLevel
<1>3. CASE l # Finest
  <2> DEFINE f == c.frame
  <2>1. f \in Frames /\ c.level = Finest /\ c.row \in Nat /\ c.col \in Nat
    <3>1. f \in Frames /\ c.level = Finest
      BY <1>1, PatchFields
    <3>2. Height(f, Finest) \in Nat /\ Width(f, Finest) \in Nat
      BY <1>1, <3>1, GridType
    <3>3. QED
      BY <1>1, <3>1, <3>2, PatchFields
  <2>2. Multiple(Height(f, l), Height(f, l - 1))
    <3>1. l \in 2..(Len(enc.grids[1]) - 1)
      BY <1>1, <1>3 DEF Finest
    <3>2. QED
      BY <2>1, <3>1 DEF Nested, Frames, Height
  <2>3. Multiple(Width(f, l), Width(f, l - 1))
    <3>1. l \in 2..(Len(enc.grids[1]) - 1)
      BY <1>1, <1>3 DEF Finest
    <3>2. QED
      BY <2>1, <3>1 DEF Nested, Frames, Width
  <2>4. /\ Height(f, Finest) \in Nat \ {0} /\ Width(f, Finest) \in Nat \ {0}
        /\ Height(f, l - 1) \in Nat \ {0} /\ Width(f, l - 1) \in Nat \ {0}
    BY <1>1, <2>1, GridType
  <2> DEFINE row(m) == (c.row * Height(f, m)) \div Height(f, Finest)
             col(m) == (c.col * Width(f, m)) \div Width(f, Finest)
  <2>5. ASSUME NEW m \in 1..Finest
        PROVE  At(c, m) = [frame |-> f, level |-> m, row |-> row(m), col |-> col(m)]
    <3>1. c = [frame |-> f, level |-> Finest, row |-> c.row, col |-> c.col]
      BY <1>1, PatchFields
    <3> DEFINE down == row(m)
               across == col(m)
    <3>2. At(c, m) = [[[c EXCEPT !.level = m] EXCEPT !.row = down] EXCEPT !.col = across]
      BY <2>1, <3>1 DEF At
    <3> HIDE DEF down, across, row, col
    <3>3. At(c, m) = [frame |-> f, level |-> m, row |-> down, col |-> across]
      BY <3>1, <3>2
    <3>4. QED
      BY <3>3 DEF down, across
  <2> DEFINE p == At(c, l)
  <2>6. p = [frame |-> f, level |-> l, row |-> row(l), col |-> col(l)]
    BY <1>1, <2>5
  <2>7. At(p, l - 1) = [frame |-> f, level |-> l - 1,
                        row |-> (row(l) * Height(f, l - 1)) \div Height(f, l),
                        col |-> (col(l) * Width(f, l - 1)) \div Width(f, l)]
    <3> HIDE DEF row, col, f, p
    <3>1. p.frame = f /\ p.level = l /\ p.row = row(l) /\ p.col = col(l)
      BY <2>6
    <3> DEFINE upRow == (row(l) * Height(f, l - 1)) \div Height(f, l)
               upCol == (col(l) * Width(f, l - 1)) \div Width(f, l)
    <3>2. At(p, l - 1) = [[[p EXCEPT !.level = l - 1] EXCEPT !.row = upRow] EXCEPT !.col = upCol]
      BY <2>6, <3>1 DEF At
    <3> HIDE DEF upRow, upCol
    <3>3. At(p, l - 1) = [frame |-> f, level |-> l - 1, row |-> upRow, col |-> upCol]
      BY <2>6, <3>2
    <3>4. QED
      BY <3>3 DEF upRow, upCol
  <2>8. (row(l) * Height(f, l - 1)) \div Height(f, l) = row(l - 1)
    <3> DEFINE i == c.row
               n == Height(f, Finest)
               k == Height(f, l)
               m == Height(f, l - 1)
    <3>1. i \in Nat /\ n \in Nat \ {0} /\ k \in Nat \ {0} /\ m \in Nat \ {0} /\ Multiple(k, m)
      BY <1>1, <2>1, <2>2, <2>4, GridType
    <3> HIDE DEF i, n, k, m
    <3>2. (((i * k) \div n) * m) \div k = (i * m) \div n
      BY <3>1, ScaledTwice
    <3>3. QED
      BY <3>2 DEF i, n, k, m
  <2>9. (col(l) * Width(f, l - 1)) \div Width(f, l) = col(l - 1)
    <3> DEFINE i == c.col
               n == Width(f, Finest)
               k == Width(f, l)
               m == Width(f, l - 1)
    <3>1. i \in Nat /\ n \in Nat \ {0} /\ k \in Nat \ {0} /\ m \in Nat \ {0} /\ Multiple(k, m)
      BY <1>1, <2>1, <2>3, <2>4, GridType
    <3> HIDE DEF i, n, k, m
    <3>2. (((i * k) \div n) * m) \div k = (i * m) \div n
      BY <3>1, ScaledTwice
    <3>3. QED
      BY <3>2 DEF i, n, k, m
  <2>10. At(c, l - 1) = [frame |-> f, level |-> l - 1, row |-> row(l - 1), col |-> col(l - 1)]
    BY <1>1, <2>5
  <2> HIDE DEF row, col, f
  <2>11. QED
    BY <2>7, <2>8, <2>9, <2>10 DEF p
<1>4. QED
  BY <1>2, <1>3

(* Where everything above a cell has arrived, each level shows its target.  *)
LEMMA LevelsExact ==
    ASSUME Nested, enc \in Encodings, ImageType, NEW P, NEW value, Value(value, Finest, P),
           NEW c \in Cells, \A l \in 1..Finest : At(c, l) \in P
    PROVE  \A l \in 1..Finest : value[l][At(c, l)] = Target(At(c, l))
<1> DEFINE T == {m \in Nat : m \in 1..Finest => value[m][At(c, m)] = Target(At(c, m))}
<1>1. Finest \in Nat /\ Finest \in 1..Finest /\ c \in PatchesAt(Finest)
  BY GridType DEF Cells
<1>2. \A m \in 1..Finest : At(c, m) \in PatchesAt(m) /\ At(c, m).level = m
  BY <1>1, AtType, PatchFields
<1>3. \A m \in 1..Finest : Target(At(c, m)) \in 0..MaxPixel /\ Target(At(c, m)) \in Int
  BY <1>2, TargetType, TransmissionAssumption
<1>4. 0 \in T
  OBVIOUS
<1>5. \A m \in Nat : m \in T => m + 1 \in T
  <2> SUFFICES ASSUME NEW m \in Nat, m \in T, m + 1 \in 1..Finest
               PROVE  value[m + 1][At(c, m + 1)] = Target(At(c, m + 1))
    OBVIOUS
  <2> DEFINE p == At(c, m + 1)
  <2>1. (m + 1) - 1 = m
    OBVIOUS
  <2>2. p \in PatchesAt(m + 1) /\ p.level = m + 1 /\ p \in P
    BY <1>2
  <2>3. value[m + 1] = Shown(value[m], m + 1, P)
    BY <2>1, ValueLevel
  <2>4. value[m + 1][p] = Clip((IF m + 1 = 1 THEN 0 ELSE value[m][At(p, m)]) + Data(p))
    BY <2>1, <2>2, <2>3 DEF Shown
  <2>5. CASE m = 0
    <3>1. Data(p) = Target(p)
      BY <2>2, <2>5 DEF Data
    <3>2. 0 + Target(p) = Target(p)
      BY <1>3
    <3>3. value[m + 1][p] = Clip(Target(p))
      BY <2>4, <2>5, <3>1, <3>2
    <3>4. QED
      BY <1>3, <3>3, ClipType
  <2>6. CASE m # 0
    <3>1. m \in 1..Finest /\ m + 1 \in 2..Finest
      BY <1>1, <2>6
    <3>2. At(p, m) = At(c, m)
      BY <2>1, <3>1, AtNested
    <3>3. value[m][At(c, m)] = Target(At(c, m))
      BY <3>1
    <3>4. Data(p) = Target(p) - Target(At(c, m))
      <4>1. Residual(p) = Target(p) - Target(At(p, m))
        BY <2>1, <2>2, <3>1, ResidualType
      <4>2. m + 1 # 1
        BY <2>6
      <4>3. QED
        BY <2>2, <3>2, <4>1, <4>2 DEF Data
    <3>5. Target(At(c, m)) + (Target(p) - Target(At(c, m))) = Target(p)
      BY <1>3, <3>1
    <3>6. value[m + 1][p] = Clip(Target(p))
      <4>1. m + 1 # 1
        BY <2>6
      <4>2. QED
        BY <2>4, <3>2, <3>3, <3>4, <3>5, <4>1
    <3>7. QED
      BY <1>3, <3>6, ClipType
  <2>7. QED
    BY <2>5, <2>6
<1>6. Nat \subseteq T
  <2> HIDE DEF T
  <2>1. QED
    BY <1>4, <1>5, SetInduction
<1>7. QED
  BY <1>1, <1>6

(* "Closed loop makes it lossless by construction" (laplacian.py): the      *)
(* residual is taken against what the decoder predicts, so where those of   *)
(* all levels have arrived the canvas shows the picture exactly, however    *)
(* little has arrived elsewhere and in whatever order the groups came.      *)
THEOREM TransmissionCanvasExact ==
    ASSUME TwoLevels, Nested
    PROVE  Spec => []CanvasExact
<1>1. IInv /\ Shows => CanvasExact
  <2> SUFFICES ASSUME IInv, Shows, NEW c \in Cells, Finest > 1,
                      \A l \in 1..Finest : At(c, l) \in Arrived(received)
               PROVE  canvas[c] = image[c]
    BY DEF CanvasExact
  <2>1. enc \in Encodings /\ ImageType
    BY DEF IInv, TypeOK, ImageType
  <2>2. Finest \in Nat /\ Finest \in 1..Finest /\ c \in PatchesAt(Finest)
    BY <2>1, GridType DEF Cells
  <2>3. PICK value : Value(value, Finest, Arrived(received)) /\ canvas = value[Finest]
    BY DEF Shows
  <2>4. value[Finest][At(c, Finest)] = Target(At(c, Finest))
    BY <2>1, <2>2, <2>3, LevelsExact
  <2>5. At(c, Finest) = c
    BY <2>1, <2>2, AtOwnLevel
  <2>6. Target(c) = image[c]
    <3>1. c.level = Finest /\ c.level # 1
      BY <2>1, <2>2, PatchFields
    <3>2. QED
      BY <2>5, <3>1 DEF Target
  <2>7. QED
    BY <2>3, <2>4, <2>5, <2>6
<1>2. QED
  BY <1>1, CanvasInvariance, PTL
=============================================================================
