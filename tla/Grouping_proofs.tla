-------------------------- MODULE Grouping_proofs ---------------------------
(***************************************************************************)
(* What the grouping formulas of both sides return, for every size of the  *)
(* picture and every number of groups: a group that exists.  The lemmas    *)
(* on whole-number division and the induction they need come first.        *)
(***************************************************************************)
EXTENDS Grouping, FiniteSetTheorems, TLAPS

-----------------------------------------------------------------------------
(* Induction, without a predicate for a parameter: T is the set of the      *)
(* numbers it holds for.  Were n the least left out, stepping down would be *)
(* an injection of the numbers left out into fewer.                         *)
LEMMA SetInduction ==
    ASSUME NEW T, 0 \in T, \A i \in Nat : i \in T => i + 1 \in T
    PROVE  Nat \subseteq T
<1> SUFFICES ASSUME NEW n \in Nat, n \notin T PROVE FALSE
  OBVIOUS
<1> DEFINE out == {i \in 0..n : i \notin T}
           prior == [i \in out |-> i - 1]
<1>1. IsFiniteSet(out) /\ n \in out
  <2>1. IsFiniteSet(0..n)
    BY FS_Interval, 0 \in Int, n \in Int
  <2>2. out \in SUBSET (0..n)
    OBVIOUS
  <2>3. IsFiniteSet(out)
    BY <2>1, <2>2, FS_Subset
  <2>4. QED
    BY <2>3
<1>2. /\ IsFiniteSet(out \ {n})
      /\ Cardinality(out \ {n}) = Cardinality(out) - 1
      /\ Cardinality(out) \in Nat
  BY <1>1, FS_RemoveElement, FS_CardinalityType
<1>3. prior \in [out -> out \ {n}]
  <2> SUFFICES ASSUME NEW i \in out PROVE i - 1 \in out \ {n}
    OBVIOUS
  <2>1. i # 0 /\ i \in 0..n
    OBVIOUS
  <2>2. i - 1 \in Nat /\ (i - 1) + 1 = i
    BY <2>1
  <2>3. QED
    BY <2>1, <2>2
<1>4. \A x, y \in out : prior[x] = prior[y] => x = y
  OBVIOUS
<1>5. Cardinality(out \ {n}) < Cardinality(out)
  BY <1>2
<1> HIDE DEF out, prior
<1>6. \E x, y \in out : x # y /\ prior[x] = prior[y]
  BY <1>1, <1>2, <1>3, <1>5, FS_PigeonHole
<1>7. QED
  BY <1>4, <1>6

(* A set of numbers that is not empty has a least one.                      *)
LEMMA LeastMember ==
    ASSUME NEW S \in SUBSET Nat, NEW n \in S
    PROVE  \E k \in S : \A m \in S : k <= m
<1> SUFFICES ASSUME \A k \in S : \E m \in S : m < k PROVE FALSE
  OBVIOUS
<1> DEFINE T == {i \in Nat : \A m \in S : i <= m}
<1>1. 0 \in T
  OBVIOUS
<1>2. \A i \in Nat : i \in T => i + 1 \in T
  <2> SUFFICES ASSUME NEW i \in Nat, i \in T, NEW m \in S PROVE i + 1 <= m
    OBVIOUS
  <2>1. i <= m /\ i # m
    OBVIOUS
  <2>2. QED
    BY <2>1
<1>3. Nat \subseteq T
  <2> HIDE DEF T
  <2>1. QED
    BY <1>1, <1>2, SetInduction
<1>4. n + 1 \in T
  BY <1>3
<1>5. QED
  BY <1>4

-----------------------------------------------------------------------------
(* Division of whole numbers.                                               *)
LEMMA Division ==
    ASSUME NEW a \in Nat, NEW b \in Nat \ {0}
    PROVE  /\ a \div b \in Nat
           /\ a % b \in 0 .. b - 1
           /\ b * (a \div b) <= a
           /\ a < b * (a \div b) + b
           /\ a = b * (a \div b) + (a % b)
<1>1. a \div b \in Int /\ a \div b >= 0
  OBVIOUS
<1>2. a % b \in Int /\ a % b >= 0 /\ a % b < b
  OBVIOUS
<1>3. b * (a \div b) <= a
  OBVIOUS
<1>4. a < b * (a \div b) + b
  OBVIOUS
<1>5. a = b * (a \div b) + (a % b)
  OBVIOUS
<1>6. QED
  BY <1>1, <1>2, <1>3, <1>4, <1>5

(* A bound on the quotient.                                                 *)
LEMMA DivisionBound ==
    ASSUME NEW a \in Nat, NEW b \in Nat \ {0}, NEW c \in Nat, a < b * c
    PROVE  a \div b < c
<1> DEFINE q == a \div b
<1>1. q \in Nat /\ b * q <= a
  BY Division
<1> HIDE DEF q
<1>2. ASSUME q >= c PROVE FALSE
  <2>1. b * q >= b * c
    BY <1>1, <1>2
  <2>2. QED
    BY <1>1, <2>1
<1>3. QED
  BY <1>1, <1>2 DEF q

(* Scaling up and back is exact.                                            *)
LEMMA DivisionExact ==
    ASSUME NEW a \in Nat, NEW b \in Nat \ {0}
    PROVE  (a * b) \div b = a
<1> DEFINE q == (a * b) \div b
<1>1. a * b \in Nat
  OBVIOUS
<1>2. q \in Nat /\ b * q <= a * b /\ a * b < b * q + b
  BY <1>1, Division
<1> HIDE DEF q
<1>3. ASSUME q > a PROVE FALSE
  <2>1. b * q >= b * (a + 1)
    BY <1>2, <1>3
  <2>2. b * (a + 1) = a * b + b
    OBVIOUS
  <2>3. QED
    BY <1>1, <1>2, <2>1, <2>2
<1>4. ASSUME q < a PROVE FALSE
  <2>1. b * (q + 1) <= b * a
    BY <1>2, <1>4
  <2>2. b * (q + 1) = b * q + b /\ b * a = a * b
    BY <1>2
  <2>3. QED
    BY <1>1, <1>2, <2>1, <2>2
<1>5. QED
  BY <1>2, <1>3, <1>4 DEF q

(* A common factor does not matter to the order.                           *)
LEMMA Cancel ==
    ASSUME NEW n \in Nat \ {0}, NEW x \in Nat, NEW y \in Nat, n * x < n * y
    PROVE  x < y
<1> SUFFICES ASSUME y <= x PROVE FALSE
  OBVIOUS
<1>1. n * y <= n * x
  OBVIOUS
<1>2. n * x \in Nat /\ n * y \in Nat
  OBVIOUS
<1>3. QED
  BY <1>1, <1>2

(* The quotient is the one number that leaves less than the divisor.        *)
LEMMA DivisionUnique ==
    ASSUME NEW a \in Nat, NEW b \in Nat \ {0}, NEW q \in Nat, b * q <= a, a < b * q + b
    PROVE  a \div b = q
<1> DEFINE d == a \div b
<1>1. d \in Nat /\ b * d <= a /\ a < b * d + b
  BY Division
<1> HIDE DEF d
<1>2. b * q \in Nat /\ b * d \in Nat /\ b * (q + 1) = b * q + b /\ b * (d + 1) = b * d + b
  BY <1>1
<1>3. b * q < b * (d + 1) /\ b * d < b * (q + 1)
  BY <1>1, <1>2
<1>4. q + 1 \in Nat /\ d + 1 \in Nat
  BY <1>1
<1>5. q < d + 1 /\ d < q + 1
  BY <1>1, <1>3, <1>4, Cancel
<1>6. q = d
  BY <1>1, <1>5
<1>7. QED
  BY <1>6 DEF d

Multiple(l, m) == \E k \in Nat \ {0} : l = k * m

(* Scaled down by one factor, and then by another: as by both at once.      *)
LEMMA ScaledTwice ==
    ASSUME NEW i \in Nat, NEW n \in Nat \ {0}, NEW m \in Nat \ {0}, NEW l \in Nat \ {0},
           Multiple(l, m)
    PROVE  (((i * l) \div n) * m) \div l = (i * m) \div n
<1>0. PICK k \in Nat \ {0} : l = k * m
  BY DEF Multiple
<1> DEFINE a == (i * (k * m)) \div n
           b == (i * m) \div n
<1>1. k * m \in Nat \ {0} /\ i * m \in Nat /\ i * (k * m) \in Nat
  OBVIOUS
<1>2. a \in Nat /\ n * a <= i * (k * m) /\ i * (k * m) < n * a + n
  BY <1>1, Division
<1>3. b \in Nat /\ n * b <= i * m /\ i * m < n * b + n
  BY <1>1, Division
<1> HIDE DEF a, b
<1> DEFINE s == i * m
<1>4. i * (k * m) = k * s
  OBVIOUS
<1>5. s \in Nat /\ n * b <= s /\ s < n * (b + 1) /\ n * a <= k * s /\ k * s < n * (a + 1)
  <2>1. n * (b + 1) = n * b + n /\ n * (a + 1) = n * a + n
    BY <1>2, <1>3
  <2>2. QED
    BY <1>1, <1>2, <1>3, <1>4, <2>1
<1> HIDE DEF s
<1>6. k * b < a + 1
  <2>1. k * (n * b) <= k * s
    BY <1>3, <1>5
  <2>2. k * (n * b) = n * (k * b) /\ k * b \in Nat /\ a + 1 \in Nat
    BY <1>2, <1>3
  <2>3. n * (k * b) \in Nat /\ n * (a + 1) \in Nat /\ k * s \in Nat
    BY <1>5, <2>2
  <2>4. n * (k * b) < n * (a + 1)
    BY <1>5, <2>1, <2>2, <2>3
  <2>5. QED
    BY <2>2, <2>4, Cancel
<1>7. a < k * (b + 1)
  <2>1. k * s < k * (n * (b + 1))
    <3>1. n * (b + 1) \in Nat
      BY <1>3
    <3>2. QED
      BY <1>5, <3>1
  <2>2. k * (n * (b + 1)) = n * (k * (b + 1)) /\ k * (b + 1) \in Nat
    BY <1>3
  <2>3. n * a \in Nat /\ n * (k * (b + 1)) \in Nat /\ k * s \in Nat
    BY <1>2, <1>5, <2>2
  <2>4. n * a < n * (k * (b + 1))
    BY <1>5, <2>1, <2>2, <2>3
  <2>5. QED
    BY <1>2, <2>2, <2>4, Cancel
<1>8. (a * m) \div (k * m) = b
  <2>1. k * b \in Nat /\ k * b <= a /\ a <= k * (b + 1) - 1 /\ k * (b + 1) \in Nat
    BY <1>2, <1>3, <1>6, <1>7
  <2>2. m * (k * b) <= m * a
    BY <1>2, <2>1
  <2>3. m * a < m * (k * (b + 1))
    BY <1>2, <1>7, <2>1
  <2>4. m * (k * b) = (k * m) * b /\ m * (k * (b + 1)) = (k * m) * b + k * m /\ m * a = a * m
    BY <1>2, <1>3
  <2>5. a * m \in Nat /\ (k * m) * b <= a * m /\ a * m < (k * m) * b + k * m
    BY <1>2, <2>2, <2>3, <2>4
  <2>6. QED
    BY <1>1, <1>3, <2>5, DivisionUnique
<1>9. QED
  BY <1>0, <1>8 DEF a, b

(* A place of a scaled axis is a place of the other axis.                   *)
LEMMA Scaled ==
    ASSUME NEW n \in Nat \ {0}, NEW m \in Nat \ {0}, NEW i \in 0 .. n - 1
    PROVE  (i * m) \div n \in 0 .. m - 1
<1>1. i * m \in Nat /\ i * m <= (n - 1) * m
  OBVIOUS
<1>2. (n - 1) * m = n * m - m
  OBVIOUS
<1>3. i * m < n * m
  BY <1>1, <1>2
<1>4. (i * m) \div n \in Nat /\ (i * m) \div n < m
  BY <1>1, <1>3, Division, DivisionBound
<1>5. QED
  BY <1>4

(* Row-major numbers of a square of groups.                                 *)
LEMMA PairRange ==
    ASSUME NEW s \in Nat \ {0}, NEW i \in 0 .. s - 1, NEW j \in 0 .. s - 1
    PROVE  i * s + j + 1 \in 1 .. s * s
<1>1. i * s <= (s - 1) * s /\ i * s \in Nat
  OBVIOUS
<1>2. (s - 1) * s = s * s - s
  OBVIOUS
<1>3. QED
  BY <1>1, <1>2

-----------------------------------------------------------------------------
(* The side of a square of groups: int(num_groups ** 0.5) is defined, at    *)
(* least one, and its square does not exceed the number of groups.          *)
LEMMA SideOfType ==
    ASSUME NEW n \in Nat
    PROVE  /\ SideOf(n) \in 0..n
           /\ SideOf(n) * SideOf(n) <= n
           /\ n < (SideOf(n) + 1) * (SideOf(n) + 1)
<1> DEFINE root(m) == {s \in 0..m : s * s <= m /\ m < (s + 1) * (s + 1)}
           T == {m \in Nat : root(m) # {}}
<1>1. 0 \in T
  <2>1. 0 \in root(0)
    OBVIOUS
  <2>2. QED
    BY <2>1
<1>2. \A m \in Nat : m \in T => m + 1 \in T
  <2> SUFFICES ASSUME NEW m \in Nat, NEW s \in 0..m, s * s <= m, m < (s + 1) * (s + 1)
               PROVE  root(m + 1) # {}
    OBVIOUS
  <2>1. CASE m + 1 < (s + 1) * (s + 1)
    <3>1. s \in root(m + 1)
      BY <2>1
    <3>2. QED
      BY <3>1
  <2>2. CASE m + 1 >= (s + 1) * (s + 1)
    <3>1. (s + 1) * (s + 1) = m + 1
      BY <2>2
    <3>2. (s + 2) * (s + 2) = (s + 1) * (s + 1) + 2 * s + 3
      OBVIOUS
    <3>3. s + 1 \in root(m + 1)
      BY <3>1, <3>2
    <3>4. QED
      BY <3>3
  <2>3. QED
    BY <2>1, <2>2
<1>3. Nat \subseteq T
  <2> HIDE DEF T
  <2>1. QED
    BY <1>1, <1>2, SetInduction
<1>4. \E s \in 0..n : s * s <= n /\ n < (s + 1) * (s + 1)
  BY <1>3
<1>5. QED
  BY <1>4 DEF SideOf

(* A side of at least one group, whose square is not larger than asked for. *)
LEMMA SideOfPositive ==
    ASSUME NEW n \in Nat \ {0}
    PROVE  SideOf(n) \in Nat \ {0}
<1>1. SideOf(n) \in 0..n /\ n < (SideOf(n) + 1) * (SideOf(n) + 1)
  BY SideOfType
<1>2. QED
  BY <1>1

(* grid: a square of groups repeats over the picture.                       *)
LEMMA GridGroupRange ==
    ASSUME NEW s \in Nat \ {0}, NEW row \in Nat, NEW col \in Nat
    PROVE  GridGroup(s, row, col) \in 1 .. s * s
<1> DEFINE i == row % s
           j == col % s
<1>1. i \in 0 .. s - 1 /\ j \in 0 .. s - 1
  BY Division
<1> HIDE DEF i, j
<1>2. i * s + j + 1 \in 1 .. s * s
  BY <1>1, PairRange
<1>3. QED
  BY <1>2 DEF GridGroup, i, j

(* block_grid: a band of rows and one of columns.                           *)
LEMMA BandRange ==
    ASSUME NEW s \in Nat \ {0}, NEW n \in Nat, NEW x \in Nat
    PROVE  Band(x, n, s) \in 0 .. s - 1
<1>1. Most(n, 1) \in Nat \ {0} /\ x * s \in Nat
  BY DEF Most
<1> DEFINE q == (x * s) \div Most(n, 1)
<1>2. q \in Nat
  BY <1>1, Division
<1> HIDE DEF q
<1>3. Least(q, s - 1) \in 0 .. s - 1
  BY <1>2 DEF Least
<1>4. QED
  BY <1>3 DEF Band, q

(* The blocks of a picture.                                                 *)
LEMMA BlockGroupRange ==
    ASSUME NEW s \in Nat \ {0}, NEW h \in Nat, NEW w \in Nat, NEW row \in Nat, NEW col \in Nat
    PROVE  BlockGroup(s, h, w, row, col) \in 1 .. s * s
<1>1. Band(row, h, s) \in 0 .. s - 1 /\ Band(col, w, s) \in 0 .. s - 1
  BY BandRange
<1>2. Band(row, h, s) * s + Band(col, w, s) + 1 \in 1 .. s * s
  BY <1>1, PairRange
<1>3. QED
  BY <1>2 DEF BlockGroup

(* sequential and expansion: a share of the places in proportion.           *)
LEMMA SequentialGroupRange ==
    ASSUME NEW groups \in Nat \ {0}, NEW n \in Nat, NEW index \in 0 .. n - 1
    PROVE  SequentialGroup(index, n, groups) \in 1 .. groups
<1>1. n \in Nat \ {0} /\ Most(n, 1) = n
  BY DEF Most
<1>2. (index * groups) \div n \in 0 .. groups - 1
  BY <1>1, Scaled
<1>3. QED
  BY <1>1, <1>2 DEF SequentialGroup

(* Equal numbers of ranks to each group.                                    *)
LEMMA RankGroupRange ==
    ASSUME NEW groups \in Nat \ {0}, NEW n \in Nat, NEW rank \in 0 .. n - 1
    PROVE  RankGroup(rank, n, groups) \in 1 .. groups
<1>1. (rank * groups) \div n \in 0 .. groups - 1
  BY Scaled
<1>2. QED
  BY <1>1 DEF RankGroup

(* A rank among n is below n: nothing comes before itself.                  *)
LEMMA RankRange ==
    ASSUME NEW D, IsFiniteSet(D), NEW key \in [D -> Int], NEW place, NEW x \in D,
           place[x] \in Int
    PROVE  RankOf(key, place, x) \in 0 .. Cardinality(D) - 1
<1> DEFINE before == {y \in DOMAIN key : key[y] < key[x] \/ (key[y] = key[x] /\ place[y] < place[x])}
<1>1. before \in SUBSET (D \ {x})
  OBVIOUS
<1>2. IsFiniteSet(D \ {x}) /\ Cardinality(D \ {x}) = Cardinality(D) - 1 /\ Cardinality(D) \in Nat
  BY FS_RemoveElement, FS_CardinalityType
<1> HIDE DEF before
<1>3. IsFiniteSet(before) /\ Cardinality(before) <= Cardinality(D \ {x})
  BY <1>1, <1>2, FS_Subset
<1>4. Cardinality(before) \in Nat
  BY <1>3, FS_CardinalityType
<1>5. QED
  BY <1>2, <1>3, <1>4 DEF RankOf, before

-----------------------------------------------------------------------------
(* Equal shares of a score: the boundaries passed are fewer than the groups *)
(* whatever the scores are.                                                 *)
LEMMA ShareGroupRange ==
    ASSUME NEW groups \in Nat \ {0}, NEW cumulated, NEW total
    PROVE  ShareGroup(cumulated, total, groups) \in 1 .. groups
<1> DEFINE passed == {k \in 1..(groups - 1) : k * total < cumulated * groups}
<1>1. IsFiniteSet(1..(groups - 1)) /\ Cardinality(1..(groups - 1)) = groups - 1
  BY FS_Interval, 1 \in Int, groups - 1 \in Int
<1>2. passed \in SUBSET (1..(groups - 1))
  OBVIOUS
<1> HIDE DEF passed
<1>3. IsFiniteSet(passed) /\ Cardinality(passed) <= groups - 1
  BY <1>1, <1>2, FS_Subset
<1>4. Cardinality(passed) \in Nat
  BY <1>3, FS_CardinalityType
<1>5. QED
  BY <1>3, <1>4 DEF ShareGroup, passed

(* VGGT: the remainder spread over the first rounds, every unit falls into  *)
(* a round, also when there are fewer units than rounds.                    *)
LEMMA BucketRange ==
    ASSUME NEW rounds \in Nat \ {0}, NEW units \in Nat, NEW index \in 0 .. units - 1
    PROVE  Bucket(index, units, rounds) \in 0 .. rounds - 1
<1> DEFINE base == units \div rounds
           extra == units % rounds
           big == extra * (base + 1)
<1>1. base \in Nat /\ extra \in 0 .. rounds - 1 /\ units = rounds * base + extra
  BY Division
<1> HIDE DEF base, extra
<1>2. CASE index < big
  <2>1. index \div (base + 1) \in Nat /\ index \div (base + 1) < extra
    BY <1>1, <1>2, Division, DivisionBound
  <2>2. QED
    BY <1>1, <1>2, <2>1 DEF Bucket, base, extra
<1>3. CASE ~(index < big)
  <2>1. units = big + base * (rounds - extra)
    BY <1>1
  <2>2. index - big \in Nat /\ index - big < base * (rounds - extra)
    BY <1>1, <1>3, <2>1
  <2>3. base # 0
    BY <1>1, <2>2
  <2> DEFINE rest == index - big
             share == rest \div base
  <2>4. rest \in Nat /\ rest < base * (rounds - extra) /\ base \in Nat \ {0} /\ rounds - extra \in Nat
    BY <1>1, <2>2, <2>3
  <2>5. share \in Nat /\ share < rounds - extra
    <3> HIDE DEF rest
    <3>1. QED
      BY <2>4, Division, DivisionBound
  <2>6. Bucket(index, units, rounds) = extra + share
    BY <1>3 DEF Bucket, base, extra
  <2> HIDE DEF share
  <2>7. QED
    BY <1>1, <2>5, <2>6
<1>4. QED
  BY <1>2, <1>3

-----------------------------------------------------------------------------
(* The detector's windows: three by three, also when patches make the last  *)
(* ones empty; each begins where the ones before it end.                    *)
LEMMA WindowSizeType ==
    ASSUME NEW length \in Nat, NEW patch \in Nat \ {0}
    PROVE  /\ WindowSize(length, patch) \in Nat
           /\ WindowLength(length, patch, 0) = WindowSize(length, patch)
<1> DEFINE third == length \div WindowsAcross
           sum == third + patch - 1
           count == sum \div patch
<1>1. third \in Nat
  BY Division DEF WindowsAcross
<1> HIDE DEF third
<1>2. sum \in Nat
  BY <1>1
<1> HIDE DEF sum
<1>3. count \in Nat
  BY <1>2, Division
<1>4. WindowSize(length, patch) = count * patch
  BY DEF WindowSize, Ceiling, count, sum, third
<1> HIDE DEF count
<1>5. QED
  BY <1>3, <1>4 DEF WindowLength, WindowsAcross

(* The window a pixel lies in.                                              *)
LEMMA WindowGroupRange ==
    ASSUME NEW height \in Nat, NEW width \in Nat, NEW patch \in Nat \ {0},
           WindowLength(height, patch, 0) > 0, WindowLength(width, patch, 0) > 0,
           NEW y \in Nat, NEW x \in Nat
    PROVE  WindowGroup(height, width, patch, y, x) \in 1 .. WindowsAcross * WindowsAcross
<1>1. ASSUME NEW length \in Nat, WindowLength(length, patch, 0) > 0, NEW z \in Nat
      PROVE  WindowAt(length, patch, z) \in 0 .. WindowsAcross - 1
  <2>1. WindowSize(length, patch) \in Nat \ {0}
    BY <1>1, WindowSizeType
  <2> DEFINE q == z \div WindowSize(length, patch)
  <2>2. q \in Nat
    BY <2>1, Division
  <2> HIDE DEF q
  <2>3. Least(q, WindowsAcross - 1) \in 0 .. WindowsAcross - 1
    BY <2>2 DEF Least, WindowsAcross
  <2>4. QED
    BY <2>3 DEF WindowAt, q
<1>2. /\ WindowAt(height, patch, y) \in 0 .. WindowsAcross - 1
      /\ WindowAt(width, patch, x) \in 0 .. WindowsAcross - 1
  BY <1>1
<1>3. QED
  BY <1>2 DEF WindowGroup, WindowsAcross

(* The window a token lies in, as the server counts it, is the window it    *)
(* was cut as: the groups of the windows are 1 to 9 on either side.         *)
LEMMA WindowOfStart ==
    ASSUME NEW length \in Nat, NEW patch \in Nat \ {0},
           WindowLength(length, patch, 0) > 0, NEW k \in 0 .. WindowsAcross - 1
    PROVE  WindowAt(length, patch, WindowStart(length, patch, k)) = k
<1>1. WindowSize(length, patch) \in Nat \ {0} /\ k \in Nat
  BY WindowSizeType
<1>2. (k * WindowSize(length, patch)) \div WindowSize(length, patch) = k
  BY <1>1, DivisionExact
<1>3. QED
  BY <1>2 DEF WindowAt, WindowStart, Least, WindowsAcross

-----------------------------------------------------------------------------
(* The sliding crops: at least one, and every place has a first crop, the   *)
(* last when none covers it.                                                *)
Crop == [top : Int, bottom : Int, left : Int, right : Int]

(* There is always a crop along an axis.                                    *)
LEMMA CropCountPositive ==
    ASSUME NEW length \in Nat, NEW side \in Nat, NEW stride \in Nat \ {0}
    PROVE  CropCount(length, side, stride) \in Nat \ {0}
<1> DEFINE steps == Most(length - side + stride - 1, 0)
<1>1. steps \in Nat
  BY DEF Most
<1> HIDE DEF steps
<1>2. steps \div stride \in Nat
  BY <1>1, Division
<1>3. QED
  BY <1>2 DEF CropCount, steps

(* The list of crops.                                                       *)
LEMMA CropsType ==
    ASSUME NEW height \in Nat, NEW width \in Nat, NEW crop \in Nat, NEW stride \in Nat \ {0}
    PROVE  /\ Crops(height, width, crop, stride) \in Seq(Crop)
           /\ Len(Crops(height, width, crop, stride)) \in Nat \ {0}
<1> DEFINE side == CropSide(height, width, crop)
           rows == CropCount(height, side, stride)
           cols == CropCount(width, side, stride)
           n == rows * cols
<1>1. side \in Nat
  BY DEF CropSide, Least
<1> HIDE DEF side
<1>2. rows \in Nat \ {0} /\ cols \in Nat \ {0}
  BY <1>1, CropCountPositive
<1> HIDE DEF rows, cols
<1>3. n \in Nat /\ n # 0
  BY <1>2
<1> HIDE DEF n
<1> DEFINE at(k) == LET bottom == Least(((k - 1) \div cols) * stride + side, height)
                        right == Least(((k - 1) % cols) * stride + side, width)
                    IN [top |-> Most(bottom - side, 0), bottom |-> bottom,
                        left |-> Most(right - side, 0), right |-> right]
<1>4. ASSUME NEW k \in 1..n PROVE at(k) \in Crop
  <2> DEFINE place == k - 1
             i == place \div cols
             j == place % cols
  <2>1. place \in Nat
    BY <1>3
  <2>2. i \in Nat /\ j \in Nat
    <3> HIDE DEF place
    <3>1. i \in Nat /\ j \in 0 .. cols - 1
      BY <1>2, <2>1, Division
    <3>2. QED
      BY <3>1, <1>2
  <2> HIDE DEF i, j
  <2> DEFINE bottom == Least(i * stride + side, height)
             right == Least(j * stride + side, width)
  <2>3. bottom \in Int /\ right \in Int
    BY <1>1, <2>2 DEF Least
  <2> HIDE DEF bottom, right
  <2>4. Most(bottom - side, 0) \in Int /\ Most(right - side, 0) \in Int
    BY <1>1, <2>3 DEF Most
  <2>5. [top |-> Most(bottom - side, 0), bottom |-> bottom,
         left |-> Most(right - side, 0), right |-> right] \in Crop
    BY <2>3, <2>4 DEF Crop
  <2>6. QED
    BY <2>5 DEF bottom, right, i, j
<1> HIDE DEF at
<1>5. [k \in 1..n |-> at(k)] \in Seq(Crop) /\ Len([k \in 1..n |-> at(k)]) = n
  BY <1>3, <1>4
<1>6. Crops(height, width, crop, stride) = [k \in 1..n |-> at(k)]
  BY DEF Crops, at, n, rows, cols, side
<1>7. QED
  BY <1>3, <1>5, <1>6

(* The first crop that covers a pixel, or else the last.                    *)
LEMMA FirstCoverRange ==
    ASSUME NEW crops \in Seq(Crop), Len(crops) # 0, NEW y, NEW x
    PROVE  FirstCover(crops, y, x) \in 1 .. Len(crops)
<1> DEFINE covering == {k \in DOMAIN crops : Covers(crops[k], y, x)}
<1>1. DOMAIN crops = 1 .. Len(crops) /\ Len(crops) \in Nat \ {0}
  OBVIOUS
<1>2. CASE covering = {}
  BY <1>1, <1>2 DEF FirstCover
<1>3. CASE covering # {}
  <2>1. covering \in SUBSET Nat
    BY <1>1
  <2>2. PICK k \in covering : \A m \in covering : k <= m
    <3> HIDE DEF covering
    <3>1. QED
      BY <1>3, <2>1, LeastMember
  <2>3. \A m \in 1..(k - 1) : ~Covers(crops[m], y, x)
    <3> SUFFICES ASSUME NEW m \in 1..(k - 1), Covers(crops[m], y, x) PROVE FALSE
      OBVIOUS
    <3>1. k \in 1 .. Len(crops)
      BY <1>1
    <3>2. m \in DOMAIN crops /\ m < k
      BY <1>1, <3>1
    <3>3. m \in covering
      BY <3>2
    <3>4. QED
      BY <2>2, <3>1, <3>2, <3>3
  <2>4. \E j \in DOMAIN crops :
           Covers(crops[j], y, x) /\ \A m \in 1..(j - 1) : ~Covers(crops[m], y, x)
    BY <2>2, <2>3
  <2>5. FirstCover(crops, y, x) \in DOMAIN crops
    BY <2>4 DEF FirstCover
  <2>6. QED
    BY <1>1, <2>5
<1>4. QED
  BY <1>2, <1>3

-----------------------------------------------------------------------------
(* The server's tiling is the client's: the pattern 1..s*s cut from a       *)
(* repetition, and blocks without the client's clamp, which a place inside  *)
(* the grid does not need.                                                  *)
LEMMA TiledGroupIsGridGroup ==
    ASSUME NEW s \in Nat \ {0}, NEW row \in Nat, NEW col \in Nat
    PROVE  TiledGroup(s, row, col) = GridGroup(s, row, col)
<1> DEFINE k == (row % s) * s + (col % s)
<1>1. k + 1 \in 1 .. s * s
  BY GridGroupRange DEF GridGroup
<1>2. row % s \in Nat /\ col % s \in Nat
  BY Division
<1>3. k \in Nat
  BY <1>2
<1> HIDE DEF k
<1>4. k \in 0 .. (s * s - 1)
  BY <1>1, <1>3
<1>5. TiledGroup(s, row, col) = k + 1
  BY <1>4 DEF TiledGroup, k
<1>6. GridGroup(s, row, col) = k + 1
  BY DEF GridGroup, k
<1>7. QED
  BY <1>5, <1>6

(* The same blocks on the token grid and on the patch grid.                 *)
LEMMA TiledBlockIsBlockGroup ==
    ASSUME NEW s \in Nat \ {0}, NEW h \in Nat \ {0}, NEW w \in Nat \ {0},
           NEW row \in 0 .. h - 1, NEW col \in 0 .. w - 1
    PROVE  TiledBlock(s, h, w, row, col) = BlockGroup(s, h, w, row, col)
<1>1. Most(h, 1) = h /\ Most(w, 1) = w
  BY DEF Most
<1> DEFINE i == (row * s) \div h
           j == (col * s) \div w
<1>2. i \in 0 .. s - 1 /\ j \in 0 .. s - 1
  BY Scaled
<1> HIDE DEF i, j
<1>3. Least(i, s - 1) = i /\ Least(j, s - 1) = j
  BY <1>2 DEF Least
<1>4. Band(row, h, s) = i /\ Band(col, w, s) = j
  BY <1>1, <1>3 DEF Band, i, j
<1>5. TiledBlock(s, h, w, row, col) = i * s + j + 1
  BY <1>1 DEF TiledBlock, i, j
<1>6. QED
  BY <1>4, <1>5 DEF BlockGroup
=============================================================================
