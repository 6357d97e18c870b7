-------------------------- MODULE Correction_proofs ---------------------------
(***************************************************************************)
(* What a correction of the partial_token method may recompute, and what   *)
(* it may not undo, for any rows, groups, scores and plans.  The lemmas on *)
(* sorted sequences and on the selection come first.                       *)
(***************************************************************************)
EXTENDS Correction, Grouping_proofs

-----------------------------------------------------------------------------
(* Sets of numbers.                                                         *)

(* The members before one that is greater are more.                         *)
LEMMA MoreBelow ==
    ASSUME NEW S \in SUBSET Int, IsFiniteSet(S), NEW x \in S, NEW y \in S, x < y
    PROVE  Cardinality({z \in S : z < x}) < Cardinality({z \in S : z < y})
<1> DEFINE a == {z \in S : z < x}
           b == {z \in S : z < y}
<1>1. a \in SUBSET b /\ x \in b /\ x \notin a
  <2>1. \A z \in S : z \in Int /\ (z < x => z < y)
    OBVIOUS
  <2>2. x \in b /\ x \notin a
    OBVIOUS
  <2>3. QED
    BY <2>1, <2>2
<1>2. b \in SUBSET S
  OBVIOUS
<1> HIDE DEF a, b
<1>3. IsFiniteSet(b) /\ Cardinality(b) \in Nat
  BY <1>2, FS_Subset, FS_CardinalityType
<1>4. /\ IsFiniteSet(a) /\ Cardinality(a) \in Nat
      /\ Cardinality(a) <= Cardinality(b) /\ Cardinality(a) # Cardinality(b)
  BY <1>1, <1>3, FS_Subset, FS_CardinalityType
<1>5. QED
  BY <1>3, <1>4 DEF a, b

(* A sorted sequence holds the members of its set, and no others, in order. *)
LEMMA AscendingSorted ==
    ASSUME NEW S \in SUBSET Int, IsFiniteSet(S)
    PROVE  /\ Cardinality(S) \in Nat
           /\ Ascending(S) \in [1 .. Cardinality(S) -> S]
           /\ \A x \in S : \E i \in 1 .. Cardinality(S) : Ascending(S)[i] = x
           /\ \A i, j \in 1 .. Cardinality(S) : i < j => Ascending(S)[i] < Ascending(S)[j]
<1> DEFINE n == Cardinality(S)
           below(x) == Cardinality({y \in S : y < x})
           place == [x \in S |-> below(x) + 1]
<1>1. n \in Nat
  BY FS_CardinalityType
<1>2. ASSUME NEW x \in S PROVE below(x) \in 0 .. n - 1
  <2>1. {y \in S : y < x} \in SUBSET (S \ {x})
    OBVIOUS
  <2>2. IsFiniteSet(S \ {x}) /\ Cardinality(S \ {x}) = n - 1
    BY FS_RemoveElement
  <2>3. below(x) \in Nat /\ below(x) <= n - 1
    BY <2>1, <2>2, FS_Subset, FS_CardinalityType
  <2> HIDE DEF below, n
  <2>4. QED
    BY <1>1, <2>3
<1>3. ASSUME NEW x \in S, NEW y \in S, x < y PROVE below(x) < below(y)
  BY <1>3, MoreBelow
<1> HIDE DEF below, n
<1>4. place \in [S -> 1 .. n]
  BY <1>1, <1>2
<1>5. \A x, y \in S : place[x] = place[y] => x = y
  <2> SUFFICES ASSUME NEW x \in S, NEW y \in S, place[x] = place[y], x < y \/ y < x PROVE FALSE
    OBVIOUS
  <2>1. below(x) = below(y) /\ below(x) \in Int /\ below(y) \in Int
    BY <1>1, <1>2
  <2>2. QED
    BY <1>3, <2>1
<1>6. \A i \in 1 .. n : \E x \in S : place[x] = i
  <2>1. IsFiniteSet(1 .. n) /\ Cardinality(1 .. n) = n
    BY <1>1, FS_Interval, 1 \in Int
  <2>2. place \in Injection(S, 1 .. n)
    BY <1>4, <1>5 DEF Injection, IsInjective
  <2> HIDE DEF place
  <2>3. place \in Surjection(S, 1 .. n)
    BY <2>1, <2>2, FS_Injection DEF n
  <2>4. QED
    BY <2>3 DEF Surjection
<1>7. Ascending(S) = [i \in 1 .. n |-> CHOOSE x \in S : below(x) = i - 1]
  BY DEF Ascending, below, n
<1>8. ASSUME NEW i \in 1 .. n
      PROVE  Ascending(S)[i] \in S /\ below(Ascending(S)[i]) = i - 1
  <2>1. PICK x \in S : place[x] = i
    BY <1>6
  <2>2. below(x) = i - 1
    BY <1>1, <1>2, <2>1
  <2>3. QED
    BY <1>7, <2>2
<1>9. Ascending(S) \in [1 .. n -> S]
  BY <1>7, <1>8
<1>10. ASSUME NEW x \in S PROVE \E i \in 1 .. n : Ascending(S)[i] = x
  <2>1. below(x) + 1 \in 1 .. n
    BY <1>1, <1>2
  <2>2. /\ Ascending(S)[below(x) + 1] \in S
        /\ below(Ascending(S)[below(x) + 1]) = below(x)
    BY <1>1, <1>2, <1>8, <2>1
  <2>3. Ascending(S)[below(x) + 1] = x
    BY <1>5, <2>2
  <2>4. QED
    BY <2>1, <2>3
<1>11. ASSUME NEW i \in 1 .. n, NEW j \in 1 .. n, i < j
       PROVE  Ascending(S)[i] < Ascending(S)[j]
  <2> DEFINE x == Ascending(S)[i]
             y == Ascending(S)[j]
  <2>1. x \in S /\ y \in S /\ below(x) = i - 1 /\ below(y) = j - 1
    BY <1>8
  <2> HIDE DEF x, y
  <2>2. below(x) < below(y)
    BY <1>1, <1>11, <2>1
  <2>3. x # y /\ ~(y < x)
    BY <1>1, <1>2, <1>3, <2>1, <2>2
  <2>4. x < y
    BY <2>1, <2>3
  <2>5. QED
    BY <2>4 DEF x, y
<1>12. QED
  BY <1>1, <1>9, <1>10, <1>11 DEF n

(* As a sequence.                                                           *)
LEMMA AscendingSeq ==
    ASSUME NEW S \in SUBSET Int, IsFiniteSet(S)
    PROVE  /\ Ascending(S) \in Seq(S) /\ Len(Ascending(S)) = Cardinality(S)
           /\ DOMAIN Ascending(S) = 1 .. Cardinality(S)
           /\ ToSet(Ascending(S)) = S
<1>1. /\ Cardinality(S) \in Nat
      /\ Ascending(S) \in [1 .. Cardinality(S) -> S]
      /\ \A x \in S : \E i \in 1 .. Cardinality(S) : Ascending(S)[i] = x
  BY AscendingSorted
<1> DEFINE s == Ascending(S)
           n == Cardinality(S)
<1> HIDE DEF s, n
<1>2. /\ n \in Nat /\ s \in [1 .. n -> S]
      /\ \A x \in S : \E i \in 1 .. n : s[i] = x
  BY <1>1 DEF s, n
<1>3. s \in Seq(S) /\ Len(s) = n /\ DOMAIN s = 1 .. n
  BY <1>2
<1>4. {s[i] : i \in 1 .. n} = S
  BY <1>2
<1>5. QED
  BY <1>3, <1>4 DEF s, n, ToSet

(* The greatest of a finite set.                                            *)
LEMMA GreatestOf ==
    ASSUME NEW S \in SUBSET Nat, IsFiniteSet(S), S # {}
    PROVE  Max(S) \in S /\ \A x \in S : x <= Max(S)
<1>1. /\ Cardinality(S) \in Nat \ {0}
      /\ Ascending(S) \in [1 .. Cardinality(S) -> S]
      /\ \A x \in S : \E i \in 1 .. Cardinality(S) : Ascending(S)[i] = x
      /\ \A i, j \in 1 .. Cardinality(S) : i < j => Ascending(S)[i] < Ascending(S)[j]
  BY AscendingSorted, FS_EmptySet
<1> DEFINE top == Ascending(S)[Cardinality(S)]
<1>2. Cardinality(S) \in 1 .. Cardinality(S)
  BY <1>1
<1>3. top \in S
  BY <1>1, <1>2
<1>4. \A x \in S : x <= top
  <2> SUFFICES ASSUME NEW x \in S PROVE x <= top
    OBVIOUS
  <2>1. PICK i \in 1 .. Cardinality(S) : Ascending(S)[i] = x
    BY <1>1
  <2>2. i = Cardinality(S) \/ i < Cardinality(S)
    BY <1>1
  <2>3. i < Cardinality(S) => x < top
    BY <1>1, <1>2, <2>1
  <2>4. x \in Nat /\ top \in Nat /\ (x = top \/ x < top)
    BY <1>3, <2>1, <2>2, <2>3
  <2> HIDE DEF top
  <2>5. QED
    BY <2>4
<1> HIDE DEF top
<1>5. \A x \in S : x \in Int
  OBVIOUS
<1>6. \E x \in S : \A y \in S : x >= y
  BY <1>3, <1>4, <1>5
<1>7. QED
  BY <1>5, <1>6 DEF Max

(* The least of any.                                                        *)
LEMMA LeastOf ==
    ASSUME NEW S \in SUBSET Nat, S # {}
    PROVE  Min(S) \in S /\ \A x \in S : Min(S) <= x
<1>1. PICK n \in S : TRUE
  OBVIOUS
<1>2. \E k \in S : \A m \in S : k =< m
  BY <1>1, LeastMember
<1>3. QED
  BY <1>2 DEF Min

-----------------------------------------------------------------------------
(* Sequences.                                                               *)

(* Functions on 1..n are sequences.                                         *)
LEMMA SeqMade ==
    ASSUME NEW S, NEW n \in Nat, NEW f \in [1 .. n -> S]
    PROVE  f \in Seq(S) /\ Len(f) = n
OBVIOUS

(* More values make no difference.                                          *)
LEMMA SeqWiden ==
    ASSUME NEW S, NEW T, S \subseteq T, NEW s \in Seq(S)
    PROVE  s \in Seq(T)
<1>1. Len(s) \in Nat /\ s \in [1 .. Len(s) -> S]
  OBVIOUS
<1>2. s \in [1 .. Len(s) -> T]
  BY <1>1
<1>3. QED
  BY <1>1, <1>2, SeqMade

(* Sequences put end to end are a sequence; one is itself.                  *)
LEMMA FlattenSeqType ==
    ASSUME NEW S, NEW seqs \in Seq(Seq(S))
    PROVE  /\ FlattenSeq(seqs) \in Seq(S)
           /\ Len(seqs) = 1 => FlattenSeq(seqs) = seqs[1]
<1> DEFINE n == Len(seqs)
           Step(g, m) == \A i \in 1 .. m : g[i] = IF i = 1 THEN seqs[i] ELSE g[i - 1] \o seqs[i]
           Built(m) == \E g \in [1 .. m -> Seq(S)] : Step(g, m)
           T == {m \in Nat : m <= n => Built(m)}
<1>1. n \in Nat /\ \A i \in 1 .. n : seqs[i] \in Seq(S)
  OBVIOUS
<1>2. 0 \in T
  <2>1. [i \in 1 .. 0 |-> << >>] \in [1 .. 0 -> Seq(S)] /\ Step([i \in 1 .. 0 |-> << >>], 0)
    OBVIOUS
  <2>2. QED
    BY <2>1
<1>3. ASSUME NEW m \in Nat, m \in T PROVE m + 1 \in T
  <2> SUFFICES ASSUME m + 1 <= n PROVE Built(m + 1)
    <3> HIDE DEF Built
    <3>1. QED
      OBVIOUS
  <2>0. Built(m)
    <3> HIDE DEF Built
    <3>1. QED
      BY <1>1, <1>3
  <2>1. PICK g \in [1 .. m -> Seq(S)] : Step(g, m)
    BY <2>0
  <2> DEFINE top == IF m = 0 THEN seqs[1] ELSE g[m] \o seqs[m + 1]
             h == [i \in 1 .. m + 1 |-> IF i = m + 1 THEN top ELSE g[i]]
  <2>2. top \in Seq(S)
    <3>1. CASE m = 0
      BY <1>1, <3>1
    <3>2. CASE m # 0
      <4>1. g[m] \in Seq(S) /\ seqs[m + 1] \in Seq(S)
        BY <1>1, <3>2
      <4>2. QED
        BY <3>2, <4>1
    <3>3. QED
      BY <3>1, <3>2
  <2>3. top = IF m + 1 = 1 THEN seqs[m + 1] ELSE g[m] \o seqs[m + 1]
    OBVIOUS
  <2> HIDE DEF top
  <2>4. h \in [1 .. m + 1 -> Seq(S)]
    BY <2>2
  <2>5. ASSUME NEW i \in 1 .. m + 1
        PROVE  h[i] = IF i = 1 THEN seqs[i] ELSE h[i - 1] \o seqs[i]
    <3>1. CASE i = m + 1
      <4>1. m # 0 => h[i - 1] = g[m]
        BY <3>1
      <4>2. QED
        BY <2>3, <3>1, <4>1
    <3>2. CASE i # m + 1
      <4>1. i \in 1 .. m /\ h[i] = g[i] /\ (i # 1 => h[i - 1] = g[i - 1])
        BY <3>2
      <4>2. QED
        BY <2>1, <4>1
    <3>3. QED
      BY <3>1, <3>2
  <2>6. QED
    BY <2>4, <2>5
<1>4. n \in T
  <2> HIDE DEF T
  <2>1. Nat \subseteq T
    BY <1>2, <1>3, SetInduction
  <2>2. QED
    BY <1>1, <2>1
<1>5. PICK g \in [1 .. n -> Seq(S)] : Step(g, n)
  BY <1>1, <1>4
<1> DEFINE Rec(f) == f = [i \in 1 .. n |-> IF i = 1 THEN seqs[i] ELSE f[i - 1] \o seqs[i]]
           f0 == CHOOSE f : Rec(f)
<1>6. Rec(g)
  BY <1>5
<1>7. Rec(f0)
  <2> HIDE DEF Rec
  <2>1. QED
    BY <1>6
<1>8. n # 0 => FlattenSeq(seqs) = f0[n]
  BY DEF FlattenSeq
<1> HIDE DEF f0, T
<1> DEFINE U == {m \in Nat : m \in 1 .. n => f0[m] \in Seq(S)}
<1>9. ASSUME NEW m \in Nat, m \in U PROVE m + 1 \in U
  <2> SUFFICES ASSUME m + 1 \in 1 .. n PROVE f0[m + 1] \in Seq(S)
    OBVIOUS
  <2>0. f0[m + 1] = IF m + 1 = 1 THEN seqs[m + 1] ELSE f0[(m + 1) - 1] \o seqs[m + 1]
    BY <1>7
  <2>1. f0[m + 1] = IF m = 0 THEN seqs[1] ELSE f0[m] \o seqs[m + 1]
    <3>1. (m + 1) - 1 = m /\ (m + 1 = 1 <=> m = 0)
      OBVIOUS
    <3>2. QED
      BY <2>0, <3>1
  <2>2. CASE m = 0
    BY <1>1, <2>1, <2>2
  <2>3. CASE m # 0
    <3>1. f0[m] \in Seq(S) /\ seqs[m + 1] \in Seq(S)
      BY <1>1, <1>9, <2>3
    <3>2. QED
      BY <2>1, <2>3, <3>1
  <2>4. QED
    BY <2>2, <2>3
<1>10. n \in U
  <2>1. 0 \in U
    OBVIOUS
  <2> HIDE DEF U
  <2>2. Nat \subseteq U
    BY <1>9, <2>1, SetInduction
  <2>3. QED
    BY <1>1, <2>2
<1>11. n = 1 => f0[n] = seqs[1]
  BY <1>7
<1>12. CASE n = 0
  <2>1. FlattenSeq(seqs) = seqs /\ seqs = << >>
    BY <1>12 DEF FlattenSeq
  <2>2. QED
    BY <1>12, <2>1
<1>13. CASE n # 0
  BY <1>1, <1>8, <1>10, <1>11, <1>13
<1>14. QED
  BY <1>12, <1>13

-----------------------------------------------------------------------------
(* Numbers.                                                                 *)

(* Of two.                                                                  *)
LEMMA OfTwo ==
    ASSUME NEW a \in Int, NEW b \in Int
    PROVE  /\ Min({a, b}) = IF a <= b THEN a ELSE b
           /\ Max({a, b}) = IF a >= b THEN a ELSE b
<1>1. \E x \in {a, b} : \A y \in {a, b} : x =< y
  OBVIOUS
<1>2. \E x \in {a, b} : \A y \in {a, b} : x >= y
  OBVIOUS
<1>3. Min({a, b}) \in {a, b} /\ \A y \in {a, b} : Min({a, b}) =< y
  BY <1>1 DEF Min
<1>4. Max({a, b}) \in {a, b} /\ \A y \in {a, b} : Max({a, b}) >= y
  BY <1>2 DEF Max
<1>5. QED
  BY <1>3, <1>4

(* The values of a finite function.                                         *)
LEMMA FiniteRange ==
    ASSUME NEW R, IsFiniteSet(R), NEW f, DOMAIN f = R
    PROVE  IsFiniteSet({f[x] : x \in R})
<1> DEFINE T == {f[x] : x \in R}
           g == [x \in R |-> f[x]]
<1>1. g \in [R -> T] /\ \A y \in T : \E x \in R : g[x] = y
  OBVIOUS
<1>2. g \in Surjection(R, T)
  BY <1>1 DEF Surjection
<1> HIDE DEF T, g
<1>3. IsFiniteSet(T)
  BY <1>2, FS_Surjection
<1>4. QED
  BY <1>3 DEF T

-----------------------------------------------------------------------------
(* What is selected.                                                        *)

(* Rows have finitely many tokens, all of them numbers.                     *)
LEMMA RowFacts ==
    ASSUME NEW c \in Cases, NEW r \in DOMAIN c.group
    PROVE  /\ Patches(c, r) \in SUBSET Nat /\ IsFiniteSet(Patches(c, r))
           /\ GroupsOf(c, r) \in SUBSET Nat /\ IsFiniteSet(GroupsOf(c, r))
           /\ Pre(c) \in SUBSET Nat /\ IsFiniteSet(Pre(c)) /\ Cardinality(Pre(c)) = c.pre
           /\ c.pre - 1 \in Pre(c) /\ c.pre \in Nat
           /\ Pre(c) \cap Patches(c, r) = {}
<1>1. /\ c.pre \in Nat \ {0} /\ IsFiniteSet(DOMAIN c.group[r])
      /\ \A t \in DOMAIN c.group[r] : t \in Nat /\ t >= c.pre /\ c.group[r][t] \in Nat \cup {-1}
  BY CorrectionAssumption
<1>2. IsFiniteSet(0 .. c.pre - 1) /\ Cardinality(0 .. c.pre - 1) = c.pre
  <2>1. c.pre - 1 \in Nat /\ (c.pre - 1) - 0 + 1 = c.pre
    BY <1>1
  <2> DEFINE m == c.pre - 1
  <2> HIDE DEF m
  <2>2. IsFiniteSet(0 .. m) /\ Cardinality(0 .. m) = IF 0 > m THEN 0 ELSE m - 0 + 1
    BY <2>1, FS_Interval, 0 \in Int DEF m
  <2>3. QED
    BY <2>1, <2>2 DEF m
<1>3. Pre(c) \in SUBSET Nat /\ IsFiniteSet(Pre(c)) /\ Cardinality(Pre(c)) = c.pre
  BY <1>1, <1>2 DEF Pre
<1>4. Patches(c, r) \in SUBSET Nat /\ IsFiniteSet(Patches(c, r))
  BY <1>1 DEF Patches
<1>5. c.pre - 1 \in Pre(c) /\ Pre(c) \cap Patches(c, r) = {}
  BY <1>1 DEF Pre, Patches
<1>6. GroupsOf(c, r) \in SUBSET Nat /\ IsFiniteSet(GroupsOf(c, r))
  <2> DEFINE all == {c.group[r][t] : t \in Patches(c, r)}
  <2>1. IsFiniteSet(all)
    BY <1>4, FiniteRange DEF Patches
  <2>2. GroupsOf(c, r) \in SUBSET all
    BY DEF GroupsOf
  <2>3. GroupsOf(c, r) \in SUBSET Nat
    BY <1>1 DEF GroupsOf, Patches
  <2> HIDE DEF all
  <2>4. QED
    BY <2>1, <2>2, <2>3, FS_Subset
<1>7. QED
  BY <1>1, <1>3, <1>4, <1>5, <1>6

(* The members of groups, in their order.                                   *)
LEMMA MembersFacts ==
    ASSUME NEW c \in Cases, NEW r \in DOMAIN c.group, NEW gids
    PROVE  /\ Members(c, r, gids) \in Seq(Patches(c, r))
           /\ ToSet(Members(c, r, gids)) = {t \in Patches(c, r) : c.group[r][t] \in gids}
           /\ \A i, j \in DOMAIN Members(c, r, gids) :
                i < j => Members(c, r, gids)[i] < Members(c, r, gids)[j]
<1> DEFINE S == {t \in Patches(c, r) : c.group[r][t] \in gids}
<1>1. S \in SUBSET Patches(c, r) /\ S \in SUBSET Int
  BY RowFacts
<1>2. IsFiniteSet(S)
  <2> HIDE DEF S
  <2>1. QED
    BY <1>1, RowFacts, FS_Subset
<1> HIDE DEF S
<1>3. /\ Ascending(S) \in Seq(S) /\ ToSet(Ascending(S)) = S
      /\ DOMAIN Ascending(S) = 1 .. Cardinality(S)
      /\ \A i, j \in 1 .. Cardinality(S) : i < j => Ascending(S)[i] < Ascending(S)[j]
  BY <1>1, <1>2, AscendingSorted, AscendingSeq
<1>4. Ascending(S) \in Seq(Patches(c, r))
  BY <1>1, <1>3, SeqWiden
<1>5. Members(c, r, gids) = Ascending(S)
  BY DEF Members, S
<1>6. QED
  BY <1>3, <1>4, <1>5 DEF S

(* Candidates are tokens of the row.                                        *)
LEMMA CandidatesType ==
    ASSUME NEW c \in Cases, NEW r \in DOMAIN c.group, NEW gid
    PROVE  Candidates(c, r, gid) \in Seq(Tokens(c, r))
<1>1. \A gids : Members(c, r, gids) \in Seq(Tokens(c, r))
  <2> TAKE gids
  <2>1. Members(c, r, gids) \in Seq(Patches(c, r)) /\ Patches(c, r) \subseteq Tokens(c, r)
    BY MembersFacts DEF Tokens
  <2>2. QED
    BY <2>1
<1>2. EndToEnd(c, r) \in Seq(Tokens(c, r))
  <2> DEFINE gids == Ascending(GroupsOf(c, r))
             each == [i \in DOMAIN gids |-> Ascending(Pre(c)) \o Members(c, r, {gids[i]})]
  <2>1. DOMAIN gids = 1 .. Cardinality(GroupsOf(c, r)) /\ Cardinality(GroupsOf(c, r)) \in Nat
    <3>1. GroupsOf(c, r) \in SUBSET Int
      BY RowFacts
    <3>2. QED
      BY <3>1, RowFacts, AscendingSeq, AscendingSorted
  <2>2. Ascending(Pre(c)) \in Seq(Tokens(c, r))
    <3>1. Pre(c) \in SUBSET Int /\ Pre(c) \subseteq Tokens(c, r)
      BY RowFacts DEF Tokens
    <3>2. Ascending(Pre(c)) \in Seq(Pre(c))
      BY <3>1, RowFacts, AscendingSeq
    <3>3. QED
      BY <3>1, <3>2
  <2> HIDE DEF gids
  <2>3. \A i \in DOMAIN gids : Ascending(Pre(c)) \o Members(c, r, {gids[i]}) \in Seq(Tokens(c, r))
    BY <1>1, <2>2
  <2>4. each \in Seq(Seq(Tokens(c, r)))
    <3>1. each \in [1 .. Cardinality(GroupsOf(c, r)) -> Seq(Tokens(c, r))]
      BY <2>1, <2>3
    <3> HIDE DEF each
    <3>2. QED
      BY <2>1, <3>1, SeqMade
  <2>5. EndToEnd(c, r) = FlattenSeq(each)
    BY DEF EndToEnd, gids
  <2> HIDE DEF each
  <2>6. QED
    BY <2>4, <2>5, FlattenSeqType
<1>3. SubSeq(EndToEnd(c, r), c.pre + 1, Len(EndToEnd(c, r))) \in Seq(Tokens(c, r))
  <2>1. c.pre \in Nat
    BY RowFacts
  <2>2. QED
    BY <1>2, <2>1
<1>4. QED
  BY <1>1, <1>3 DEF Candidates

(* The width of a batch is that of its widest row.                          *)
LEMMA WidthType ==
    ASSUME NEW c \in Cases, NEW rows \in SUBSET DOMAIN c.group, rows # {}, NEW gid
    PROVE  /\ Width(c, rows, gid) \in Nat
           /\ \A r \in rows : Len(Candidates(c, r, gid)) <= Width(c, rows, gid)
<1> DEFINE f == [r \in rows |-> Len(Candidates(c, r, gid))]
           S == {f[r] : r \in rows}
<1>1. IsFiniteSet(rows)
  <2>1. DOMAIN c.group = 1 .. Len(c.group) /\ Len(c.group) \in Nat
    BY CorrectionAssumption
  <2>2. IsFiniteSet(1 .. Len(c.group))
    BY <2>1, FS_Interval, 1 \in Int
  <2>3. QED
    BY <2>1, <2>2, FS_Subset
<1>2. IsFiniteSet(S)
  <2> HIDE DEF f
  <2>1. DOMAIN f = rows
    BY DEF f
  <2>2. QED
    BY <1>1, <2>1, FiniteRange
<1>3. \A r \in rows : Len(Candidates(c, r, gid)) \in Nat
  BY CandidatesType
<1>4. S \in SUBSET Nat /\ S # {}
  BY <1>3
<1>5. S = {Len(Candidates(c, r, gid)) : r \in rows}
  OBVIOUS
<1>6. Width(c, rows, gid) = Max(S)
  BY <1>5 DEF Width
<1>7. \A r \in rows : Len(Candidates(c, r, gid)) \in S
  OBVIOUS
<1> HIDE DEF S
<1>8. QED
  BY <1>2, <1>4, <1>6, <1>7, GreatestOf

(* Padding repeats tokens of the row.                                       *)
LEMMA PadType ==
    ASSUME NEW c \in Cases, NEW r \in DOMAIN c.group, NEW gid, NEW width \in Nat
    PROVE  Pad(c, r, gid, width) \in Seq(Tokens(c, r))
<1> DEFINE own == Candidates(c, r, gid)
           last == IF own = << >> THEN c.pre - 1 ELSE Last(own)
           tail == [i \in 1 .. width - Len(own) |-> last]
<1>1. own \in Seq(Tokens(c, r))
  BY CandidatesType
<1>2. c.pre - 1 \in Tokens(c, r)
  BY RowFacts DEF Tokens
<1>3. Pad(c, r, gid, width) = IF Padded(c, own) THEN own \o tail ELSE own
  BY DEF Pad
<1> HIDE DEF own
<1>4. last \in Tokens(c, r)
  BY <1>1, <1>2 DEF Last
<1> HIDE DEF last
<1>5. tail \in Seq(Tokens(c, r))
  <2> DEFINE n == width - Len(own)
  <2>1. n \in Int
    BY <1>1
  <2>2. CASE n \in Nat
    BY <1>4, <2>2
  <2>3. CASE n \notin Nat
    <3>1. 1 .. n = 1 .. 0
      BY <2>1, <2>3
    <3>2. tail \in [1 .. 0 -> Tokens(c, r)]
      BY <3>1
    <3>3. QED
      BY <3>2, SeqMade
  <2>4. QED
    BY <2>2, <2>3
<1> HIDE DEF tail
<1>6. QED
  BY <1>1, <1>3, <1>5

(* Rows are corrected in one bucket each; VGGT's in one altogether.         *)
LEMMA BucketsFacts ==
    ASSUME NEW c \in Cases, NEW gid
    PROVE  /\ \A b \in Buckets(c, gid) : b # {} /\ b \subseteq DOMAIN c.group
           /\ \A b, d \in Buckets(c, gid) : b # d => b \cap d = {}
           /\ c.executor = "vggt" => \A b, d \in Buckets(c, gid) : b = d
<1> DEFINE rows == {r \in DOMAIN c.group : Corrects(c, r, gid)}
           shape(r) == Len(Pad(c, r, gid, Width(c, rows, gid)))
           like(r) == {q \in rows : shape(q) = shape(r)}
<1>1. c.executor \in {"classifier", "detector", "m2f", "linhead", "depther", "vggt"}
  BY CorrectionAssumption
<1>2. Buckets(c, gid) = CASE c.executor \in {"classifier", "vggt"} -> {rows} \ {{}}
                          [] c.executor = "m2f" -> {like(r) : r \in rows}
                          [] OTHER -> {{r} : r \in rows}
  BY DEF Buckets
<1>3. rows \subseteq DOMAIN c.group
  OBVIOUS
<1> HIDE DEF rows, shape
<1>4. CASE c.executor \in {"classifier", "vggt"}
  <2>1. Buckets(c, gid) = {rows} \ {{}}
    <3> DEFINE one == {rows} \ {{}}
               alike == {like(r) : r \in rows}
               each == {{r} : r \in rows}
    <3>1. Buckets(c, gid) = CASE c.executor \in {"classifier", "vggt"} -> one
                              [] c.executor = "m2f" -> alike
                              [] OTHER -> each
      BY <1>2
    <3> HIDE DEF one, alike, each
    <3>2. Buckets(c, gid) = one
      BY <1>4, <3>1
    <3>3. QED
      BY <3>2 DEF one
  <2>2. \A b \in Buckets(c, gid) : b = rows /\ b # {}
    BY <2>1
  <2>3. QED
    BY <1>3, <2>2
<1>5. CASE c.executor = "m2f"
  <2>1. Buckets(c, gid) = {like(r) : r \in rows}
    BY <1>2, <1>5
  <2>2. ASSUME NEW r \in rows PROVE r \in like(r) /\ like(r) \subseteq DOMAIN c.group
    BY <1>3
  <2>3. ASSUME NEW r \in rows, NEW q \in rows, like(r) \cap like(q) # {} PROVE like(r) = like(q)
    BY <2>3
  <2> HIDE DEF like
  <2>4. QED
    BY <1>5, <2>1, <2>2, <2>3
<1>6. CASE c.executor \in {"detector", "linhead", "depther"}
  <2>1. Buckets(c, gid) = {{r} : r \in rows}
    <3> DEFINE one == {rows} \ {{}}
               alike == {like(r) : r \in rows}
               each == {{r} : r \in rows}
    <3>1. Buckets(c, gid) = CASE c.executor \in {"classifier", "vggt"} -> one
                              [] c.executor = "m2f" -> alike
                              [] OTHER -> each
      BY <1>2
    <3> HIDE DEF one, alike, each
    <3>2. Buckets(c, gid) = each
      BY <1>6, <3>1
    <3>3. QED
      BY <3>2 DEF each
  <2>2. \A b \in Buckets(c, gid) : \E r \in rows : b = {r}
    BY <2>1
  <2>3. c.executor # "vggt"
    BY <1>6
  <2>4. \A b \in Buckets(c, gid) : b # {} /\ b \subseteq DOMAIN c.group
    BY <1>3, <2>2
  <2>5. \A b, d \in Buckets(c, gid) : b # d => b \cap d = {}
    <3> SUFFICES ASSUME NEW b \in Buckets(c, gid), NEW d \in Buckets(c, gid), b # d
                 PROVE  b \cap d = {}
      OBVIOUS
    <3>1. PICK q \in rows, r \in rows : b = {q} /\ d = {r}
      BY <2>2
    <3>2. QED
      BY <3>1
  <2>6. QED
    BY <2>3, <2>4, <2>5
<1>7. QED
  BY <1>1, <1>4, <1>5, <1>6

(* One of them is the first.                                                *)
LEMMA FirstFacts ==
    ASSUME NEW c \in Cases, NEW gid, NEW S \in SUBSET Buckets(c, gid), S # {}
    PROVE  First(S) \in S
<1> DEFINE mins == {Min(b) : b \in S}
<1>1. \A b \in S : Min(b) \in Nat
  <2> SUFFICES ASSUME NEW b \in S PROVE Min(b) \in Nat
    OBVIOUS
  <2>1. b # {} /\ b \subseteq DOMAIN c.group
    BY BucketsFacts
  <2>2. DOMAIN c.group = 1 .. Len(c.group) /\ Len(c.group) \in Nat
    BY CorrectionAssumption
  <2>3. b \in SUBSET Nat
    BY <2>1, <2>2
  <2>4. QED
    BY <2>1, <2>3, LeastOf
<1>2. mins \in SUBSET Nat /\ \E n \in mins : TRUE
  BY <1>1
<1>3. \E k \in mins : \A m \in mins : k <= m
  <2> HIDE DEF mins
  <2>1. QED
    BY <1>2, LeastMember
<1>4. \E b \in S : \A o \in S : Min(b) <= Min(o)
  BY <1>3
<1>5. QED
  BY <1>4 DEF First

(* The candidates a bucket is corrected with are tokens of its rows.        *)
LEMMA BatchType ==
    ASSUME NEW c \in Cases, NEW b \in SUBSET DOMAIN c.group, b # {}, NEW gid
    PROVE  /\ DOMAIN Batch(c, b, gid) = b /\ DOMAIN Valid(c, b, gid) = b
           /\ \A r \in b : Batch(c, b, gid)[r] \in Seq(Tokens(c, r))
<1>1. Width(c, b, gid) \in Nat
  BY WidthType
<1>2. \A r \in b : Pad(c, r, gid, Width(c, b, gid)) \in Seq(Tokens(c, r))
  BY <1>1, PadType
<1>3. QED
  BY <1>2 DEF Batch, Valid

(* All that is in one sequence is in the other.                             *)
From(s, cands) == \A i \in DOMAIN s : \E p \in DOMAIN cands : s[i] = cands[p]

(* A fixed-width state holds candidates.                                    *)
LEMMA PackedStaticFacts ==
    ASSUME NEW c \in Cases, NEW T, NEW cands \in Seq(T), NEW mask \in SUBSET DOMAIN cands
    PROVE  /\ From(PackedStatic(c, cands, mask), cands)
           /\ DOMAIN PackedStatic(c, cands, mask) = 1 .. Min({c.cap, Len(cands)})
<1> DEFINE n == Len(cands)
           rest == DOMAIN cands \ mask
           order == Ascending(mask) \o Ascending(rest)
           last == Max({Cardinality(mask), 1})
           width == Min({c.cap, n})
<1>1. n \in Nat /\ DOMAIN cands = 1 .. n /\ c.cap \in Nat
  BY CorrectionAssumption
<1>2. IsFiniteSet(DOMAIN cands) /\ Cardinality(DOMAIN cands) = n
  <2> HIDE DEF n
  <2>1. IsFiniteSet(1 .. n) /\ Cardinality(1 .. n) = IF 1 > n THEN 0 ELSE n - 1 + 1
    BY <1>1, FS_Interval, 1 \in Int
  <2>2. (IF 1 > n THEN 0 ELSE n - 1 + 1) = n
    BY <1>1
  <2>3. QED
    BY <1>1, <2>1, <2>2
<1>3. /\ IsFiniteSet(mask) /\ IsFiniteSet(rest)
      /\ Cardinality(mask) \in Nat /\ Cardinality(rest) \in Nat
      /\ Cardinality(mask) + Cardinality(rest) = n
      /\ mask \in SUBSET Int /\ rest \in SUBSET Int
  <2>1. IsFiniteSet(mask) /\ IsFiniteSet(rest)
    BY <1>2, FS_Subset
  <2>2. mask \cap rest = {} /\ mask \cup rest = DOMAIN cands
    OBVIOUS
  <2>3. Cardinality(DOMAIN cands) = Cardinality(mask) + Cardinality(rest) - 0
    <3> HIDE DEF rest
    <3>1. Cardinality(mask \cup rest)
            = Cardinality(mask) + Cardinality(rest) - Cardinality(mask \cap rest)
      BY <2>1, FS_Union
    <3>2. Cardinality({}) = 0
      BY FS_EmptySet
    <3>3. QED
      BY <2>2, <3>1, <3>2
  <2>4. mask \in SUBSET Int /\ rest \in SUBSET Int
    BY <1>1
  <2>5. Cardinality(mask) \in Nat /\ Cardinality(rest) \in Nat
    BY <2>1, FS_CardinalityType
  <2> HIDE DEF rest, n
  <2>6. QED
    BY <1>1, <1>2, <2>1, <2>3, <2>4, <2>5
<1>4. /\ Ascending(mask) \in Seq(DOMAIN cands) /\ Len(Ascending(mask)) = Cardinality(mask)
      /\ Ascending(rest) \in Seq(DOMAIN cands) /\ Len(Ascending(rest)) = Cardinality(rest)
  <2>1. /\ Ascending(mask) \in Seq(mask) /\ Len(Ascending(mask)) = Cardinality(mask)
        /\ Ascending(rest) \in Seq(rest) /\ Len(Ascending(rest)) = Cardinality(rest)
    BY <1>3, AscendingSeq
  <2>2. mask \subseteq DOMAIN cands /\ rest \subseteq DOMAIN cands
    OBVIOUS
  <2> HIDE DEF rest
  <2>3. QED
    BY <2>1, <2>2, SeqWiden
<1>5. order \in Seq(DOMAIN cands) /\ Len(order) = n
  <2> DEFINE s == Ascending(mask)
             t == Ascending(rest)
  <2>1. /\ s \in Seq(DOMAIN cands) /\ t \in Seq(DOMAIN cands)
        /\ Len(s) = Cardinality(mask) /\ Len(t) = Cardinality(rest)
    BY <1>4
  <2>2. order = s \o t
    OBVIOUS
  <2> HIDE DEF s, t, rest, n, order
  <2> DEFINE D == DOMAIN cands
  <2>5. s \in Seq(D) /\ t \in Seq(D)
    BY <2>1
  <2> HIDE DEF D
  <2>3. order \in Seq(D) /\ Len(order) = Len(s) + Len(t)
    BY <2>2, <2>5
  <2>4. QED
    BY <1>3, <2>1, <2>3 DEF D
<1>6. /\ width = IF c.cap <= n THEN c.cap ELSE n
      /\ last = IF Cardinality(mask) >= 1 THEN Cardinality(mask) ELSE 1
  <2> DEFINE k == Cardinality(mask)
  <2>1. k \in Int /\ n \in Int /\ c.cap \in Int
    BY <1>1, <1>3
  <2> HIDE DEF k, n
  <2>2. Max({k, 1}) = IF k >= 1 THEN k ELSE 1
    BY <2>1, OfTwo, 1 \in Int
  <2>3. Min({c.cap, n}) = IF c.cap <= n THEN c.cap ELSE n
    BY <2>1, OfTwo
  <2>4. QED
    BY <2>2, <2>3 DEF k
<1> HIDE DEF order, last, width, rest
<1>7. PackedStatic(c, cands, mask) = [i \in 1 .. width |-> cands[order[Min({i, last})]]]
  BY DEF PackedStatic, order, last, width, rest
<1>8. ASSUME NEW i \in 1 .. width PROVE order[Min({i, last})] \in DOMAIN cands
  <2>1. width \in Nat /\ width <= n /\ last \in Nat \ {0} /\ i \in Int
    BY <1>1, <1>3, <1>6
  <2>2. Min({i, last}) = IF i <= last THEN i ELSE last
    BY <2>1, OfTwo
  <2>3. Min({i, last}) \in 1 .. Len(order)
    BY <1>1, <1>5, <2>1, <2>2
  <2> HIDE DEF n
  <2>4. QED
    BY <1>5, <2>3
<1>9. QED
  BY <1>7, <1>8 DEF width, From

(* Only candidates are recomputed.                                          *)
LEMMA PickedWithin ==
    ASSUME NEW c \in Cases, NEW scs, NEW r, NEW T, NEW cands \in Seq(T), NEW valid, NEW over
    PROVE  Picked(c, scs, r, cands, valid, over) \subseteq ToSet(cands)
<1> DEFINE mask == KeepMask(c, scs, r, cands, valid, over)
           query == PackedQuery(c, cands, mask)
<1>1. mask \subseteq DOMAIN cands
  BY DEF KeepMask
<1> HIDE DEF mask
<1>2. IsFiniteSet(mask) /\ mask \in SUBSET Int
  <2>1. DOMAIN cands = 1 .. Len(cands) /\ Len(cands) \in Nat
    OBVIOUS
  <2>2. IsFiniteSet(1 .. Len(cands))
    BY <2>1, FS_Interval, 1 \in Int
  <2>3. QED
    BY <1>1, <2>1, <2>2, FS_Subset
<1>3. \A i \in DOMAIN query : \E p \in DOMAIN cands : query[i] = cands[p]
  <2>1. CASE ~UseThreshold(c) /\ c.ratio >= 100
    BY <2>1 DEF PackedQuery
  <2>2. CASE UseThreshold(c) /\ c.cap > 0
    <3>1. query = PackedStatic(c, cands, mask)
      BY <2>2 DEF PackedQuery
    <3>2. From(PackedStatic(c, cands, mask), cands)
      BY <1>1, PackedStaticFacts
    <3> HIDE DEF query
    <3>3. QED
      BY <3>1, <3>2 DEF From
  <2>3. CASE /\ ~(~UseThreshold(c) /\ c.ratio >= 100)
             /\ ~(UseThreshold(c) /\ c.cap > 0)
    <3> DEFINE k == Cardinality(mask)
               order == Ascending(mask)
    <3>1. query = [i \in 1 .. k |-> cands[order[i]]]
      BY <2>3 DEF PackedQuery
    <3>2. order \in [1 .. k -> mask]
      BY <1>2, AscendingSorted
    <3> HIDE DEF k, order, query
    <3>3. DOMAIN query = 1 .. k /\ \A i \in 1 .. k : query[i] = cands[order[i]] /\ order[i] \in mask
      BY <3>1, <3>2
    <3>4. \A i \in 1 .. k : order[i] \in DOMAIN cands
      BY <1>1, <3>3
    <3>5. QED
      BY <3>3, <3>4
  <2>4. QED
    BY <2>1, <2>2, <2>3
<1> HIDE DEF query
<1>4. QED
  BY <1>3 DEF Picked, query, mask, ToSet
-----------------------------------------------------------------------------
(* The invariant.                                                           *)

(* What a layer keeps of a row, and all of its layers.                      *)
Filled(c, r) == [Tokens(c, r) -> Versions \ {{}}]
Entries(c, r, layers) == [inc : [layers -> Filled(c, r)], kv : [layers -> Filled(c, r)]]

(* A row, whose approximated layers are given.                              *)
RowOK(c, r, layers, feature, entries, picked, keep) ==
    /\ feature \in [Tokens(c, r) -> Versions]
    /\ layers # {} => feature \in Filled(c, r)
    /\ entries \in Entries(c, r, layers)
    /\ \A l \in DOMAIN picked : Pre(c) \subseteq picked[l] /\ picked[l] \subseteq Tokens(c, r)
    /\ keep \subseteq Patches(c, r)

(* Plans select the tokens before the patches and others of the row,        *)
(* whatever group they were made for.                                       *)
Within(c, selected, r) == Pre(c) \subseteq selected /\ selected \subseteq Tokens(c, r)
PlansOK(c, unit, plans) == \A k \in DOMAIN plans : \A r \in unit : Within(c, plans[k][r], r)

(* A correction in progress is that of the instruction.                     *)
WorkFields ==
    {"bucket", "todo", "gid", "hi", "layer", "place", "cands", "valid", "x", "cache", "derived"}
WorkOK(c, i, w) ==
    w # NoWork =>
        /\ DOMAIN w = WorkFields /\ i \in 1 .. Len(c.plan) /\ c.plan[i].op = "CORRECT"
        /\ w.gid = c.plan[i].gid /\ w.hi = c.plan[i].hi /\ w.layer \in 0 .. w.hi
        /\ w.bucket \in Buckets(c, w.gid) /\ w.todo \subseteq Buckets(c, w.gid)
        /\ w.bucket \notin w.todo
        /\ w.cands = Batch(c, w.bucket, w.gid) /\ w.valid = Valid(c, w.bucket, w.gid)

(* What it has computed,                                                    *)
StateOK(c, w) ==
    w # NoWork =>
        /\ DOMAIN w.x = w.bucket /\ DOMAIN w.cache = w.bucket
        /\ \A r \in w.bucket : /\ w.x[r] \in Filled(c, r)
                               /\ w.cache[r] \in Entries(c, r, 0 .. w.hi - 1)
        /\ DOMAIN w.derived = {"plans", "mean"} /\ PlansOK(c, w.bucket, w.derived.plans)

(* and recomputed, so far.                                                  *)
ChosenOK(c, w, picked) ==
    w # NoWork =>
        /\ \A r \in w.bucket :
              /\ DOMAIN picked[r] = 0 .. w.layer - 1
              /\ \A l \in 0 .. w.layer - 1 : Within(c, picked[r][l], r)
        /\ \A b \in w.todo : \A r \in b : DOMAIN picked[r] = {}

Control ==
    /\ case \in Cases /\ step \in 1 .. Len(case.plan) + 1
    /\ depth \in 0 .. case.layers /\ scored \subseteq 0 .. case.layers - 1
    /\ DOMAIN features = DOMAIN case.group /\ DOMAIN cache = DOMAIN case.group
    /\ DOMAIN chosen = DOMAIN case.group /\ DOMAIN kept = DOMAIN case.group
RowsOK ==
    \A r \in DOMAIN case.group :
        RowOK(case, r, Approximated(case, step), features[r], cache[r], chosen[r], kept[r])
DerivedOK ==
    \A unit \in DOMAIN derived : /\ DOMAIN derived[unit] = {"plans", "mean"}
                                 /\ PlansOK(case, unit, derived[unit].plans)

Safe ==
    /\ Control /\ RowsOK /\ DerivedOK
    /\ WorkOK(case, step, work) /\ StateOK(case, work) /\ ChosenOK(case, work, chosen)

-----------------------------------------------------------------------------
(* Its pieces.                                                              *)

(* An approximation goes on from where the last one ended.                  *)
LEMMA ApproximatedFacts ==
    ASSUME NEW c \in Cases
    PROVE  /\ Approximated(c, 1) = {}
           /\ \A i \in 1 .. Len(c.plan) + 1 : Approximated(c, i) \subseteq 0 .. c.layers - 1
           /\ \A i \in 1 .. Len(c.plan) :
                IF c.plan[i].op = "APPROX"
                THEN /\ c.plan[i].hi \in 1 .. c.layers /\ c.plan[i].lo \in 0 .. c.plan[i].hi - 1
                     /\ Approximated(c, i) = 0 .. c.plan[i].lo - 1
                     /\ Approximated(c, i + 1) = 0 .. c.plan[i].hi - 1
                ELSE Approximated(c, i + 1) = Approximated(c, i)
           /\ \A i \in 1 .. Len(c.plan) :
                c.plan[i].op = "CORRECT" => /\ c.plan[i].hi \in 1 .. c.layers
                                            /\ Approximated(c, i) = 0 .. c.plan[i].hi - 1
<1>1. Len(c.plan) \in Nat /\ InOrder(c) /\ c.layers \in Nat \ {0}
  BY CorrectionAssumption
<1> DEFINE at(i) == c.plan[i].lo .. c.plan[i].hi - 1
           In(l, i) == \E j \in 1 .. i - 1 : c.plan[j].op = "APPROX" /\ l \in at(j)
<1>2. \A i : \A l : l \in Approximated(c, i) <=> In(l, i)
  BY DEF Approximated
<1>3. \A i \in 1 .. Len(c.plan) :
         /\ c.plan[i].op # "LOAD" => c.plan[i].hi \in 1 .. c.layers
         /\ c.plan[i].op = "APPROX" => /\ c.plan[i].lo \in 0 .. c.plan[i].hi - 1
                                       /\ Approximated(c, i) = 0 .. c.plan[i].lo - 1
         /\ c.plan[i].op = "CORRECT" => Approximated(c, i) = 0 .. c.plan[i].hi - 1
  BY <1>1 DEF InOrder
<1>4. \A i \in 1 .. Len(c.plan) : c.plan[i].op = "APPROX" =>
         \A l \in at(i) : l \in 0 .. c.layers - 1
  BY <1>1, <1>3
<1> HIDE DEF at
<1>5. Approximated(c, 1) = {}
  BY <1>2
<1>6. ASSUME NEW i \in 1 .. Len(c.plan) + 1 PROVE Approximated(c, i) \subseteq 0 .. c.layers - 1
  <2> SUFFICES ASSUME NEW l \in Approximated(c, i) PROVE l \in 0 .. c.layers - 1
    OBVIOUS
  <2>1. PICK j \in 1 .. i - 1 : c.plan[j].op = "APPROX" /\ l \in at(j)
    BY <1>2
  <2>2. j \in 1 .. Len(c.plan)
    BY <1>1
  <2>3. QED
    BY <1>4, <2>1, <2>2
<1>7. ASSUME NEW i \in 1 .. Len(c.plan)
      PROVE  Approximated(c, i + 1)
                = Approximated(c, i) \cup (IF c.plan[i].op = "APPROX" THEN at(i) ELSE {})
  <2>1. \A l : In(l, i + 1) <=> (In(l, i) \/ (c.plan[i].op = "APPROX" /\ l \in at(i)))
    <3> TAKE l
    <3>1. 1 .. (i + 1) - 1 = 1 .. i /\ 1 .. i = (1 .. i - 1) \cup {i}
      BY <1>1
    <3>2. QED
      BY <3>1
  <2> HIDE DEF In
  <2>2. QED
    BY <1>2, <2>1
<1>8. ASSUME NEW i \in 1 .. Len(c.plan), c.plan[i].op = "APPROX"
      PROVE  Approximated(c, i + 1) = 0 .. c.plan[i].hi - 1
  <2>1. c.plan[i].hi \in 1 .. c.layers /\ c.plan[i].lo \in 0 .. c.plan[i].hi - 1
    BY <1>3, <1>8
  <2>2. Approximated(c, i + 1) = (0 .. c.plan[i].lo - 1) \cup at(i)
    BY <1>3, <1>7, <1>8
  <2> DEFINE a == c.plan[i].lo
             b == c.plan[i].hi
  <2>3. a \in Int /\ b \in Int /\ 0 <= a /\ a < b
    BY <1>1, <2>1
  <2>4. Approximated(c, i + 1) = (0 .. a - 1) \cup (a .. b - 1)
    BY <2>2 DEF at
  <2> HIDE DEF a, b
  <2>5. (0 .. a - 1) \cup (a .. b - 1) = 0 .. b - 1
    BY <2>3
  <2>6. QED
    BY <2>4, <2>5 DEF b
<1>9. ASSUME NEW i \in 1 .. Len(c.plan), c.plan[i].op # "APPROX"
      PROVE  Approximated(c, i + 1) = Approximated(c, i)
  BY <1>7, <1>9
<1> HIDE DEF In
<1>10. ASSUME NEW i \in 1 .. Len(c.plan), c.plan[i].op = "CORRECT"
       PROVE  c.plan[i].hi \in 1 .. c.layers /\ Approximated(c, i) = 0 .. c.plan[i].hi - 1
  BY <1>3, <1>10
<1>11. ASSUME NEW i \in 1 .. Len(c.plan), c.plan[i].op = "APPROX"
       PROVE  /\ c.plan[i].hi \in 1 .. c.layers /\ c.plan[i].lo \in 0 .. c.plan[i].hi - 1
              /\ Approximated(c, i) = 0 .. c.plan[i].lo - 1
  BY <1>3, <1>11
<1>12. QED
  BY <1>5, <1>6, <1>8, <1>9, <1>10, <1>11

(* The input tokens of a row; a patch that has arrived is its residual.     *)
LEMMA EmbeddedType ==
    ASSUME case \in Cases, NEW r \in DOMAIN case.group, NEW groups
    PROVE  /\ Embedded(r, groups) \in Filled(case, r)
           /\ \A t \in Patches(case, r) :
                case.sent[r][t] \in groups => Embedded(r, groups)[t] = {1}
<1>1. \A t \in Patches(case, r) : t \in Tokens(case, r)
  BY DEF Tokens
<1>2. {1} \in Versions \ {{}} /\ {0} \in Versions \ {{}}
  BY DEF Versions
<1>3. QED
  BY <1>1, <1>2 DEF Embedded, Filled

(* Tokens that are filled stay so in a block.                               *)
LEMMA BlockType ==
    ASSUME NEW c, NEW r, NEW x \in Filled(c, r), NEW old \in Filled(c, r), NEW selected
    PROVE  Through(x, old, selected) \in Filled(c, r) /\ Persist(old, x, selected) \in Filled(c, r)
<1>1. /\ DOMAIN x = Tokens(c, r)
      /\ \A t \in Tokens(c, r) : x[t] \in Versions \ {{}} /\ old[t] \in Versions \ {{}}
  BY DEF Filled
<1>2. \A t \in Tokens(c, r) : x[t] \cup old[t] \in Versions \ {{}}
  BY <1>1 DEF Versions
<1>3. Through(x, old, selected) \in Filled(c, r)
  BY <1>1, <1>2 DEF Filled, Through
<1>4. Persist(old, x, selected) \in Filled(c, r)
  BY <1>1 DEF Filled, Persist
<1>5. QED
  BY <1>3, <1>4

-----------------------------------------------------------------------------
(* The steps.                                                               *)

(* A bucket of the instruction starts from what is there, wherever its      *)
(* candidates are.                                                          *)
Begun(all, w) ==
    /\ step \in 1 .. Len(case.plan) /\ Instruction.op = "CORRECT"
    /\ all \in SUBSET Buckets(case, Instruction.gid) /\ all # {}
    /\ \E place :
          w = Begin(First(all), all \ {First(all)}, Instruction.gid, Instruction.hi, place)

LEMMA BeginFacts ==
    ASSUME Safe, NEW all, NEW w, Begun(all, w)
    PROVE  /\ w # NoWork /\ w.bucket = First(all) /\ w.todo = all \ {w.bucket} /\ w.layer = 0
           /\ w.bucket \in all /\ w.bucket # {} /\ w.bucket \subseteq DOMAIN case.group
           /\ w.derived = IF Executor = "m2f" THEN NoDerived ELSE Unit(w.bucket)
           /\ \A r \in w.bucket : w.x[r] = Embedded(r, arrived) /\ w.cache[r] = cache[r]
           /\ WorkOK(case, step, w) /\ StateOK(case, w)
<1> DEFINE b == First(all)
           gid == Instruction.gid
           hi == Instruction.hi
<1>0. /\ Control /\ RowsOK /\ DerivedOK
      /\ step \in 1 .. Len(case.plan) /\ Instruction.op = "CORRECT"
      /\ all \in SUBSET Buckets(case, Instruction.gid) /\ all # {}
  BY DEF Safe, Begun
<1>1. b \in all /\ b \in Buckets(case, gid) /\ b # {} /\ b \subseteq DOMAIN case.group
  BY <1>0, FirstFacts, BucketsFacts DEF Control
<1>2. /\ hi \in 1 .. case.layers /\ Approximated(case, step) = 0 .. hi - 1
      /\ case.layers \in Nat
  BY <1>0, ApproximatedFacts, CorrectionAssumption DEF Control, Instruction
<1> HIDE DEF b, gid, hi
<1>3. PICK place : w = Begin(b, all \ {b}, gid, hi, place)
  BY DEF Begun, b, gid, hi
<1>4. /\ DOMAIN w = WorkFields
      /\ w.bucket = b /\ w.todo = all \ {b} /\ w.gid = gid /\ w.hi = hi /\ w.layer = 0
      /\ w.cands = Batch(case, b, gid) /\ w.valid = Valid(case, b, gid)
      /\ w.x = [r \in b |-> Embedded(r, arrived)]
      /\ w.cache = [r \in b |-> cache[r]]
      /\ w.derived = IF Executor = "m2f" THEN NoDerived ELSE Unit(b)
  BY <1>3 DEF Begin, WorkFields
<1>5. w # NoWork
  BY <1>1, <1>4 DEF NoWork
<1>6. WorkOK(case, step, w)
  <2>1. w.todo \subseteq Buckets(case, gid) /\ w.bucket \notin w.todo /\ w.layer \in 0 .. w.hi
    <3>1. hi \in Int /\ 0 <= hi
      BY <1>2
    <3>2. 0 \in 0 .. hi
      BY <3>1
    <3>3. all \ {b} \subseteq Buckets(case, gid) /\ b \notin all \ {b}
      BY <1>0, <1>1 DEF gid
    <3>4. QED
      BY <1>4, <3>2, <3>3
  <2>2. gid = case.plan[step].gid /\ hi = case.plan[step].hi /\ case.plan[step].op = "CORRECT"
    BY <1>0 DEF gid, hi, Instruction
  <2>3. QED
    BY <1>0, <1>1, <1>4, <2>1, <2>2 DEF WorkOK
<1>7. StateOK(case, w)
  <2>1. DOMAIN w.x = b /\ DOMAIN w.cache = b
    BY <1>4
  <2>2. ASSUME NEW r \in b
        PROVE  w.x[r] \in Filled(case, r) /\ w.cache[r] \in Entries(case, r, 0 .. w.hi - 1)
    <3>1. r \in DOMAIN case.group
      BY <1>1
    <3>2. cache[r] \in Entries(case, r, 0 .. hi - 1)
      BY <1>0, <1>2, <3>1 DEF RowsOK, RowOK
    <3>3. Embedded(r, arrived) \in Filled(case, r)
      BY <1>0, <3>1, EmbeddedType DEF Control
    <3>4. QED
      BY <1>4, <3>2, <3>3
  <2>3. DOMAIN w.derived = {"plans", "mean"} /\ PlansOK(case, b, w.derived.plans)
    <3>1. DOMAIN NoDerived = {"plans", "mean"} /\ PlansOK(case, b, NoDerived.plans)
      BY DEF NoDerived, PlansOK
    <3>2. DOMAIN Unit(b) = {"plans", "mean"} /\ PlansOK(case, b, Unit(b).plans)
      BY <1>0, <3>1 DEF DerivedOK, Unit
    <3>3. QED
      BY <1>4, <3>1, <3>2
  <2>4. QED
    BY <1>4, <2>1, <2>2, <2>3 DEF StateOK
<1>8. QED
  BY <1>1, <1>4, <1>5, <1>6, <1>7 DEF b

(* The rows of a correction in progress.                                    *)
LEMMA WorkRows ==
    ASSUME Safe, work # NoWork
    PROVE  /\ work.bucket # {} /\ work.bucket \subseteq DOMAIN case.group
           /\ work.hi \in 1 .. case.layers /\ Approximated(case, step) = 0 .. work.hi - 1
           /\ Approximated(case, step + 1) = Approximated(case, step)
           /\ work.layer \in 0 .. work.hi /\ case.layers \in Nat
           /\ DOMAIN work.cands = work.bucket
           /\ \A r \in work.bucket : /\ work.cands[r] \in Seq(Tokens(case, r))
                                     /\ ToSet(work.cands[r]) \subseteq Tokens(case, r)
<1>1. /\ work.bucket \in Buckets(case, work.gid) /\ work.cands = Batch(case, work.bucket, work.gid)
      /\ step \in 1 .. Len(case.plan) /\ case.plan[step].op = "CORRECT"
      /\ work.hi = case.plan[step].hi /\ work.layer \in 0 .. work.hi
      /\ case \in Cases
  BY DEF Safe, Control, WorkOK
<1>2. work.bucket # {} /\ work.bucket \subseteq DOMAIN case.group
  BY <1>1, BucketsFacts
<1>3. /\ work.hi \in 1 .. case.layers /\ Approximated(case, step) = 0 .. work.hi - 1
      /\ Approximated(case, step + 1) = Approximated(case, step)
  BY <1>1, ApproximatedFacts
<1>4. /\ DOMAIN work.cands = work.bucket
      /\ \A r \in work.bucket : work.cands[r] \in Seq(Tokens(case, r))
  <2> DEFINE b == work.bucket
             g == work.gid
  <2>1. case \in Cases /\ b \in SUBSET DOMAIN case.group /\ b # {}
    BY <1>1, <1>2
  <2> HIDE DEF b, g
  <2>2. DOMAIN Batch(case, b, g) = b /\ \A r \in b : Batch(case, b, g)[r] \in Seq(Tokens(case, r))
    BY <2>1, BatchType
  <2>3. QED
    BY <1>1, <2>2 DEF b, g
<1>5. \A r \in work.bucket : ToSet(work.cands[r]) \subseteq Tokens(case, r)
  <2> SUFFICES ASSUME NEW r \in work.bucket PROVE ToSet(work.cands[r]) \subseteq Tokens(case, r)
    OBVIOUS
  <2> DEFINE s == work.cands[r]
  <2>1. s \in Seq(Tokens(case, r))
    BY <1>4
  <2> HIDE DEF s
  <2>2. ToSet(s) \subseteq Tokens(case, r)
    BY <2>1 DEF ToSet
  <2>3. QED
    BY <2>2 DEF s
<1>6. QED
  BY <1>1, <1>2, <1>3, <1>4, <1>5, CorrectionAssumption

(* Select asks for the tokens before the patches and for candidates.        *)
LEMMA SelectWithin ==
    ASSUME Safe, work # NoWork, NEW over, NEW r \in work.bucket
    PROVE  /\ Select(over)[r] = Pre(case) \cup
                    Picked(case, scores, r, work.cands[r], work.valid[r], over)
           /\ Within(case, Select(over)[r], r)
           /\ Select(over)[r] \subseteq Pre(case) \cup ToSet(work.cands[r])
<1>1. Select(over)[r] = Pre(case) \cup
                Picked(case, scores, r, work.cands[r], work.valid[r], over)
  BY DEF Select
<1>2. work.cands[r] \in Seq(Tokens(case, r)) /\ ToSet(work.cands[r]) \subseteq Tokens(case, r)
  BY WorkRows
<1>3. Picked(case, scores, r, work.cands[r], work.valid[r], over) \subseteq ToSet(work.cands[r])
  BY <1>2, PickedWithin DEF Safe, Control
<1>4. Pre(case) \subseteq Tokens(case, r)
  BY DEF Tokens
<1>5. QED
  BY <1>1, <1>2, <1>3, <1>4 DEF Within

(* A plan that is found is one for these rows; one that is not found is     *)
(* made for them and kept with the others.                                  *)
LEMMA PlanFacts ==
    ASSUME Safe, work # NoWork
    PROVE  /\ \A r \in work.bucket : Within(case, Plan.selected[r], r)
           /\ DOMAIN Plan.derived = {"plans", "mean"}
           /\ PlansOK(case, work.bucket, Plan.derived.plans)
<1> DEFINE plans == work.derived.plans
           selected == Select(ScoreLayers)
           more == Put(plans, {PlanKey}, selected)
<1>1. PlansOK(case, work.bucket, plans) /\ DOMAIN work.derived = {"plans", "mean"}
  BY DEF Safe, StateOK
<1>2. \A r \in work.bucket : Within(case, selected[r], r)
  BY SelectWithin
<1> HIDE DEF plans, selected
<1>3. CASE Shareable /\ PlanKey \in DOMAIN plans
  <2>1. Plan.selected = plans[PlanKey] /\ Plan.derived.plans = plans /\ Plan.derived = work.derived
    BY <1>3 DEF Plan, plans
  <2>2. QED
    BY <1>1, <1>3, <2>1 DEF PlansOK
<1>4. CASE ~(Shareable /\ PlanKey \in DOMAIN plans)
  <2>1. /\ Plan.selected = selected
        /\ Plan.derived.plans = IF Shareable THEN more ELSE plans
        /\ DOMAIN Plan.derived = {"plans", "mean"}
    BY <1>4 DEF Plan, plans, selected
  <2>2. PlansOK(case, work.bucket, more)
    BY <1>1, <1>2 DEF PlansOK, Put
  <2> HIDE DEF more
  <2>3. QED
    BY <1>1, <1>2, <2>1, <2>2
<1>5. QED
  BY <1>3, <1>4

(* A block moves on by one layer; the rest of the work stays.               *)
LEMMA BlockFacts ==
    ASSUME Safe, CorrectBlock
    PROVE  /\ work # NoWork /\ work.layer \in 0 .. work.hi - 1
           /\ DOMAIN work' = DOMAIN work /\ work' # NoWork
           /\ work'.bucket = work.bucket /\ work'.todo = work.todo /\ work'.gid = work.gid
           /\ work'.hi = work.hi /\ work'.cands = work.cands /\ work'.valid = work.valid
           /\ work'.layer = work.layer + 1
           /\ work'.derived = Plan.derived
           /\ DOMAIN work'.x = work.bucket /\ DOMAIN work'.cache = work.bucket
           /\ \A r \in work.bucket :
                 LET l == work.layer
                     selected == Plan.selected[r]
                     old == work.cache[r]
                 IN  /\ work'.x[r] = Through(work.x[r], old.inc[l], selected)
                     /\ work'.cache[r] =
                           [inc |-> [old.inc EXCEPT ![l] = Persist(@, work.x[r], selected)],
                            kv |-> [old.kv EXCEPT ![l] = Persist(@, work.x[r], selected)]]
                     /\ chosen'[r] = Put(chosen[r], {l}, selected)
           /\ \A r \in DOMAIN case.group \ work.bucket : chosen'[r] = chosen[r]
           /\ DOMAIN chosen' = DOMAIN case.group
           /\ UNCHANGED << case, scores, step, arrived, depth, features, cache, scored, derived, kept >>
<1>1. work # NoWork /\ work.layer < work.hi
  BY DEF CorrectBlock
<1>2. /\ work.layer \in 0 .. work.hi /\ work.hi \in Int /\ DOMAIN work = WorkFields
      /\ work.bucket # {} /\ work.bucket \subseteq DOMAIN case.group
  BY <1>1, WorkRows DEF Safe, WorkOK
<1>3. PICK place :
        LET l == work.layer
            selected == Plan.selected
            old(r) == work.cache[r]
        IN  /\ work' = [work EXCEPT
                  !.layer = l + 1,
                  !.place = place,
                  !.derived = Plan.derived,
                  !.x = [r \in work.bucket |-> Through(@[r], old(r).inc[l], selected[r])],
                  !.cache = [r \in work.bucket |->
                      [inc |-> [old(r).inc EXCEPT ![l] = Persist(@, work.x[r], selected[r])],
                       kv |-> [old(r).kv EXCEPT ![l] = Persist(@, work.x[r], selected[r])]]]]
            /\ chosen' = [r \in Rows |->
                  IF r \in work.bucket THEN Put(chosen[r], {l}, selected[r]) ELSE chosen[r]]
  BY DEF CorrectBlock
<1> DEFINE l == work.layer
           P == Plan
           sel(r) == P.selected[r]
           X == [r \in work.bucket |-> Through(work.x[r], work.cache[r].inc[l], sel(r))]
           C == [r \in work.bucket |->
                   [inc |-> [work.cache[r].inc EXCEPT ![l] = Persist(@, work.x[r], sel(r))],
                    kv |-> [work.cache[r].kv EXCEPT ![l] = Persist(@, work.x[r], sel(r))]]]
<1>4. /\ work' = [work EXCEPT !.layer = l + 1, !.place = place, !.derived = P.derived, !.x = X, !.cache = C]
      /\ chosen' = [r \in DOMAIN case.group |->
                      IF r \in work.bucket THEN Put(chosen[r], {l}, sel(r)) ELSE chosen[r]]
  BY <1>3 DEF Rows
<1>5. UNCHANGED << case, scores, step, arrived, depth, features, cache, scored, derived, kept >>
  BY DEF CorrectBlock
<1> HIDE DEF P, X, C
<1>6. /\ DOMAIN work' = DOMAIN work
      /\ work'.bucket = work.bucket /\ work'.todo = work.todo /\ work'.gid = work.gid
      /\ work'.hi = work.hi /\ work'.cands = work.cands /\ work'.valid = work.valid
      /\ work'.layer = l + 1 /\ work'.derived = P.derived /\ work'.x = X /\ work'.cache = C
  BY <1>2, <1>4 DEF WorkFields
<1>7. work' # NoWork
  BY <1>2, <1>6 DEF NoWork
<1>8. DOMAIN X = work.bucket /\ DOMAIN C = work.bucket
  BY DEF X, C
<1>9. ASSUME NEW r \in work.bucket
      PROVE  /\ X[r] = Through(work.x[r], work.cache[r].inc[l], sel(r))
             /\ C[r] = [inc |-> [work.cache[r].inc EXCEPT ![l] = Persist(@, work.x[r], sel(r))],
                        kv |-> [work.cache[r].kv EXCEPT ![l] = Persist(@, work.x[r], sel(r))]]
             /\ chosen'[r] = Put(chosen[r], {l}, sel(r))
  <2>1. r \in DOMAIN case.group
    BY <1>2
  <2>2. QED
    BY <1>4, <2>1 DEF X, C
<1>10. (\A r \in DOMAIN case.group \ work.bucket : chosen'[r] = chosen[r])
       /\ DOMAIN chosen' = DOMAIN case.group
  BY <1>4
<1>11. l \in 0 .. work.hi - 1
  BY <1>1, <1>2
<1>12. QED
  BY <1>1, <1>5, <1>6, <1>7, <1>8, <1>9, <1>10, <1>11 DEF P

(* At first nothing has been computed.                                      *)
LEMMA InitSafe == Init => Safe
<1> SUFFICES ASSUME Init PROVE Safe
  OBVIOUS
<1>1. /\ case \in Cases /\ step = 1 /\ depth = 0 /\ scored = {} /\ derived = << >> /\ work = NoWork
      /\ features = [r \in DOMAIN case.group |-> [t \in Tokens(case, r) |-> {}]]
      /\ cache = [r \in DOMAIN case.group |-> [inc |-> << >>, kv |-> << >>]]
      /\ chosen = [r \in DOMAIN case.group |-> << >>]
      /\ kept = [r \in DOMAIN case.group |-> {}]
  BY DEF Init, Rows
<1>2. Approximated(case, 1) = {}
  BY <1>1, ApproximatedFacts
<1>3. Len(case.plan) \in Nat /\ case.layers \in Nat
  BY <1>1, CorrectionAssumption
<1>4. Control
  BY <1>1, <1>3 DEF Control
<1>5. RowsOK
  <2> SUFFICES ASSUME NEW r \in DOMAIN case.group
               PROVE  RowOK(case, r, {}, features[r], cache[r], chosen[r], kept[r])
    BY <1>1, <1>2 DEF RowsOK
  <2>1. features[r] \in [Tokens(case, r) -> Versions]
    BY <1>1 DEF Versions
  <2>2. cache[r] \in Entries(case, r, {})
    <3>1. << >> \in [{} -> Filled(case, r)]
      <4>1. DOMAIN << >> = {}
        OBVIOUS
      <4>2. QED
        BY <4>1
    <3>2. cache[r] = [inc |-> << >>, kv |-> << >>]
      BY <1>1
    <3>3. QED
      BY <3>1, <3>2 DEF Entries
  <2>3. DOMAIN chosen[r] = {} /\ kept[r] = {}
    BY <1>1
  <2>4. QED
    BY <2>1, <2>2, <2>3 DEF RowOK
<1>6. DerivedOK
  BY <1>1 DEF DerivedOK
<1>7. WorkOK(case, step, work) /\ StateOK(case, work) /\ ChosenOK(case, work, chosen)
  BY <1>1 DEF WorkOK, StateOK, ChosenOK
<1>8. QED
  BY <1>4, <1>5, <1>6, <1>7 DEF Safe

(* Loading changes no more than the tokens VGGT starts from.                *)
LEMMA LoadSafe == Safe /\ Load => Safe'
<1> SUFFICES ASSUME Safe, Load PROVE Safe'
  OBVIOUS
<1>1. /\ work = NoWork /\ step \in 1 .. Len(case.plan) /\ case.plan[step].op = "LOAD"
      /\ step' = step + 1 /\ work' = work /\ case' = case /\ cache' = cache /\ scored' = scored
      /\ derived' = derived /\ chosen' = chosen /\ kept' = kept
      /\ \/ depth' = 0 /\ features' = [r \in DOMAIN case.group |-> Embedded(r, arrived')]
         \/ depth' = depth /\ features' = features
      /\ case \in Cases /\ Len(case.plan) \in Nat /\ case.layers \in Nat
  <2>1. case \in Cases /\ step \in 1 .. Len(case.plan) + 1
    BY DEF Safe, Control
  <2>2. Len(case.plan) \in Nat /\ case.layers \in Nat
    BY <2>1, CorrectionAssumption
  <2>3. /\ work = NoWork /\ step <= Len(case.plan) /\ case.plan[step].op = "LOAD"
        /\ step' = step + 1 /\ case' = case /\ cache' = cache /\ scored' = scored
        /\ derived' = derived /\ passVars' = passVars
    BY DEF Load, Ready, Instruction
  <2>4. \/ depth' = 0 /\ features' = [r \in DOMAIN case.group |-> Embedded(r, arrived')]
        \/ depth' = depth /\ features' = features
    BY DEF Load, Rows
  <2>5. work' = work /\ chosen' = chosen /\ kept' = kept
    BY <2>3 DEF passVars
  <2>6. QED
    BY <2>1, <2>2, <2>3, <2>4, <2>5
<1>2. Approximated(case, step + 1) = Approximated(case, step)
  BY <1>1, ApproximatedFacts
<1>3. Control'
  BY <1>1 DEF Safe, Control
<1>4. RowsOK'
  <2> SUFFICES ASSUME NEW r \in DOMAIN case.group
               PROVE  RowOK(case, r, Approximated(case, step), features'[r], cache[r], chosen[r], kept[r])
    BY <1>1, <1>2 DEF RowsOK
  <2>1. RowOK(case, r, Approximated(case, step), features[r], cache[r], chosen[r], kept[r])
    BY DEF Safe, RowsOK
  <2>2. features'[r] = features[r] \/ features'[r] \in Filled(case, r)
    BY <1>1, EmbeddedType
  <2>3. Filled(case, r) \subseteq [Tokens(case, r) -> Versions]
    BY DEF Filled
  <2>4. QED
    BY <2>1, <2>2, <2>3 DEF RowOK
<1>5. DerivedOK'
  BY <1>1 DEF Safe, DerivedOK
<1>6. (WorkOK(case, step, work) /\ StateOK(case, work) /\ ChosenOK(case, work, chosen))'
  BY <1>1 DEF WorkOK, StateOK, ChosenOK
<1>7. QED
  BY <1>3, <1>4, <1>5, <1>6 DEF Safe

(* An approximation fills its layers and forgets the plans.                 *)
LEMMA ApproxSafe == Safe /\ Approx => Safe'
<1> SUFFICES ASSUME Safe, Approx PROVE Safe'
  OBVIOUS
<1> DEFINE lo == Instruction.lo
           hi == Instruction.hi
           new == lo .. hi - 1
           from == IF lo = 0 THEN [r \in Rows |-> Embedded(r, arrived)] ELSE features
<1>1. /\ work = NoWork /\ step \in 1 .. Len(case.plan) /\ case.plan[step].op = "APPROX"
      /\ case \in Cases /\ Len(case.plan) \in Nat /\ case.layers \in Nat
  <2>1. case \in Cases /\ step \in 1 .. Len(case.plan) + 1
    BY DEF Safe, Control
  <2>2. Len(case.plan) \in Nat /\ case.layers \in Nat
    BY <2>1, CorrectionAssumption
  <2>3. QED
    BY <2>1, <2>2 DEF Approx, Ready, Instruction
<1>2. /\ step' = step + 1 /\ work' = work /\ case' = case /\ depth' = hi
      /\ derived' = Invalidate(derived) /\ chosen' = chosen /\ kept' = kept
      /\ features' = from
      /\ cache' = [r \in DOMAIN case.group |-> [inc |-> Put(cache[r].inc, new, from[r]),
                                                kv |-> Put(cache[r].kv, new, from[r])]]
      /\ scored' = scored \/ scored' = scored \cup new
  BY DEF Approx, passVars, Rows
<1>3. /\ hi \in 1 .. case.layers /\ lo \in 0 .. hi - 1
      /\ Approximated(case, step) = 0 .. lo - 1 /\ Approximated(case, step + 1) = 0 .. hi - 1
  BY <1>1, ApproximatedFacts DEF Instruction
<1>4. new \cup (0 .. lo - 1) = 0 .. hi - 1 /\ new \subseteq 0 .. case.layers - 1
  <2> HIDE DEF lo, hi
  <2>1. QED
    BY <1>1, <1>3
<1>5. ASSUME NEW r \in DOMAIN case.group PROVE from[r] \in Filled(case, r)
  <2>1. CASE lo = 0
    <3>1. from[r] = Embedded(r, arrived)
      BY <2>1 DEF Rows
    <3>2. QED
      BY <1>1, <3>1, EmbeddedType
  <2>2. CASE lo # 0
    <3>1. 0 \in Approximated(case, step)
      <4> HIDE DEF lo, hi
      <4>1. QED
        BY <1>1, <1>3, <2>2
    <3>2. RowOK(case, r, Approximated(case, step), features[r], cache[r], chosen[r], kept[r])
      BY DEF Safe, RowsOK
    <3>3. QED
      BY <2>2, <3>1, <3>2 DEF RowOK
  <2>3. QED
    BY <2>1, <2>2
<1> HIDE DEF new, from, lo, hi
<1>6. Control'
  <2>1. hi \in 0 .. case.layers
    BY <1>1, <1>3
  <2>2. DOMAIN features' = DOMAIN case.group
    BY <1>2 DEF Safe, Control, from, Rows
  <2>3. step + 1 \in 1 .. Len(case.plan) + 1
    BY <1>1
  <2>4. scored' \subseteq 0 .. case.layers - 1
    BY <1>2, <1>4 DEF Safe, Control
  <2>5. QED
    BY <1>2, <2>1, <2>2, <2>3, <2>4 DEF Safe, Control
<1>7. RowsOK'
  <2> SUFFICES ASSUME NEW r \in DOMAIN case.group
               PROVE  RowOK(case, r, 0 .. hi - 1, features'[r], cache'[r], chosen[r], kept[r])
    BY <1>2, <1>3 DEF RowsOK
  <2>1. RowOK(case, r, 0 .. lo - 1, features[r], cache[r], chosen[r], kept[r])
    BY <1>3 DEF Safe, RowsOK
  <2>2. from[r] \in Filled(case, r) /\ from[r] \in [Tokens(case, r) -> Versions]
    BY <1>5 DEF Filled
  <2>3. ASSUME NEW f \in [0 .. lo - 1 -> Filled(case, r)]
        PROVE  Put(f, new, from[r]) \in [0 .. hi - 1 -> Filled(case, r)]
    <3>1. new \cup DOMAIN f = 0 .. hi - 1
      BY <1>4
    <3>2. QED
      BY <1>5, <3>1 DEF Put
  <2>4. cache'[r] \in Entries(case, r, 0 .. hi - 1)
    <3>1. cache[r].inc \in [0 .. lo - 1 -> Filled(case, r)]
          /\ cache[r].kv \in [0 .. lo - 1 -> Filled(case, r)]
      BY <2>1 DEF RowOK, Entries
    <3>2. cache'[r] = [inc |-> Put(cache[r].inc, new, from[r]), kv |-> Put(cache[r].kv, new, from[r])]
      BY <1>2
    <3>3. QED
      BY <2>3, <3>1, <3>2 DEF Entries
  <2>5. features'[r] = from[r]
    BY <1>2
  <2>6. QED
    BY <2>1, <2>2, <2>4, <2>5 DEF RowOK
<1>8. DerivedOK'
  <2>1. ASSUME NEW u \in DOMAIN derived' PROVE /\ DOMAIN derived'[u] = {"plans", "mean"}
                                               /\ PlansOK(case, u, derived'[u].plans)
    <3>1. derived'[u] = [derived[u] EXCEPT !.plans = << >>] /\ u \in DOMAIN derived
      BY <1>2, <2>1 DEF Invalidate
    <3>2. DOMAIN derived[u] = {"plans", "mean"}
      BY <3>1 DEF Safe, DerivedOK
    <3>3. derived'[u].plans = << >>
      BY <3>1, <3>2
    <3>4. QED
      BY <3>1, <3>2, <3>3 DEF PlansOK
  <2>2. QED
    BY <1>2, <2>1 DEF DerivedOK
<1>9. (WorkOK(case, step, work) /\ StateOK(case, work) /\ ChosenOK(case, work, chosen))'
  BY <1>1, <1>2 DEF WorkOK, StateOK, ChosenOK
<1>10. QED
  BY <1>6, <1>7, <1>8, <1>9 DEF Safe

(* A correction starts with a bucket, or is over if there is none.          *)
LEMMA StartFacts ==
    ASSUME StartCorrect
    PROVE  /\ UNCHANGED << case, scores, arrived, features, cache, scored, derived, kept >>
           /\ chosen' = [r \in DOMAIN case.group |-> << >>]
           /\ LET all == Buckets(case, Instruction.gid)
              IN  \E place :
                     \/ work' = work /\ step' = step + 1 /\ depth' = Instruction.hi
                     \/ /\ all # {} /\ step' = step /\ depth' = depth
                        /\ work' = Begin(First(all), all \ {First(all)}, Instruction.gid,
                                         Instruction.hi, place)
<1>1. /\ UNCHANGED << case, scores, arrived, features, cache, scored, derived, kept >>
      /\ chosen' = [r \in DOMAIN case.group |-> << >>]
  BY DEF StartCorrect, Rows
<1> DEFINE all == Buckets(case, Instruction.gid)
<1>2. CASE all = {}
  BY <1>1, <1>2 DEF StartCorrect
<1>3. CASE all # {}
  <2>1. /\ step' = step /\ depth' = depth
        /\ \E place \in Places(First(all), Instruction.gid) :
              work' = Begin(First(all), all \ {First(all)}, Instruction.gid, Instruction.hi, place)
    BY <1>3 DEF StartCorrect
  <2>2. QED
    BY <1>1, <1>3, <2>1
<1>4. QED
  BY <1>2, <1>3

(* It keeps what it starts from.                                            *)
LEMMA StartSafe == Safe /\ StartCorrect => Safe'
<1> SUFFICES ASSUME Safe, StartCorrect PROVE Safe'
  OBVIOUS
<1>1. /\ work = NoWork /\ step \in 1 .. Len(case.plan) /\ Instruction.op = "CORRECT"
      /\ case \in Cases /\ Len(case.plan) \in Nat /\ case.layers \in Nat
  <2>1. case \in Cases /\ step \in 1 .. Len(case.plan) + 1
    BY DEF Safe, Control
  <2>2. Len(case.plan) \in Nat /\ case.layers \in Nat
    BY <2>1, CorrectionAssumption
  <2>3. QED
    BY <2>1, <2>2 DEF StartCorrect, Ready
<1> DEFINE all == Buckets(case, Instruction.gid)
<1>2. PICK place :
         /\ case' = case /\ scored' = scored /\ features' = features /\ cache' = cache
         /\ derived' = derived /\ kept' = kept
         /\ chosen' = [r \in DOMAIN case.group |-> << >>]
         /\ \/ work' = work /\ step' = step + 1 /\ depth' = Instruction.hi
            \/ /\ all # {} /\ step' = step /\ depth' = depth
               /\ work' = Begin(First(all), all \ {First(all)}, Instruction.gid, Instruction.hi, place)
  BY StartFacts
<1>3. /\ Instruction.hi \in 1 .. case.layers
      /\ Approximated(case, step + 1) = Approximated(case, step)
  BY <1>1, ApproximatedFacts DEF Instruction
<1>4. Control'
  <2>1. Instruction.hi \in 0 .. case.layers
    BY <1>1, <1>3
  <2>2. step + 1 \in 1 .. Len(case.plan) + 1 /\ step \in 1 .. Len(case.plan) + 1
    BY <1>1
  <2>3. (step' = step \/ step' = step + 1) /\ (depth' = depth \/ depth' = Instruction.hi)
    BY <1>2
  <2>4. DOMAIN chosen' = DOMAIN case.group
    BY <1>2
  <2>5. QED
    BY <1>2, <2>1, <2>2, <2>3, <2>4 DEF Safe, Control
<1>5. RowsOK'
  <2>1. Approximated(case', step') = Approximated(case, step)
    BY <1>2, <1>3
  <2>2. ASSUME NEW r \in DOMAIN case.group
        PROVE  RowOK(case, r, Approximated(case, step), features[r], cache[r], chosen'[r], kept[r])
    <3>1. RowOK(case, r, Approximated(case, step), features[r], cache[r], chosen[r], kept[r])
      BY DEF Safe, RowsOK
    <3>2. DOMAIN chosen'[r] = {}
      BY <1>2
    <3>3. QED
      BY <3>1, <3>2 DEF RowOK
  <2>3. QED
    BY <1>2, <2>1, <2>2 DEF RowsOK
<1>6. DerivedOK'
  BY <1>2 DEF Safe, DerivedOK
<1> HIDE DEF all
<1>7. CASE work' = work
  BY <1>1, <1>4, <1>5, <1>6, <1>7 DEF Safe, WorkOK, StateOK, ChosenOK
<1>8. CASE /\ all # {} /\ step' = step
           /\ work' = Begin(First(all), all \ {First(all)}, Instruction.gid, Instruction.hi, place)
  <2> DEFINE w == Begin(First(all), all \ {First(all)}, Instruction.gid, Instruction.hi, place)
  <2>0. Begun(all, w)
    BY <1>1, <1>8 DEF all, Begun
  <2> HIDE DEF w
  <2>1. /\ w.bucket \in all /\ w.bucket \subseteq DOMAIN case.group
        /\ w.todo = all \ {w.bucket} /\ w.layer = 0
        /\ WorkOK(case, step, w) /\ StateOK(case, w)
    BY <2>0, BeginFacts
  <2>2. work' = w
    BY <1>8 DEF w
  <2>3. ChosenOK(case, w, chosen')
    <3>1. \A r \in DOMAIN case.group : DOMAIN chosen'[r] = {}
      BY <1>2
    <3>2. \A b \in all : b \subseteq DOMAIN case.group
      BY <1>1, BucketsFacts DEF all
    <3>3. 0 .. w.layer - 1 = {}
      BY <2>1
    <3>4. QED
      BY <2>1, <3>1, <3>2, <3>3 DEF ChosenOK
  <2>4. QED
    BY <1>2, <1>4, <1>5, <1>6, <1>8, <2>1, <2>2, <2>3 DEF Safe
<1>9. QED
  BY <1>2, <1>7, <1>8

(* A block fills what it stores and adds its layer to what is recomputed.   *)
LEMMA BlockSafe == Safe /\ CorrectBlock => Safe'
<1> SUFFICES ASSUME Safe, CorrectBlock PROVE Safe'
  OBVIOUS
<1>1. /\ work # NoWork /\ work.layer \in 0 .. work.hi - 1
      /\ DOMAIN chosen' = DOMAIN case.group
      /\ case' = case /\ step' = step /\ depth' = depth /\ features' = features
      /\ cache' = cache /\ scored' = scored /\ derived' = derived /\ kept' = kept
  BY BlockFacts
<1> DEFINE l == work.layer
           sel(r) == Plan.selected[r]
<1>2. /\ DOMAIN work' = DOMAIN work /\ work' # NoWork
      /\ work'.bucket = work.bucket /\ work'.todo = work.todo /\ work'.gid = work.gid
      /\ work'.hi = work.hi /\ work'.cands = work.cands /\ work'.valid = work.valid
      /\ work'.layer = l + 1 /\ work'.derived = Plan.derived
      /\ DOMAIN work'.x = work.bucket /\ DOMAIN work'.cache = work.bucket
      /\ \A r \in work.bucket :
            /\ work'.x[r] = Through(work.x[r], work.cache[r].inc[l], sel(r))
            /\ work'.cache[r] =
                  [inc |-> [work.cache[r].inc EXCEPT ![l] = Persist(@, work.x[r], sel(r))],
                   kv |-> [work.cache[r].kv EXCEPT ![l] = Persist(@, work.x[r], sel(r))]]
            /\ chosen'[r] = Put(chosen[r], {l}, sel(r))
      /\ \A r \in DOMAIN case.group \ work.bucket : chosen'[r] = chosen[r]
  BY BlockFacts
<1>3. /\ \A r \in work.bucket : Within(case, sel(r), r)
      /\ DOMAIN Plan.derived = {"plans", "mean"}
      /\ PlansOK(case, work.bucket, Plan.derived.plans)
  BY <1>1, PlanFacts
<1> HIDE DEF sel
<1>4. /\ work.bucket # {} /\ work.bucket \subseteq DOMAIN case.group
      /\ work.hi \in 1 .. case.layers /\ case.layers \in Nat
  BY <1>1, WorkRows
<1>5. Control'
  BY <1>1 DEF Safe, Control
<1>6. RowsOK'
  <2> SUFFICES ASSUME NEW r \in DOMAIN case.group
               PROVE  RowOK(case, r, Approximated(case, step), features[r], cache[r], chosen'[r], kept[r])
    BY <1>1 DEF RowsOK
  <2>1. RowOK(case, r, Approximated(case, step), features[r], cache[r], chosen[r], kept[r])
    BY DEF Safe, RowsOK
  <2>2. CASE r \notin work.bucket
    BY <1>2, <2>1, <2>2
  <2>3. CASE r \in work.bucket
    <3>1. chosen'[r] = Put(chosen[r], {l}, sel(r))
      BY <1>2, <2>3
    <3>2. Pre(case) \subseteq sel(r) /\ sel(r) \subseteq Tokens(case, r)
      BY <1>3, <2>3 DEF Within
    <3>3. \A m \in DOMAIN chosen'[r] :
             Pre(case) \subseteq chosen'[r][m] /\ chosen'[r][m] \subseteq Tokens(case, r)
      BY <2>1, <3>1, <3>2 DEF Put, RowOK
    <3>4. QED
      BY <2>1, <3>3 DEF RowOK
  <2>4. QED
    BY <2>2, <2>3
<1>7. DerivedOK'
  BY <1>1 DEF Safe, DerivedOK
<1>8. WorkOK(case, step, work)'
  <2>1. WorkOK(case, step, work)
    BY DEF Safe
  <2>2. work'.layer \in 0 .. work.hi
    BY <1>1, <1>2, <1>4
  <2>3. WorkOK(case, step, work')
    BY <1>1, <1>2, <2>1, <2>2 DEF WorkOK
  <2>4. QED
    BY <1>1, <2>3
<1>9. StateOK(case, work)'
  <2>1. ASSUME NEW r \in work.bucket
        PROVE  /\ work'.x[r] \in Filled(case, r)
               /\ work'.cache[r] \in Entries(case, r, 0 .. work.hi - 1)
    <3>1. /\ work.x[r] \in Filled(case, r)
          /\ work.cache[r] \in Entries(case, r, 0 .. work.hi - 1)
      BY <1>1 DEF Safe, StateOK
    <3>2. /\ work.cache[r].inc \in [0 .. work.hi - 1 -> Filled(case, r)]
          /\ work.cache[r].kv \in [0 .. work.hi - 1 -> Filled(case, r)]
      BY <3>1 DEF Entries
    <3>3. /\ work.cache[r].inc[l] \in Filled(case, r)
          /\ work.cache[r].kv[l] \in Filled(case, r)
      BY <1>1, <3>2
    <3>4. /\ Through(work.x[r], work.cache[r].inc[l], sel(r)) \in Filled(case, r)
          /\ Persist(work.cache[r].inc[l], work.x[r], sel(r)) \in Filled(case, r)
          /\ Persist(work.cache[r].kv[l], work.x[r], sel(r)) \in Filled(case, r)
      BY <3>1, <3>3, BlockType
    <3>5. work'.x[r] \in Filled(case, r)
      BY <1>2, <3>4
    <3>6. /\ [work.cache[r].inc EXCEPT ![l] = Persist(@, work.x[r], sel(r))]
               \in [0 .. work.hi - 1 -> Filled(case, r)]
          /\ [work.cache[r].kv EXCEPT ![l] = Persist(@, work.x[r], sel(r))]
               \in [0 .. work.hi - 1 -> Filled(case, r)]
      BY <3>2, <3>4
    <3> DEFINE A == [work.cache[r].inc EXCEPT ![l] = Persist(@, work.x[r], sel(r))]
               B == [work.cache[r].kv EXCEPT ![l] = Persist(@, work.x[r], sel(r))]
    <3>7. work'.cache[r] = [inc |-> A, kv |-> B]
      BY <1>2
    <3>8. A \in [0 .. work.hi - 1 -> Filled(case, r)] /\ B \in [0 .. work.hi - 1 -> Filled(case, r)]
      BY <3>6
    <3> HIDE DEF A, B
    <3>9. QED
      BY <3>5, <3>7, <3>8 DEF Entries
  <2>2. StateOK(case, work')
    BY <1>2, <1>3, <2>1 DEF StateOK
  <2>3. QED
    BY <1>1, <2>2
<1>10. ChosenOK(case, work, chosen)'
  <2>1. ChosenOK(case, work, chosen)
    BY DEF Safe
  <2>2. ASSUME NEW r \in work.bucket
        PROVE  /\ DOMAIN chosen'[r] = 0 .. l
               /\ \A m \in 0 .. l : Within(case, chosen'[r][m], r)
    <3>1. DOMAIN chosen[r] = 0 .. l - 1 /\ l \in Nat
      BY <1>1, <1>4, <2>1 DEF ChosenOK
    <3>2. {l} \cup (0 .. l - 1) = 0 .. l
      <4> HIDE DEF l
      <4>1. QED
        BY <3>1
    <3>3. chosen'[r] = Put(chosen[r], {l}, sel(r))
      BY <1>2
    <3>4. DOMAIN chosen'[r] = 0 .. l
      BY <3>1, <3>2, <3>3 DEF Put
    <3>5. ASSUME NEW m \in 0 .. l PROVE Within(case, chosen'[r][m], r)
      <4>1. CASE m = l
        <5>1. chosen'[r][m] = sel(r)
          BY <3>1, <3>2, <3>3, <4>1 DEF Put
        <5>2. QED
          BY <1>3, <5>1
      <4>2. CASE m # l
        <5>1. m \in 0 .. l - 1
          BY <3>2, <4>2
        <5>2. chosen'[r][m] = chosen[r][m]
          BY <3>1, <3>2, <3>3, <4>2, <5>1 DEF Put
        <5>3. QED
          BY <1>1, <2>1, <5>1, <5>2 DEF ChosenOK
      <4>3. QED
        BY <4>1, <4>2
    <3>6. QED
      BY <3>4, <3>5
  <2>3. ASSUME NEW b \in work.todo, NEW r \in b PROVE DOMAIN chosen'[r] = {}
    <3>1. /\ b \in Buckets(case, work.gid) /\ work.bucket \in Buckets(case, work.gid)
          /\ b # work.bucket /\ case \in Cases
      BY <1>1 DEF Safe, Control, WorkOK
    <3>2. b \cap work.bucket = {} /\ b \subseteq DOMAIN case.group
      BY <3>1, BucketsFacts
    <3>3. chosen'[r] = chosen[r]
      BY <1>2, <3>2
    <3>4. QED
      BY <1>1, <2>1, <3>3 DEF ChosenOK
  <2>4. work'.layer - 1 = l
    BY <1>1, <1>2, <1>4
  <2>5. ChosenOK(case, work', chosen')
    BY <1>2, <2>2, <2>3, <2>4 DEF ChosenOK
  <2>6. QED
    BY <1>1, <2>5
<1>11. QED
  BY <1>5, <1>6, <1>7, <1>8, <1>9, <1>10 DEF Safe

(* What the end of a bucket leaves.                                         *)
LEMMA FinishFacts ==
    ASSUME Safe, FinishBucket
    PROVE  /\ work # NoWork /\ work.layer = work.hi
           /\ case' = case /\ scores' = scores /\ arrived' = arrived /\ scored' = scored
           /\ chosen' = chosen
           /\ DOMAIN features' = DOMAIN case.group /\ DOMAIN cache' = DOMAIN case.group
           /\ DOMAIN kept' = DOMAIN case.group
           /\ \A r \in DOMAIN case.group \ work.bucket :
                 features'[r] = features[r] /\ cache'[r] = cache[r] /\ kept'[r] = kept[r]
           /\ \A r \in work.bucket :
                 /\ features'[r] = Merge(r)
                 /\ cache'[r] = [inc |-> work.cache[r].inc, kv |-> work.cache[r].kv]
                 /\ kept'[r] = kept[r] \cup
                       {t \in Patches(case, r) :
                           /\ case.sent[r][t] \in arrived
                           /\ \A l \in 0 .. work.hi - 1 : t \in chosen[r][l]}
           /\ derived' = IF Executor = "m2f" THEN derived
                         ELSE Put(derived, {work.bucket}, work.derived)
           /\ \E place :
                 \/ work.todo = {} /\ work' = NoWork /\ step' = step + 1 /\ depth' = work.hi
                 \/ /\ work.todo # {} /\ step' = step /\ depth' = depth
                    /\ work' = Begin(First(work.todo), work.todo \ {First(work.todo)},
                                     work.gid, work.hi, place)
<1>1. /\ work # NoWork /\ work.layer = work.hi
      /\ case' = case /\ scores' = scores /\ arrived' = arrived /\ scored' = scored
      /\ chosen' = chosen
      /\ features' = [r \in Rows |-> IF r \in work.bucket THEN Merge(r) ELSE features[r]]
      /\ cache' = [r \in Rows |->
             IF r \in work.bucket THEN Scatter(cache[r], work.cache[r]) ELSE cache[r]]
      /\ derived' = IF Executor = "m2f" THEN derived
                    ELSE Put(derived, {work.bucket}, work.derived)
      /\ kept' = [r \in Rows |->
             IF r \in work.bucket
             THEN kept[r] \cup {t \in Patches(case, r) :
                     /\ case.sent[r][t] \in arrived
                     /\ \A l \in 0 .. work.hi - 1 : t \in chosen[r][l]}
             ELSE kept[r]]
  BY DEF FinishBucket
<1>2. \E place :
         \/ work.todo = {} /\ work' = NoWork /\ step' = step + 1 /\ depth' = work.hi
         \/ /\ work.todo # {} /\ step' = step /\ depth' = depth
            /\ work' = Begin(First(work.todo), work.todo \ {First(work.todo)}, work.gid, work.hi, place)
  <2>1. CASE work.todo = {}
    BY <2>1 DEF FinishBucket
  <2>2. CASE work.todo # {}
    <3>1. /\ step' = step /\ depth' = depth
          /\ \E place \in Places(First(work.todo), work.gid) :
                work' = Begin(First(work.todo), work.todo \ {First(work.todo)},
                              work.gid, work.hi, place)
      BY <2>2 DEF FinishBucket
    <3>2. QED
      BY <2>2, <3>1
  <2>3. QED
    BY <2>1, <2>2
<1>3. work.bucket \subseteq DOMAIN case.group
  BY <1>1, WorkRows
<1>4. \A r \in work.bucket :
         Scatter(cache[r], work.cache[r]) = [inc |-> work.cache[r].inc, kv |-> work.cache[r].kv]
  BY DEF Scatter
<1>5. QED
  BY <1>1, <1>2, <1>3, <1>4 DEF Rows

(* A bucket that is finished leaves filled features and layers.             *)
LEMMA FinishSafe == Safe /\ FinishBucket => Safe'
<1> SUFFICES ASSUME Safe, FinishBucket PROVE Safe'
  OBVIOUS
<1>1. PICK place :
         /\ work # NoWork /\ work.layer = work.hi
         /\ case' = case /\ scores' = scores /\ arrived' = arrived /\ scored' = scored
         /\ chosen' = chosen
         /\ DOMAIN features' = DOMAIN case.group /\ DOMAIN cache' = DOMAIN case.group
         /\ DOMAIN kept' = DOMAIN case.group
         /\ derived' = IF Executor = "m2f" THEN derived
                       ELSE Put(derived, {work.bucket}, work.derived)
         /\ \/ work.todo = {} /\ work' = NoWork /\ step' = step + 1 /\ depth' = work.hi
            \/ /\ work.todo # {} /\ step' = step /\ depth' = depth
               /\ work' = Begin(First(work.todo), work.todo \ {First(work.todo)}, work.gid, work.hi, place)
  BY FinishFacts
<1>2. /\ \A r \in DOMAIN case.group \ work.bucket :
            features'[r] = features[r] /\ cache'[r] = cache[r] /\ kept'[r] = kept[r]
      /\ \A r \in work.bucket :
            /\ features'[r] = Merge(r)
            /\ cache'[r] = [inc |-> work.cache[r].inc, kv |-> work.cache[r].kv]
            /\ kept'[r] \subseteq kept[r] \cup Patches(case, r)
  BY FinishFacts
<1>3. /\ work.bucket # {} /\ work.bucket \subseteq DOMAIN case.group
      /\ work.hi \in 1 .. case.layers /\ Approximated(case, step) = 0 .. work.hi - 1
      /\ Approximated(case, step + 1) = Approximated(case, step)
      /\ case.layers \in Nat
  BY <1>1, WorkRows
<1>4. /\ step \in 1 .. Len(case.plan) /\ Instruction.op = "CORRECT"
      /\ work.gid = Instruction.gid /\ work.hi = Instruction.hi
      /\ work.todo \subseteq Buckets(case, work.gid) /\ work.bucket \in Buckets(case, work.gid)
      /\ work.bucket \notin work.todo /\ case \in Cases /\ Len(case.plan) \in Nat
  <2>1. case \in Cases
    BY DEF Safe, Control
  <2>2. Len(case.plan) \in Nat
    BY <2>1, CorrectionAssumption
  <2>3. QED
    BY <1>1, <2>1, <2>2 DEF Safe, WorkOK, Instruction
<1>5. Control'
  <2>1. step + 1 \in 1 .. Len(case.plan) + 1 /\ work.hi \in 0 .. case.layers
    BY <1>3, <1>4
  <2>2. (step' = step \/ step' = step + 1) /\ (depth' = depth \/ depth' = work.hi)
    BY <1>1
  <2>3. QED
    BY <1>1, <2>1, <2>2 DEF Safe, Control
<1>6. RowsOK'
  <2>1. Approximated(case', step') = 0 .. work.hi - 1
    BY <1>1, <1>3
  <2>2. ASSUME NEW r \in DOMAIN case.group
        PROVE  RowOK(case, r, 0 .. work.hi - 1, features'[r], cache'[r], chosen[r], kept'[r])
    <3>1. RowOK(case, r, 0 .. work.hi - 1, features[r], cache[r], chosen[r], kept[r])
      BY <1>3 DEF Safe, RowsOK
    <3>2. CASE r \notin work.bucket
      BY <1>2, <3>1, <3>2
    <3>3. CASE r \in work.bucket
      <4>1. /\ work.x[r] \in Filled(case, r)
            /\ work.cache[r] \in Entries(case, r, 0 .. work.hi - 1)
        BY <1>1, <3>3 DEF Safe, StateOK
      <4>2. features[r] \in Filled(case, r)
        <5>1. 0 .. work.hi - 1 # {}
          <6>1. 0 \in 0 .. work.hi - 1
            BY <1>3
          <6>2. QED
            BY <6>1
        <5>2. QED
          BY <3>1, <5>1 DEF RowOK
      <4>3. Merge(r) \in Filled(case, r)
        BY <4>1, <4>2 DEF Merge, Filled
      <4>4. cache'[r] \in Entries(case, r, 0 .. work.hi - 1)
        BY <1>2, <3>3, <4>1 DEF Entries
      <4>5. kept'[r] \subseteq Patches(case, r)
        BY <1>2, <3>1, <3>3 DEF RowOK
      <4>6. Filled(case, r) \subseteq [Tokens(case, r) -> Versions]
        BY DEF Filled
      <4>7. QED
        BY <1>2, <3>1, <3>3, <4>3, <4>4, <4>5, <4>6 DEF RowOK
    <3>4. QED
      BY <3>2, <3>3
  <2>3. QED
    BY <1>1, <2>1, <2>2 DEF RowsOK
<1>7. DerivedOK'
  <2>1. DOMAIN work.derived = {"plans", "mean"} /\ PlansOK(case, work.bucket, work.derived.plans)
    BY <1>1 DEF Safe, StateOK
  <2>2. ASSUME NEW u \in DOMAIN derived'
        PROVE  DOMAIN derived'[u] = {"plans", "mean"} /\ PlansOK(case, u, derived'[u].plans)
    <3>1. \/ u \in DOMAIN derived /\ derived'[u] = derived[u]
          \/ u = work.bucket /\ derived'[u] = work.derived
      BY <1>1 DEF Put
    <3>2. QED
      BY <2>1, <3>1 DEF Safe, DerivedOK
  <2>3. QED
    BY <1>1, <2>2 DEF DerivedOK
<1>8. CASE work.todo = {} /\ work' = NoWork
  BY <1>5, <1>6, <1>7, <1>8 DEF Safe, WorkOK, StateOK, ChosenOK
<1>9. CASE /\ work.todo # {} /\ step' = step
           /\ work' = Begin(First(work.todo), work.todo \ {First(work.todo)}, work.gid, work.hi, place)
  <2> DEFINE all == work.todo
             w == Begin(First(all), all \ {First(all)}, Instruction.gid, Instruction.hi, place)
  <2>0. Begun(all, w) /\ work' = w
    BY <1>4, <1>9 DEF Safe, Begun
  <2> HIDE DEF w, all
  <2>1. /\ w.bucket \in all /\ w.bucket \subseteq DOMAIN case.group
        /\ w.todo = all \ {w.bucket} /\ w.layer = 0
        /\ WorkOK(case, step, w) /\ StateOK(case, w)
    BY <2>0, BeginFacts
  <2>2. ChosenOK(case, w, chosen)
    <3>1. \A b \in all : \A r \in b : DOMAIN chosen[r] = {}
      BY <1>1 DEF Safe, ChosenOK, all
    <3>2. 0 .. w.layer - 1 = {}
      BY <2>1
    <3>3. QED
      BY <2>1, <3>1, <3>2 DEF ChosenOK
  <2>3. QED
    BY <1>1, <1>5, <1>6, <1>7, <1>9, <2>0, <2>1, <2>2 DEF Safe
<1>10. QED
  BY <1>1, <1>8, <1>9

(* The invariant holds.                                                     *)
LEMMA SafeAlways == Spec => []Safe
<1>1. Init => Safe
  BY InitSafe
<1>2. Safe /\ [Next]_vars => Safe'
  <2> SUFFICES ASSUME Safe, [Next]_vars PROVE Safe'
    OBVIOUS
  <2>1. CASE UNCHANGED vars
    BY <2>1 DEF vars, passVars, Safe, Control, RowsOK, DerivedOK
  <2>2. CASE Finished
    BY <2>2 DEF Finished, vars, passVars, Safe, Control, RowsOK, DerivedOK
  <2>3. QED
    BY <2>1, <2>2, LoadSafe, ApproxSafe, StartSafe, BlockSafe, FinishSafe DEF Next
<1>3. QED
  BY <1>1, <1>2, PTL DEF Spec

(* Correction.tla's TypeOK: every tensor of a correction has the rows, the  *)
(* tokens and the layers the code indexes it with.                          *)
THEOREM CorrectionTypeOK == Spec => []TypeOK
<1>1. Safe => TypeOK
  <2> SUFFICES ASSUME Safe PROVE TypeOK
    OBVIOUS
  <2>1. /\ case \in Cases /\ step \in 1 .. Len(case.plan) + 1
        /\ depth \in 0 .. case.layers /\ scored \subseteq Layers
    BY DEF Safe, Control, Layers
  <2>2. Approximated(case, step) \subseteq Layers
    BY <2>1, ApproximatedFacts DEF Layers
  <2>3. ASSUME NEW r \in Rows
        PROVE  /\ features[r] \in [Tokens(case, r) -> Versions]
               /\ DOMAIN cache[r].inc \subseteq Layers /\ DOMAIN cache[r].kv = DOMAIN cache[r].inc
               /\ \A l \in DOMAIN cache[r].inc :
                     /\ cache[r].inc[l] \in [Tokens(case, r) -> Versions \ {{}}]
                     /\ cache[r].kv[l] \in [Tokens(case, r) -> Versions \ {{}}]
               /\ \A l \in DOMAIN chosen[r] : /\ Pre(case) \subseteq chosen[r][l]
                                              /\ chosen[r][l] \subseteq Tokens(case, r)
               /\ kept[r] \subseteq Patches(case, r)
    <3>1. RowOK(case, r, Approximated(case, step), features[r], cache[r], chosen[r], kept[r])
      BY DEF Safe, RowsOK, Rows
    <3>2. /\ cache[r].inc \in [Approximated(case, step) -> Filled(case, r)]
          /\ cache[r].kv \in [Approximated(case, step) -> Filled(case, r)]
      BY <3>1 DEF RowOK, Entries
    <3>3. DOMAIN cache[r].inc = Approximated(case, step) /\ DOMAIN cache[r].kv = Approximated(case, step)
      BY <3>2
    <3>4. \A l \in Approximated(case, step) :
             cache[r].inc[l] \in Filled(case, r) /\ cache[r].kv[l] \in Filled(case, r)
      BY <3>2
    <3>5. QED
      BY <2>2, <3>1, <3>3, <3>4 DEF RowOK, Filled
  <2>4. work # NoWork => work.layer \in 0 .. work.hi /\ work.bucket \subseteq Rows
    BY WorkRows DEF Rows
  <2>5. QED
    BY <2>1, <2>3, <2>4 DEF TypeOK
<1>2. QED
  BY <1>1, SafeAlways, PTL

-----------------------------------------------------------------------------
(* What is recomputed.                                                      *)

(* Two corrections are apart by an approximation, which drops the plans;    *)
(* m2f keeps no plans at all.                                               *)
Apart(c) ==
    c.executor # "m2f" =>
        \A i, j \in 1 .. Len(c.plan) :
            i < j /\ c.plan[i].op = "CORRECT" /\ c.plan[j].op = "CORRECT" =>
                \E k \in i + 1 .. j - 1 : c.plan[k].op = "APPROX"
Renewing == \A c \in Cases : Apart(c)

(* The layers a correction takes scores from and what it selects by them.   *)
Over(c, w, layers) ==
    CASE c.pscore = "layermean" ->
             IF w.derived.mean # {} THEN w.derived.mean
             ELSE IF c.executor = "m2f" THEN layers \cap 0 .. w.hi - 1 ELSE layers
      [] c.pscore = "per_layer" -> {w.layer}
      [] c.pscore = "random" -> {c.layers}
      [] OTHER -> {}
SelectFor(c, all, w, over) ==
    [r \in w.bucket |-> Pre(c) \cup Picked(c, all, r, w.cands[r], w.valid[r], over)]
Shares(c) == c.pscore \in {"layermean", "none"}

(* One correction recomputes the same in all its blocks: what the scores of *)
(* the same layers select among its own candidates.                         *)
Same(c, all, w, layers, picked) ==
    w # NoWork /\ c.pscore # "per_layer" =>
        \A r \in w.bucket : \A l \in 0 .. w.layer - 1 :
            picked[r][l] = SelectFor(c, all, w, Over(c, w, layers))[r]

(* So do the plans it has at hand, wherever the candidates are.             *)
Current(c, all, w, layers) ==
    w # NoWork /\ Shares(c) =>
        \A k \in DOMAIN w.derived.plans :
            w.derived.plans[k] = SelectFor(c, all, w, Over(c, w, layers))

(* The plans that are kept are of the correction in progress, or else of    *)
(* one since the last approximation.                                        *)
CorrectedSince(c, i) ==
    \E j \in 1 .. i - 1 : /\ c.plan[j].op = "CORRECT"
                          /\ \A k \in j + 1 .. i - 1 : c.plan[k].op # "APPROX"
Forgotten(c, i, w, units) ==
    \A unit \in DOMAIN units :
        DOMAIN units[unit].plans # {} =>
            IF w = NoWork THEN CorrectedSince(c, i) ELSE unit \notin w.todo \cup {w.bucket}
Round(c, w, picked) ==
    w # NoWork =>
        \A r \in w.bucket : \A l \in 0 .. w.layer - 1 :
            picked[r][l] \subseteq Pre(c) \cup ToSet(w.cands[r])
Steady(c, picked) ==
    c.pscore # "per_layer" =>
        \A r \in DOMAIN c.group : \A l, m \in DOMAIN picked[r] : picked[r][l] = picked[r][m]

Stable ==
    Apart(case) =>
        /\ Same(case, scores, work, scored, chosen) /\ Current(case, scores, work, scored)
        /\ case.executor # "m2f" => Forgotten(case, step, work, derived)
        /\ Round(case, work, chosen) /\ Steady(case, chosen)

(* Nothing has been recomputed at first.                                    *)
LEMMA InitStable == Init => Stable
<1> SUFFICES ASSUME Init PROVE Stable
  OBVIOUS
<1>1. work = NoWork /\ derived = << >> /\ chosen = [r \in DOMAIN case.group |-> << >>]
  BY DEF Init, Rows
<1>2. Steady(case, chosen) /\ Forgotten(case, step, work, derived)
  BY <1>1 DEF Steady, Forgotten
<1>3. QED
  BY <1>1, <1>2 DEF Stable, Same, Current, Round

(* Between corrections nothing is recomputed, and an approximation drops    *)
(* the plans.                                                               *)
LEMMA IdleStable == Safe /\ Stable /\ (Load \/ Approx) => Stable'
<1> SUFFICES ASSUME Safe, Stable, Load \/ Approx, Apart(case)' PROVE Stable'
  BY DEF Stable
<1>1. /\ work = NoWork /\ work' = work /\ chosen' = chosen /\ case' = case /\ step' = step + 1
      /\ \/ derived' = derived /\ case.plan[step].op = "LOAD"
         \/ derived' = Invalidate(derived)
      /\ step \in 1 .. Len(case.plan) /\ Len(case.plan) \in Nat
  <2>1. case \in Cases /\ step \in 1 .. Len(case.plan) + 1
    BY DEF Safe, Control
  <2>2. Len(case.plan) \in Nat
    BY <2>1, CorrectionAssumption
  <2>3. CASE Load
    <3>1. /\ work = NoWork /\ step <= Len(case.plan) /\ case.plan[step].op = "LOAD"
          /\ step' = step + 1 /\ case' = case /\ derived' = derived /\ passVars' = passVars
      BY <2>3 DEF Load, Ready, Instruction
    <3>2. QED
      BY <2>1, <2>2, <3>1 DEF passVars
  <2>4. CASE Approx
    <3>1. /\ work = NoWork /\ step <= Len(case.plan)
          /\ step' = step + 1 /\ case' = case /\ derived' = Invalidate(derived) /\ passVars' = passVars
      BY <2>4 DEF Approx, Ready, Instruction
    <3>2. QED
      BY <2>1, <2>2, <3>1 DEF passVars
  <2>5. QED
    BY <2>3, <2>4
<1>3. Apart(case)
  BY <1>1
<1>2. case.executor # "m2f" => Forgotten(case, step + 1, work, derived')
  <2>1. CASE derived' = derived /\ case.plan[step].op = "LOAD"
    <3>1. CorrectedSince(case, step) => CorrectedSince(case, step + 1)
      <4> SUFFICES ASSUME CorrectedSince(case, step) PROVE CorrectedSince(case, step + 1)
        OBVIOUS
      <4>1. PICK j \in 1 .. step - 1 :
               /\ case.plan[j].op = "CORRECT"
               /\ \A k \in j + 1 .. step - 1 : case.plan[k].op # "APPROX"
        BY DEF CorrectedSince
      <4>2. j \in 1 .. (step + 1) - 1
        BY <1>1
      <4>3. ASSUME NEW k \in j + 1 .. (step + 1) - 1 PROVE case.plan[k].op # "APPROX"
        <5>1. k = step \/ k \in j + 1 .. step - 1
          BY <1>1
        <5>2. QED
          BY <2>1, <4>1, <5>1
      <4>4. QED
        BY <4>1, <4>2, <4>3 DEF CorrectedSince
    <3>2. QED
      BY <1>1, <1>3, <2>1, <3>1 DEF Stable, Forgotten
  <2>2. CASE derived' = Invalidate(derived)
    <3>1. ASSUME NEW u \in DOMAIN derived' PROVE DOMAIN derived'[u].plans = {}
      <4>1. derived'[u] = [derived[u] EXCEPT !.plans = << >>] /\ u \in DOMAIN derived
        BY <2>2 DEF Invalidate
      <4>2. DOMAIN derived[u] = {"plans", "mean"}
        BY <4>1 DEF Safe, DerivedOK
      <4>3. derived'[u].plans = << >>
        BY <4>1, <4>2
      <4>4. QED
        BY <4>3
    <3>2. QED
      BY <3>1 DEF Forgotten
  <2>3. QED
    BY <1>1, <2>1, <2>2
<1>4. QED
  BY <1>1, <1>2, <1>3 DEF Stable, Same, Current, Round

(* After a correction at step i there is one.                               *)
LEMMA CorrectedNow ==
    ASSUME NEW c, NEW i \in Nat \ {0}, c.plan[i].op = "CORRECT"
    PROVE  CorrectedSince(c, i + 1)
<1>1. i \in 1 .. (i + 1) - 1 /\ (i + 1) .. (i + 1) - 1 = {}
  OBVIOUS
<1>2. QED
  BY <1>1 DEF CorrectedSince

(* A correction starts without plans.                                       *)
LEMMA StartStable == Safe /\ Stable /\ StartCorrect => Stable'
<1> SUFFICES ASSUME Safe, Stable, StartCorrect, Apart(case)' PROVE Stable'
  BY DEF Stable
<1>1. /\ work = NoWork /\ step \in 1 .. Len(case.plan) /\ Instruction.op = "CORRECT"
      /\ case \in Cases /\ Len(case.plan) \in Nat
  <2>1. case \in Cases /\ step \in 1 .. Len(case.plan) + 1
    BY DEF Safe, Control
  <2>2. Len(case.plan) \in Nat
    BY <2>1, CorrectionAssumption
  <2>3. QED
    BY <2>1, <2>2 DEF StartCorrect, Ready
<1> DEFINE all == Buckets(case, Instruction.gid)
<1>2. PICK place :
         /\ case' = case /\ derived' = derived /\ scored' = scored /\ scores' = scores
         /\ chosen' = [r \in DOMAIN case.group |-> << >>]
         /\ \/ work' = work /\ step' = step + 1
            \/ /\ all # {} /\ step' = step
               /\ work' = Begin(First(all), all \ {First(all)}, Instruction.gid, Instruction.hi, place)
  BY StartFacts
<1> DEFINE w == Begin(First(all), all \ {First(all)}, Instruction.gid, Instruction.hi, place)
<1>3. Steady(case, chosen') /\ Apart(case)
  BY <1>2 DEF Steady
<1>4. CASE work' = work /\ step' = step + 1
  <2>1. CorrectedSince(case, step + 1)
    BY <1>1, CorrectedNow DEF Instruction
  <2>2. Forgotten(case, step', work, derived)
    BY <1>1, <1>4, <2>1 DEF Forgotten
  <2>3. QED
    BY <1>1, <1>2, <1>3, <1>4, <2>2 DEF Stable, Same, Current, Round
<1>5. CASE all # {} /\ step' = step /\ work' = w
  <2>0. Begun(all, w)
    BY <1>1, <1>5 DEF Begun
  <2> HIDE DEF all, w
  <2>1. /\ w # NoWork /\ w.layer = 0
        /\ w.derived = IF Executor = "m2f" THEN NoDerived ELSE Unit(w.bucket)
    BY <2>0, BeginFacts
  <2>2. 0 .. w.layer - 1 = {}
    BY <2>1
  <2>3. Same(case, scores, w, scored, chosen') /\ Round(case, w, chosen')
    BY <2>2 DEF Same, Round
  <2>4. ASSUME case.executor # "m2f" PROVE \A u \in DOMAIN derived : DOMAIN derived[u].plans = {}
    <3>1. ~CorrectedSince(case, step)
      <4> SUFFICES ASSUME CorrectedSince(case, step) PROVE FALSE
        OBVIOUS
      <4>1. PICK j \in 1 .. step - 1 :
               /\ case.plan[j].op = "CORRECT"
               /\ \A k \in j + 1 .. step - 1 : case.plan[k].op # "APPROX"
        BY DEF CorrectedSince
      <4>2. j \in 1 .. Len(case.plan) /\ j < step /\ case.plan[step].op = "CORRECT"
        BY <1>1 DEF Instruction
      <4>3. QED
        BY <1>1, <1>3, <2>4, <4>1, <4>2 DEF Apart
    <3>2. QED
      BY <1>1, <1>3, <2>4, <3>1 DEF Stable, Forgotten
  <2>5. DOMAIN w.derived.plans = {}
    BY <2>1, <2>4 DEF Unit, NoDerived, Executor
  <2>6. Current(case, scores, w, scored) /\ (case.executor # "m2f" => Forgotten(case, step, w, derived))
    BY <2>4, <2>5 DEF Current, Forgotten
  <2>7. QED
    BY <1>2, <1>3, <1>5, <2>3, <2>6 DEF Stable
<1>6. QED
  BY <1>2, <1>4, <1>5

(* The end of a bucket recomputes nothing, and no other bucket finds its    *)
(* plans.                                                                   *)
LEMMA FinishStable == Safe /\ Stable /\ FinishBucket => Stable'
<1> SUFFICES ASSUME Safe, Stable, FinishBucket, Apart(case)' PROVE Stable'
  BY DEF Stable
<1>1. PICK place :
         /\ work # NoWork /\ case' = case /\ scores' = scores /\ scored' = scored
         /\ chosen' = chosen
         /\ derived' = IF Executor = "m2f" THEN derived
                       ELSE Put(derived, {work.bucket}, work.derived)
         /\ \/ work.todo = {} /\ work' = NoWork /\ step' = step + 1
            \/ /\ work.todo # {} /\ step' = step
               /\ work' = Begin(First(work.todo), work.todo \ {First(work.todo)},
                                work.gid, work.hi, place)
  BY FinishFacts
<1>2. /\ step \in 1 .. Len(case.plan) /\ Instruction.op = "CORRECT"
      /\ work.gid = Instruction.gid /\ work.hi = Instruction.hi
      /\ work.todo \subseteq Buckets(case, work.gid) /\ work.bucket \in Buckets(case, work.gid)
      /\ work.bucket \notin work.todo /\ case \in Cases
  BY <1>1 DEF Safe, Control, WorkOK, Instruction
<1>3. Steady(case, chosen) /\ Apart(case)
  BY <1>1 DEF Stable
<1>4. CASE work' = NoWork /\ step' = step + 1
  <2>1. step \in Nat \ {0}
    <3>1. Len(case.plan) \in Nat
      BY <1>2, CorrectionAssumption
    <3>2. QED
      BY <1>2, <3>1
  <2>2. CorrectedSince(case, step + 1)
    BY <1>2, <2>1, CorrectedNow DEF Instruction
  <2>3. Forgotten(case, step', work', derived')
    BY <1>4, <2>2 DEF Forgotten
  <2>4. QED
    BY <1>1, <1>3, <1>4, <2>3 DEF Stable, Same, Current, Round
<1>5. CASE /\ work.todo # {} /\ step' = step
           /\ work' = Begin(First(work.todo), work.todo \ {First(work.todo)},
                            work.gid, work.hi, place)
  <2> DEFINE all == work.todo
             w == Begin(First(all), all \ {First(all)}, Instruction.gid, Instruction.hi, place)
  <2>0. Begun(all, w) /\ work' = w
    BY <1>2, <1>5 DEF Safe, Begun
  <2>1. all = work.todo
    OBVIOUS
  <2> HIDE DEF all, w
  <2>2. /\ w # NoWork /\ w.layer = 0 /\ w.bucket \in all /\ w.todo = all \ {w.bucket}
        /\ w.derived = IF Executor = "m2f" THEN NoDerived ELSE Unit(w.bucket)
    BY <2>0, BeginFacts
  <2>3. 0 .. w.layer - 1 = {}
    BY <2>2
  <2>4. Same(case, scores, w, scored, chosen) /\ Round(case, w, chosen)
    BY <2>3 DEF Same, Round
  <2>5. ASSUME case.executor # "m2f", NEW unit \in DOMAIN derived', DOMAIN derived'[unit].plans # {}
        PROVE  unit \notin all
    <3>1. CASE unit = work.bucket
      BY <1>2, <2>1, <3>1
    <3>2. CASE unit # work.bucket
      <4>1. unit \in DOMAIN derived /\ derived'[unit] = derived[unit]
        BY <1>1, <2>5, <3>2 DEF Put, Executor
      <4>2. QED
        BY <1>1, <1>3, <2>1, <2>5, <4>1 DEF Stable, Forgotten
    <3>3. QED
      BY <3>1, <3>2
  <2>6. case.executor # "m2f" => Forgotten(case, step, w, derived')
    BY <2>2, <2>5 DEF Forgotten
  <2>7. Current(case, scores, w, scored)
    <3>1. ASSUME case.executor # "m2f" PROVE DOMAIN Unit(w.bucket).plans = {}
      <4>1. w.bucket \in DOMAIN derived => DOMAIN derived[w.bucket].plans = {}
        BY <1>1, <1>3, <2>1, <2>2, <3>1 DEF Stable, Forgotten
      <4>2. QED
        BY <4>1 DEF Unit, NoDerived
    <3>2. DOMAIN w.derived.plans = {}
      BY <2>2, <3>1 DEF NoDerived, Executor
    <3>3. QED
      BY <3>2 DEF Current
  <2>8. QED
    BY <1>1, <1>3, <1>5, <2>0, <2>4, <2>6, <2>7 DEF Stable
<1>6. QED
  BY <1>1, <1>4, <1>5

(* What the code selects by, in the terms above.                            *)
LEMMA PlanSame ==
    ASSUME Safe, work # NoWork
    PROVE  /\ Select(ScoreLayers) = SelectFor(case, scores, work, Over(case, work, scored))
           /\ IF Shares(case) /\ PlanKey \in DOMAIN work.derived.plans
              THEN /\ Plan.selected = work.derived.plans[PlanKey]
                   /\ Plan.derived = work.derived
              ELSE /\ Plan.selected = Select(ScoreLayers)
                   /\ Plan.derived.plans =
                        IF Shares(case)
                        THEN Put(work.derived.plans, {PlanKey}, Select(ScoreLayers))
                        ELSE work.derived.plans
                   /\ Plan.derived.mean =
                        IF case.pscore = "layermean" THEN MeanLayers ELSE {}
           /\ MeanLayers = IF work.derived.mean # {} THEN work.derived.mean
                           ELSE IF case.executor = "m2f" THEN scored \cap 0 .. work.hi - 1
                           ELSE scored
<1>1. MeanLayers = IF work.derived.mean # {} THEN work.derived.mean
                   ELSE IF case.executor = "m2f" THEN scored \cap 0 .. work.hi - 1
                   ELSE scored
  BY DEF MeanLayers, Executor
<1>2. ScoreLayers = Over(case, work, scored)
  BY <1>1 DEF ScoreLayers, Over
<1>3. \A over : Select(over) = SelectFor(case, scores, work, over)
  BY DEF Select, SelectFor
<1>5. Shareable <=> Shares(case)
  BY DEF Shareable, Shares
<1>6. CASE Shareable /\ PlanKey \in DOMAIN work.derived.plans
  <2>1. Plan = [selected |-> work.derived.plans[PlanKey],
                           derived |-> work.derived]
    BY <1>6 DEF Plan
  <2>2. QED
    BY <1>1, <1>2, <1>3, <1>5, <1>6, <2>1
<1>7. CASE ~(Shareable /\ PlanKey \in DOMAIN work.derived.plans)
  <2> DEFINE plans == IF Shareable
                      THEN Put(work.derived.plans, {PlanKey}, Select(ScoreLayers))
                      ELSE work.derived.plans
             mean == IF case.pscore = "layermean" THEN MeanLayers ELSE {}
  <2>1. Plan = [selected |-> Select(ScoreLayers),
                           derived |-> [plans |-> plans, mean |-> mean]]
    BY <1>7 DEF Plan
  <2> HIDE DEF plans, mean
  <2>2. /\ Plan.selected = Select(ScoreLayers)
        /\ Plan.derived.plans = plans /\ Plan.derived.mean = mean
    BY <2>1
  <2>3. QED
    BY <1>1, <1>2, <1>3, <1>5, <1>7, <2>2 DEF plans, mean
<1>8. QED
  BY <1>6, <1>7

(* A block recomputes what the block before it did.                         *)
LEMMA BlockStable == Safe /\ Stable /\ CorrectBlock => Stable'
<1> SUFFICES ASSUME Safe, Stable, CorrectBlock, Apart(case)' PROVE Stable'
  BY DEF Stable
<1>1. /\ work # NoWork /\ work.layer \in 0 .. work.hi - 1
      /\ case' = case /\ scores' = scores /\ step' = step /\ scored' = scored
      /\ derived' = derived /\ DOMAIN chosen' = DOMAIN case.group
  BY BlockFacts
<1> DEFINE l == work.layer
           sel == Plan.selected
           over == Over(case, work, scored)
           all == SelectFor(case, scores, work, over)
           plans == work.derived.plans
<1>2. /\ work' # NoWork
      /\ work'.bucket = work.bucket /\ work'.todo = work.todo /\ work'.gid = work.gid
      /\ work'.hi = work.hi /\ work'.cands = work.cands /\ work'.valid = work.valid
      /\ work'.layer = l + 1 /\ work'.derived = Plan.derived
      /\ \A r \in work.bucket : chosen'[r] = Put(chosen[r], {l}, sel[r])
      /\ \A r \in DOMAIN case.group \ work.bucket : chosen'[r] = chosen[r]
  BY BlockFacts
<1>3. /\ IF Shares(case) /\ PlanKey \in DOMAIN plans
         THEN sel = plans[PlanKey] /\ work'.derived = work.derived
         ELSE /\ sel = all
              /\ work'.derived.plans =
                    IF Shares(case) THEN Put(plans, {PlanKey}, all) ELSE plans
              /\ work'.derived.mean = IF case.pscore = "layermean" THEN MeanLayers ELSE {}
      /\ MeanLayers = IF work.derived.mean # {} THEN work.derived.mean
                      ELSE IF case.executor = "m2f" THEN scored \cap 0 .. work.hi - 1 ELSE scored
  BY <1>1, <1>2, PlanSame
<1>4. all = Select(ScoreLayers)
  BY <1>1, PlanSame
<1> HIDE DEF sel, plans, all, over
<1>5. l \in Nat /\ (l + 1) - 1 = l /\ work.bucket \subseteq DOMAIN case.group
  BY <1>1, WorkRows
<1>6. /\ Same(case, scores, work, scored, chosen) /\ Current(case, scores, work, scored)
      /\ case.executor # "m2f" => Forgotten(case, step, work, derived)
      /\ Round(case, work, chosen) /\ Steady(case, chosen)
  BY <1>1 DEF Stable
<1>7. ASSUME NEW r \in work.bucket
      PROVE  /\ DOMAIN chosen[r] = 0 .. l - 1 /\ DOMAIN chosen'[r] = 0 .. l
             /\ chosen'[r][l] = sel[r]
             /\ \A m \in 0 .. l - 1 : chosen'[r][m] = chosen[r][m]
             /\ \A m \in 0 .. l : m = l \/ m \in 0 .. l - 1
  <2>1. DOMAIN chosen[r] = 0 .. l - 1
    BY <1>1 DEF Safe, ChosenOK
  <2>2. chosen'[r] = Put(chosen[r], {l}, sel[r])
    BY <1>2
  <2> HIDE DEF l
  <2>3. QED
    BY <1>5, <2>1, <2>2 DEF Put
<1>8. ASSUME case.pscore # "per_layer"
      PROVE  SelectFor(case, scores, work', Over(case, work', scored)) = all
  <2>1. Over(case, work', scored) = over
    <3>1. CASE case.pscore = "layermean"
      <4>1. over = MeanLayers
        BY <1>3, <3>1 DEF Over, over
      <4>2. Over(case, work', scored) =
               IF work'.derived.mean # {} THEN work'.derived.mean
               ELSE IF case.executor = "m2f" THEN scored \cap 0 .. work.hi - 1 ELSE scored
        BY <1>2, <3>1 DEF Over
      <4>3. work'.derived = work.derived \/ work'.derived.mean = MeanLayers
        BY <1>3, <3>1
      <4>4. QED
        BY <1>3, <4>1, <4>2, <4>3
    <3>2. CASE case.pscore # "layermean"
      BY <1>8, <3>2 DEF Over, over
    <3>3. QED
      BY <3>1, <3>2
  <2>2. QED
    BY <1>2, <2>1 DEF SelectFor, all
<1>9. sel = all
  <2>1. CASE Shares(case) /\ PlanKey \in DOMAIN plans
    <3>1. plans[PlanKey] = all
      BY <1>1, <1>6, <2>1 DEF Current, plans, all, over
    <3>2. QED
      BY <1>3, <2>1, <3>1
  <2>2. QED
    BY <1>3, <2>1
<1>10. Same(case, scores, work', scored, chosen')
  <2> SUFFICES ASSUME case.pscore # "per_layer"
               PROVE  \A r \in work.bucket : \A m \in 0 .. l : chosen'[r][m] = all[r]
    BY <1>2, <1>5, <1>8 DEF Same
  <2>1. \A r \in work.bucket : \A m \in 0 .. l - 1 : chosen[r][m] = all[r]
    BY <1>1, <1>6 DEF Same, all, over
  <2>2. QED
    BY <1>7, <1>9, <2>1
<1>11. Current(case, scores, work', scored)
  <2> SUFFICES ASSUME Shares(case), NEW k \in DOMAIN work'.derived.plans
               PROVE  work'.derived.plans[k] = SelectFor(case, scores, work', Over(case, work', scored))
    BY DEF Current
  <2>1. case.pscore # "per_layer"
    BY DEF Shares
  <2>2. \A j \in DOMAIN plans : plans[j] = all
    BY <1>1, <1>6 DEF Current, plans, all, over
  <2>3. work'.derived.plans = plans \/ work'.derived.plans = Put(plans, {PlanKey}, all)
    BY <1>3 DEF plans
  <2>4. work'.derived.plans[k] = all
    BY <2>2, <2>3 DEF Put
  <2>5. QED
    BY <1>8, <2>1, <2>4
<1>12. Round(case, work', chosen')
  <2> SUFFICES ASSUME NEW r \in work.bucket, NEW m \in 0 .. l
               PROVE  chosen'[r][m] \subseteq Pre(case) \cup ToSet(work.cands[r])
    BY <1>2, <1>5 DEF Round
  <2>1. CASE m = l
    <3>1. all[r] \subseteq Pre(case) \cup ToSet(work.cands[r])
      BY <1>1, <1>4, SelectWithin
    <3>2. QED
      BY <1>7, <1>9, <2>1, <3>1
  <2>2. CASE m \in 0 .. l - 1
    BY <1>1, <1>6, <1>7, <2>2 DEF Round
  <2>3. QED
    BY <1>7, <2>1, <2>2
<1>13. Steady(case, chosen')
  <2> SUFFICES ASSUME case.pscore # "per_layer", NEW r \in DOMAIN case.group,
                      NEW i \in DOMAIN chosen'[r], NEW m \in DOMAIN chosen'[r]
               PROVE  chosen'[r][i] = chosen'[r][m]
    BY DEF Steady
  <2>1. CASE r \in work.bucket
    <3>1. i \in 0 .. l /\ m \in 0 .. l
      BY <1>7, <2>1
    <3>2. \A q \in 0 .. l :
             chosen'[r][q] = SelectFor(case, scores, work', Over(case, work', scored))[r]
      BY <1>2, <1>5, <1>10, <2>1 DEF Same
    <3>3. QED
      BY <3>1, <3>2
  <2>2. CASE r \notin work.bucket
    BY <1>2, <1>6, <2>2 DEF Steady
  <2>3. QED
    BY <2>1, <2>2
<1>14. case.executor # "m2f" => Forgotten(case, step, work', derived)
  BY <1>1, <1>2, <1>6 DEF Forgotten
<1>15. QED
  BY <1>1, <1>10, <1>11, <1>12, <1>13, <1>14 DEF Stable

(* The second invariant holds.                                              *)
LEMMA StableAlways == Spec => []Stable
<1>1. Init => Stable
  BY InitStable
<1>2. Safe /\ Stable /\ [Next]_vars => Stable'
  <2> SUFFICES ASSUME Safe, Stable, [Next]_vars PROVE Stable'
    OBVIOUS
  <2>1. CASE UNCHANGED vars
    BY <2>1 DEF vars, passVars, Stable
  <2>2. CASE Finished
    BY <2>2 DEF Finished, vars, passVars, Stable
  <2>3. QED
    BY <2>1, <2>2, IdleStable, StartStable, BlockStable, FinishStable DEF Next
<1>3. QED
  BY <1>1, <1>2, SafeAlways, PTL DEF Spec

(* Correction.tla's SelectionStable: but for scores of each block's own,    *)
(* all blocks of a correction recompute the same tokens of a row, wherever  *)
(* an approximation lies between two corrections.                           *)
THEOREM CorrectionSelectionStable == Renewing => (Spec => []SelectionStable)
<1> SUFFICES ASSUME Renewing PROVE Spec => []SelectionStable
  OBVIOUS
<1>1. Safe /\ Stable => SelectionStable
  BY DEF Safe, Control, Renewing, Stable, Steady, SelectionStable, Rows
<1>2. QED
  BY <1>1, SafeAlways, StableAlways, PTL

(* Correction.tla's ThisRoundOnly: wherever the candidates' tensors are, a  *)
(* block recomputes candidates of its own correction, if an approximation   *)
(* lies between two corrections.                                            *)
THEOREM CorrectionThisRound == Renewing => (Spec => []ThisRoundOnly)
<1> SUFFICES ASSUME Renewing PROVE Spec => []ThisRoundOnly
  OBVIOUS
<1>1. Safe /\ Stable => ThisRoundOnly
  <2> SUFFICES ASSUME Safe, Stable, work # NoWork, NEW r \in work.bucket, NEW l \in DOMAIN chosen[r]
               PROVE  chosen[r][l] \subseteq Pre(case) \cup ToSet(work.cands[r])
    BY DEF ThisRoundOnly
  <2>1. l \in 0 .. work.layer - 1 /\ Apart(case)
    BY DEF Safe, Control, ChosenOK, Renewing
  <2>2. QED
    BY <2>1 DEF Stable, Round
<1>2. QED
  BY <1>1, SafeAlways, StableAlways, PTL

-----------------------------------------------------------------------------
(* What is kept.                                                            *)

(* A patch that is kept has its residual, and nothing else, everywhere,     *)
Renewed(entries, t, layers) == \A l \in layers : entries.inc[l][t] = {1} /\ entries.kv[l][t] = {1}
RowKept(c, r, groups, layers, feature, entries, keep) ==
    \A t \in keep : /\ c.sent[r][t] \in groups /\ feature[t] = {1}
                    /\ Renewed(entries, t, layers)

(* so also in a correction, where those have it as well that are recomputed *)
(* in all blocks up to now.                                                 *)
Fresh(c, r, groups, t, picked, layer) ==
    c.sent[r][t] \in groups /\ \A l \in 0 .. layer - 1 : t \in picked[l]
Keeping(c, groups, w, picked, keep) ==
    w # NoWork =>
        \A r \in w.bucket : \A t \in Patches(c, r) :
            /\ t \in keep[r] => w.x[r][t] = {1} /\ Renewed(w.cache[r], t, 0 .. w.hi - 1)
            /\ Fresh(c, r, groups, t, picked[r], w.layer) =>
                  w.x[r][t] = {1} /\ Renewed(w.cache[r], t, 0 .. w.layer - 1)

Kept ==
    /\ \A r \in DOMAIN case.group :
          RowKept(case, r, arrived, Approximated(case, step), features[r], cache[r], kept[r])
    /\ Keeping(case, arrived, work, chosen, kept)

(* Nothing is kept at first.                                                *)
LEMMA InitKept == Init => Kept
<1> SUFFICES ASSUME Init PROVE Kept
  OBVIOUS
<1>1. work = NoWork /\ kept = [r \in DOMAIN case.group |-> {}]
  BY DEF Init, Rows
<1>2. QED
  BY <1>1 DEF Kept, RowKept, Keeping

(* What has arrived stays so.                                               *)
LEMMA LoadKept == Safe /\ Kept /\ Load => Kept'
<1> SUFFICES ASSUME Safe, Kept, Load PROVE Kept'
  OBVIOUS
<1>1. /\ work = NoWork /\ step \in 1 .. Len(case.plan) /\ case.plan[step].op = "LOAD"
      /\ step' = step + 1 /\ work' = work /\ case' = case /\ cache' = cache /\ kept' = kept
      /\ arrived' = arrived \cup {Instruction.gid} /\ case \in Cases
  <2>1. case \in Cases /\ step \in 1 .. Len(case.plan) + 1
    BY DEF Safe, Control
  <2>2. Len(case.plan) \in Nat
    BY <2>1, CorrectionAssumption
  <2>3. /\ work = NoWork /\ step <= Len(case.plan) /\ case.plan[step].op = "LOAD"
        /\ step' = step + 1 /\ case' = case /\ cache' = cache /\ passVars' = passVars
        /\ arrived' = arrived \cup {Instruction.gid}
    BY DEF Load, Ready, Instruction
  <2>4. work' = work /\ kept' = kept
    BY <2>3 DEF passVars
  <2>5. QED
    BY <2>1, <2>2, <2>3, <2>4
<1>2. \/ features' = [r \in DOMAIN case.group |-> Embedded(r, arrived')]
      \/ features' = features
  BY DEF Load, Rows
<1>3. Approximated(case, step + 1) = Approximated(case, step)
  BY <1>1, ApproximatedFacts
<1>4. ASSUME NEW r \in DOMAIN case.group
      PROVE  RowKept(case, r, arrived', Approximated(case, step), features'[r], cache[r], kept[r])
  <2>1. RowKept(case, r, arrived, Approximated(case, step), features[r], cache[r], kept[r])
    BY DEF Kept
  <2>2. kept[r] \subseteq Patches(case, r)
    BY DEF Safe, RowsOK, RowOK
  <2>3. \A t \in kept[r] : case.sent[r][t] \in arrived'
    BY <1>1, <2>1 DEF RowKept
  <2>4. \A t \in kept[r] : Embedded(r, arrived')[t] = {1}
    BY <1>1, <2>2, <2>3, EmbeddedType
  <2>5. \A t \in kept[r] : features'[r][t] = {1}
    BY <1>2, <2>1, <2>4 DEF RowKept
  <2>6. QED
    BY <2>1, <2>3, <2>5 DEF RowKept
<1>5. QED
  BY <1>1, <1>3, <1>4 DEF Kept, Keeping

(* An approximation of more layers starts from what is kept.                *)
LEMMA ApproxKept == Safe /\ Kept /\ Approx => Kept'
<1> SUFFICES ASSUME Safe, Kept, Approx PROVE Kept'
  OBVIOUS
<1> DEFINE lo == Instruction.lo
           hi == Instruction.hi
           new == lo .. hi - 1
           from == IF lo = 0 THEN [r \in Rows |-> Embedded(r, arrived)] ELSE features
<1>1. /\ work = NoWork /\ step \in 1 .. Len(case.plan) /\ case.plan[step].op = "APPROX"
      /\ case \in Cases /\ Len(case.plan) \in Nat /\ case.layers \in Nat
  <2>1. case \in Cases /\ step \in 1 .. Len(case.plan) + 1
    BY DEF Safe, Control
  <2>2. Len(case.plan) \in Nat /\ case.layers \in Nat
    BY <2>1, CorrectionAssumption
  <2>3. QED
    BY <2>1, <2>2 DEF Approx, Ready, Instruction
<1>2. /\ step' = step + 1 /\ work' = work /\ case' = case /\ kept' = kept
      /\ arrived' = arrived /\ features' = from
      /\ cache' = [r \in DOMAIN case.group |-> [inc |-> Put(cache[r].inc, new, from[r]),
                                                kv |-> Put(cache[r].kv, new, from[r])]]
  BY DEF Approx, passVars, Rows
<1>3. /\ hi \in 1 .. case.layers /\ lo \in 0 .. hi - 1
      /\ Approximated(case, step) = 0 .. lo - 1 /\ Approximated(case, step + 1) = 0 .. hi - 1
  BY <1>1, ApproximatedFacts DEF Instruction
<1>4. new \cup (0 .. lo - 1) = 0 .. hi - 1
  <2> HIDE DEF lo, hi
  <2>1. QED
    BY <1>1, <1>3
<1>5. ASSUME NEW r \in DOMAIN case.group
      PROVE  RowKept(case, r, arrived, 0 .. hi - 1, features'[r], cache'[r], kept[r])
  <2>1. RowKept(case, r, arrived, 0 .. lo - 1, features[r], cache[r], kept[r])
    BY <1>3 DEF Kept
  <2>2. RowOK(case, r, 0 .. lo - 1, features[r], cache[r], chosen[r], kept[r])
    BY <1>3 DEF Safe, RowsOK
  <2>3. kept[r] \subseteq Patches(case, r)
    BY <2>2 DEF RowOK
  <2>4. \A t \in kept[r] : Embedded(r, arrived)[t] = {1}
    BY <1>1, <2>1, <2>3, EmbeddedType DEF RowKept
  <2>5. \A t \in kept[r] : from[r][t] = {1}
    BY <2>1, <2>4 DEF RowKept, Rows
  <2>6. DOMAIN cache[r].inc = 0 .. lo - 1 /\ DOMAIN cache[r].kv = 0 .. lo - 1
    BY <2>2 DEF RowOK, Entries
  <2> HIDE DEF from, lo, hi, new
  <2>7. /\ cache'[r].inc = Put(cache[r].inc, new, from[r])
        /\ cache'[r].kv = Put(cache[r].kv, new, from[r])
    BY <1>2
  <2>8. ASSUME NEW t \in kept[r], NEW l \in 0 .. hi - 1
        PROVE  cache'[r].inc[l][t] = {1} /\ cache'[r].kv[l][t] = {1}
    <3>1. l \in new \/ l \in 0 .. lo - 1
      BY <1>4
    <3>2. l \in 0 .. lo - 1 => cache[r].inc[l][t] = {1} /\ cache[r].kv[l][t] = {1}
      BY <2>1 DEF RowKept, Renewed
    <3>3. /\ cache'[r].inc[l] = IF l \in new THEN from[r] ELSE cache[r].inc[l]
          /\ cache'[r].kv[l] = IF l \in new THEN from[r] ELSE cache[r].kv[l]
      BY <2>6, <2>7, <3>1 DEF Put
    <3>4. QED
      BY <2>5, <3>1, <3>2, <3>3
  <2>9. features'[r] = from[r]
    BY <1>2
  <2>10. QED
    BY <2>1, <2>5, <2>8, <2>9 DEF RowKept, Renewed
<1> HIDE DEF hi, lo, new, from
<1>6. QED
  BY <1>1, <1>2, <1>3, <1>5 DEF Kept, Keeping

(* A bucket starts from the input tokens and from what is kept.             *)
LEMMA BeginKept ==
    ASSUME Safe, NEW w, StateOK(case, w), w # NoWork, w.layer = 0,
           w.bucket \subseteq DOMAIN case.group, Approximated(case, step) = 0 .. w.hi - 1,
           \A r \in w.bucket : w.x[r] = Embedded(r, arrived) /\ w.cache[r] = cache[r],
           \A r \in DOMAIN case.group :
              RowKept(case, r, arrived, Approximated(case, step), features[r], cache[r], kept[r]),
           NEW picked, NEW keep, \A r \in w.bucket : keep[r] = kept[r]
    PROVE  Keeping(case, arrived, w, picked, keep)
<1> SUFFICES ASSUME NEW r \in w.bucket, NEW t \in Patches(case, r)
             PROVE  /\ t \in keep[r] =>
                          w.x[r][t] = {1} /\ Renewed(w.cache[r], t, 0 .. w.hi - 1)
                    /\ Fresh(case, r, arrived, t, picked[r], w.layer) =>
                          w.x[r][t] = {1} /\ Renewed(w.cache[r], t, 0 .. w.layer - 1)
  BY DEF Keeping
<1>1. r \in DOMAIN case.group /\ case \in Cases
  BY DEF Safe, Control
<1>2. case.sent[r][t] \in arrived => w.x[r][t] = {1}
  BY <1>1, EmbeddedType
<1>3. RowKept(case, r, arrived, 0 .. w.hi - 1, features[r], cache[r], kept[r])
  BY <1>1
<1>4. t \in keep[r] => w.x[r][t] = {1} /\ Renewed(w.cache[r], t, 0 .. w.hi - 1)
  BY <1>2, <1>3 DEF RowKept
<1>5. 0 .. w.layer - 1 = {}
  OBVIOUS
<1>6. QED
  BY <1>2, <1>4, <1>5 DEF Fresh, Renewed

(* So does a correction.                                                    *)
LEMMA StartKept == Safe /\ Kept /\ StartCorrect => Kept'
<1> SUFFICES ASSUME Safe, Kept, StartCorrect PROVE Kept'
  OBVIOUS
<1>1. /\ work = NoWork /\ step \in 1 .. Len(case.plan) /\ Instruction.op = "CORRECT"
      /\ case \in Cases /\ Len(case.plan) \in Nat
  <2>1. case \in Cases /\ step \in 1 .. Len(case.plan) + 1
    BY DEF Safe, Control
  <2>2. Len(case.plan) \in Nat
    BY <2>1, CorrectionAssumption
  <2>3. QED
    BY <2>1, <2>2 DEF StartCorrect, Ready
<1> DEFINE all == Buckets(case, Instruction.gid)
<1>0. PICK place :
         /\ case' = case /\ features' = features /\ cache' = cache /\ kept' = kept
         /\ arrived' = arrived
         /\ \/ work' = work /\ step' = step + 1
            \/ /\ all # {} /\ step' = step
               /\ work' = Begin(First(all), all \ {First(all)}, Instruction.gid, Instruction.hi, place)
  BY StartFacts
<1> DEFINE w == Begin(First(all), all \ {First(all)}, Instruction.gid, Instruction.hi, place)
<1>2. /\ case' = case /\ features' = features /\ cache' = cache /\ kept' = kept
      /\ arrived' = arrived
      /\ \/ work' = work /\ step' = step + 1
         \/ all # {} /\ step' = step /\ work' = w
  BY <1>0
<1>3. /\ Approximated(case, step) = 0 .. Instruction.hi - 1
      /\ Approximated(case, step + 1) = Approximated(case, step)
  BY <1>1, ApproximatedFacts DEF Instruction
<1>4. \A r \in DOMAIN case.group :
         RowKept(case, r, arrived, Approximated(case, step), features[r], cache[r], kept[r])
  BY DEF Kept
<1>5. Approximated(case', step') = Approximated(case, step)
  BY <1>2, <1>3
<1>6. Keeping(case, arrived, work', chosen', kept)
  <2>1. CASE work' = work
    BY <1>1, <2>1 DEF Keeping
  <2>2. CASE all # {} /\ step' = step /\ work' = w
    <3>0. Begun(all, w)
      BY <1>1, <2>2 DEF Begun
    <3>1. w.hi = Instruction.hi
      BY DEF Begin
    <3> HIDE DEF all, w
    <3>2. /\ w # NoWork /\ w.layer = 0 /\ w.bucket \subseteq DOMAIN case.group
          /\ \A r \in w.bucket : w.x[r] = Embedded(r, arrived) /\ w.cache[r] = cache[r]
          /\ StateOK(case, w)
      BY <3>0, BeginFacts
    <3>3. \A picked, keep : (\A r \in w.bucket : keep[r] = kept[r]) =>
                Keeping(case, arrived, w, picked, keep)
      BY <1>3, <1>4, <3>1, <3>2, BeginKept
    <3>4. QED
      BY <2>2, <3>3
  <2>3. QED
    BY <1>2, <2>1, <2>2
<1> HIDE DEF all, w
<1>7. QED
  BY <1>2, <1>4, <1>5, <1>6 DEF Kept

(* A block takes nothing from what is kept, and what it recomputes from     *)
(* patches that are fresh is fresh.                                         *)
LEMMA BlockKept == Safe /\ Kept /\ CorrectBlock => Kept'
<1> SUFFICES ASSUME Safe, Kept, CorrectBlock PROVE Kept'
  OBVIOUS
<1>1. /\ work # NoWork /\ work.layer \in 0 .. work.hi - 1
      /\ case' = case /\ step' = step /\ features' = features /\ arrived' = arrived
      /\ cache' = cache /\ kept' = kept
  BY BlockFacts
<1> DEFINE l == work.layer
           sel(r) == Plan.selected[r]
<1>2. /\ work'.bucket = work.bucket /\ work'.hi = work.hi /\ work'.layer = l + 1
      /\ \A r \in work.bucket :
            /\ work'.x[r] = Through(work.x[r], work.cache[r].inc[l], sel(r))
            /\ work'.cache[r] =
                  [inc |-> [work.cache[r].inc EXCEPT ![l] = Persist(@, work.x[r], sel(r))],
                   kv |-> [work.cache[r].kv EXCEPT ![l] = Persist(@, work.x[r], sel(r))]]
            /\ chosen'[r] = Put(chosen[r], {l}, sel(r))
  BY BlockFacts
<1> HIDE DEF sel
<1>3. ASSUME NEW r \in work.bucket, NEW t \in Patches(case, r)
      PROVE  /\ t \in kept[r] =>
                   work'.x[r][t] = {1} /\ Renewed(work'.cache[r], t, 0 .. work.hi - 1)
             /\ Fresh(case, r, arrived, t, chosen'[r], l + 1) =>
                   work'.x[r][t] = {1} /\ Renewed(work'.cache[r], t, 0 .. l)
  <2> DEFINE x == work.x[r]
             inc == work.cache[r].inc
             kv == work.cache[r].kv
             s == sel(r)
  <2>1. t \in Tokens(case, r)
    BY DEF Tokens
  <2>2. /\ DOMAIN x = Tokens(case, r)
        /\ DOMAIN inc = 0 .. work.hi - 1 /\ DOMAIN kv = 0 .. work.hi - 1
    <3>1. x \in Filled(case, r) /\ work.cache[r] \in Entries(case, r, 0 .. work.hi - 1)
      BY <1>1 DEF Safe, StateOK
    <3>2. QED
      BY <3>1 DEF Filled, Entries
  <2> HIDE DEF x, inc, kv, s
  <2>3. /\ t \in kept[r] => x[t] = {1} /\ \A m \in 0 .. work.hi - 1 : inc[m][t] = {1} /\ kv[m][t] = {1}
        /\ Fresh(case, r, arrived, t, chosen[r], l) =>
              x[t] = {1} /\ \A m \in 0 .. l - 1 : inc[m][t] = {1} /\ kv[m][t] = {1}
    BY <1>1 DEF Kept, Keeping, Renewed, x, inc, kv
  <2>4. /\ work'.x[r] = Through(x, inc[l], s)
        /\ work'.cache[r].inc = [inc EXCEPT ![l] = Persist(@, x, s)]
        /\ work'.cache[r].kv = [kv EXCEPT ![l] = Persist(@, x, s)]
        /\ chosen'[r] = Put(chosen[r], {l}, s)
    <3> DEFINE A == [inc EXCEPT ![l] = Persist(@, x, s)]
               B == [kv EXCEPT ![l] = Persist(@, x, s)]
    <3>1. work'.x[r] = Through(x, inc[l], s) /\ chosen'[r] = Put(chosen[r], {l}, s)
      BY <1>2 DEF x, inc, s
    <3>2. work'.cache[r] = [inc |-> A, kv |-> B]
      BY <1>2 DEF x, inc, kv, s
    <3> HIDE DEF A, B
    <3>3. work'.cache[r].inc = A /\ work'.cache[r].kv = B
      BY <3>2
    <3>4. QED
      BY <3>1, <3>3 DEF A, B
  <2>5. work'.x[r][t] = IF t \in s THEN x[t] ELSE x[t] \cup inc[l][t]
    BY <2>1, <2>2, <2>4 DEF Through
  <2>6. ASSUME NEW m \in 0 .. work.hi - 1
        PROVE  /\ work'.cache[r].inc[m][t] = IF m = l /\ t \in s THEN x[t] ELSE inc[m][t]
               /\ work'.cache[r].kv[m][t] = IF m = l /\ t \in s THEN x[t] ELSE kv[m][t]
    <3>1. /\ work'.cache[r].inc[m] = IF m = l THEN Persist(inc[m], x, s) ELSE inc[m]
          /\ work'.cache[r].kv[m] = IF m = l THEN Persist(kv[m], x, s) ELSE kv[m]
      BY <2>2, <2>4
    <3>2. /\ Persist(inc[m], x, s)[t] = IF t \in s THEN x[t] ELSE inc[m][t]
          /\ Persist(kv[m], x, s)[t] = IF t \in s THEN x[t] ELSE kv[m][t]
      BY <2>1, <2>2 DEF Persist
    <3>3. QED
      BY <3>1, <3>2
  <2>7. ASSUME t \in kept[r]
        PROVE  work'.x[r][t] = {1} /\ Renewed(work'.cache[r], t, 0 .. work.hi - 1)
    <3>1. x[t] = {1} /\ \A m \in 0 .. work.hi - 1 : inc[m][t] = {1} /\ kv[m][t] = {1}
      BY <2>3, <2>7
    <3>2. QED
      BY <1>1, <2>5, <2>6, <3>1 DEF Renewed
  <2>8. ASSUME Fresh(case, r, arrived, t, chosen'[r], l + 1)
        PROVE  work'.x[r][t] = {1} /\ Renewed(work'.cache[r], t, 0 .. l)
    <3>0. l \in Nat /\ work.hi \in Nat /\ (l + 1) - 1 = l /\ l <= work.hi - 1
      BY <1>1, WorkRows
    <3>1. case.sent[r][t] \in arrived /\ \A m \in 0 .. l : t \in chosen'[r][m]
      BY <2>8, <3>0 DEF Fresh
    <3>2. DOMAIN chosen[r] = 0 .. l - 1
      BY <1>1 DEF Safe, ChosenOK
    <3>3. chosen'[r][l] = s /\ \A m \in 0 .. l - 1 : chosen'[r][m] = chosen[r][m]
      BY <2>4, <3>0, <3>2 DEF Put
    <3>4. t \in s /\ \A m \in 0 .. l - 1 : t \in chosen[r][m]
      BY <3>0, <3>1, <3>3
    <3>5. x[t] = {1} /\ \A m \in 0 .. l - 1 : inc[m][t] = {1} /\ kv[m][t] = {1}
      BY <2>3, <3>1, <3>4 DEF Fresh
    <3>6. work'.x[r][t] = {1}
      BY <2>5, <3>4, <3>5
    <3>7. ASSUME NEW m \in 0 .. l
          PROVE  work'.cache[r].inc[m][t] = {1} /\ work'.cache[r].kv[m][t] = {1}
      <4>1. m \in 0 .. work.hi - 1 /\ (m = l \/ m \in 0 .. l - 1)
        BY <3>0
      <4>2. m = l \/ (m # l /\ inc[m][t] = {1} /\ kv[m][t] = {1})
        BY <3>5, <4>1
      <4>3. QED
        BY <2>6, <3>4, <3>5, <4>1, <4>2
    <3>8. QED
      BY <3>6, <3>7 DEF Renewed
  <2>9. QED
    BY <2>7, <2>8
<1>4. Keeping(case, arrived, work', chosen', kept)
  <2>1. (l + 1) - 1 = l
    BY <1>1, WorkRows
  <2>2. QED
    BY <1>2, <1>3, <2>1 DEF Keeping
<1>5. \A r \in DOMAIN case.group :
         RowKept(case, r, arrived, Approximated(case, step), features[r], cache[r], kept[r])
  BY DEF Kept
<1>6. QED
  BY <1>1, <1>4, <1>5 DEF Kept

(* At the end of a bucket its features, increments, keys and values are     *)
(* those of the work; what was fresh in all its layers is kept from now on. *)
LEMMA FinishKept == Safe /\ Stable /\ Kept /\ FinishBucket => Kept'
<1> SUFFICES ASSUME Safe, Stable, Kept, FinishBucket PROVE Kept'
  OBVIOUS
<1>1. /\ work # NoWork /\ work.layer = work.hi
      /\ case' = case /\ arrived' = arrived /\ chosen' = chosen
      /\ \A r \in DOMAIN case.group \ work.bucket :
            features'[r] = features[r] /\ cache'[r] = cache[r] /\ kept'[r] = kept[r]
      /\ \A r \in work.bucket :
            /\ features'[r] = Merge(r)
            /\ cache'[r] = [inc |-> work.cache[r].inc, kv |-> work.cache[r].kv]
            /\ kept'[r] = kept[r] \cup
                  {t \in Patches(case, r) :
                      /\ case.sent[r][t] \in arrived
                      /\ \A l \in 0 .. work.hi - 1 : t \in chosen[r][l]}
  BY FinishFacts
<1>2. PICK place :
      \/ work' = NoWork /\ step' = step + 1
      \/ /\ work.todo # {} /\ step' = step
         /\ work' = Begin(First(work.todo), work.todo \ {First(work.todo)}, work.gid, work.hi, place)
  BY FinishFacts
<1>3. /\ work.bucket # {} /\ work.bucket \subseteq DOMAIN case.group
      /\ work.hi \in 1 .. case.layers /\ Approximated(case, step) = 0 .. work.hi - 1
      /\ Approximated(case, step + 1) = Approximated(case, step)
      /\ case.layers \in Nat
  BY <1>1, WorkRows
<1>4. /\ step \in 1 .. Len(case.plan) /\ Instruction.op = "CORRECT"
      /\ work.gid = Instruction.gid /\ work.hi = Instruction.hi
      /\ work.todo \subseteq Buckets(case, work.gid) /\ work.bucket \in Buckets(case, work.gid)
      /\ work.bucket \notin work.todo /\ case \in Cases
  BY <1>1 DEF Safe, Control, WorkOK, Instruction
<1>5. ASSUME NEW r \in DOMAIN case.group
      PROVE  RowKept(case, r, arrived, 0 .. work.hi - 1, features'[r], cache'[r], kept'[r])
  <2>1. RowKept(case, r, arrived, 0 .. work.hi - 1, features[r], cache[r], kept[r])
    BY <1>3 DEF Kept
  <2>2. CASE r \notin work.bucket
    BY <1>1, <2>1, <2>2
  <2>3. CASE r \in work.bucket
    <3> SUFFICES ASSUME NEW t \in kept'[r]
                 PROVE  /\ case.sent[r][t] \in arrived /\ features'[r][t] = {1}
                        /\ Renewed(cache'[r], t, 0 .. work.hi - 1)
      BY DEF RowKept
    <3>1. kept[r] \subseteq Patches(case, r)
      BY DEF Safe, RowsOK, RowOK
    <3>2. /\ t \in Patches(case, r) /\ t \in Tokens(case, r)
          /\ t \in kept[r] \/ Fresh(case, r, arrived, t, chosen[r], work.hi)
      BY <1>1, <2>3, <3>1 DEF Fresh, Tokens
    <3>3. case.sent[r][t] \in arrived
      BY <2>1, <3>2 DEF RowKept, Fresh
    <3>4. work.x[r][t] = {1} /\ Renewed(work.cache[r], t, 0 .. work.hi - 1)
      BY <1>1, <2>3, <3>2 DEF Kept, Keeping
    <3>5. Renewed(cache'[r], t, 0 .. work.hi - 1)
      <4>1. cache'[r] = [inc |-> work.cache[r].inc, kv |-> work.cache[r].kv]
        BY <1>1, <2>3
      <4>2. cache'[r].inc = work.cache[r].inc /\ cache'[r].kv = work.cache[r].kv
        BY <4>1
      <4>3. QED
        BY <3>4, <4>2 DEF Renewed
    <3>6. Merge(r)[t] = {1}
      <4>1. CASE Executor = "m2f" /\ depth = work.hi
        <5>1. Merge(r)[t] = IF t \in Pre(case) \cup ToSet(work.cands[r])
                            THEN work.x[r][t] ELSE features[r][t]
          BY <3>2, <4>1 DEF Merge
        <5>2. t \in kept[r] => features[r][t] = {1}
          BY <2>1 DEF RowKept
        <5>3. ASSUME Fresh(case, r, arrived, t, chosen[r], work.hi)
              PROVE  t \in Pre(case) \cup ToSet(work.cands[r])
          <6>1. 0 \in 0 .. work.hi - 1
            BY <1>3
          <6>2. t \in chosen[r][0]
            BY <5>3, <6>1 DEF Fresh
          <6>3. Apart(case)
            BY <4>1 DEF Apart, Executor
          <6>4. chosen[r][0] \subseteq Pre(case) \cup ToSet(work.cands[r])
            BY <1>1, <2>3, <6>1, <6>3 DEF Stable, Round
          <6>5. QED
            BY <6>2, <6>4
        <5>4. QED
          BY <3>2, <3>4, <5>1, <5>2, <5>3
      <4>2. CASE ~(Executor = "m2f" /\ depth = work.hi)
        BY <3>4, <4>2 DEF Merge
      <4>3. QED
        BY <4>1, <4>2
    <3>7. features'[r] = Merge(r)
      BY <1>1, <2>3
    <3>8. QED
      BY <3>3, <3>5, <3>6, <3>7
  <2>4. QED
    BY <2>2, <2>3
<1>6. Approximated(case', step') = 0 .. work.hi - 1
  BY <1>1, <1>2, <1>3
<1>7. Keeping(case, arrived, work', chosen, kept')
  <2>1. CASE work' = NoWork
    BY <2>1 DEF Keeping
  <2>2. CASE /\ work.todo # {}
             /\ work' = Begin(First(work.todo), work.todo \ {First(work.todo)}, work.gid, work.hi, place)
    <3> DEFINE all == work.todo
               w == Begin(First(all), all \ {First(all)}, Instruction.gid, Instruction.hi, place)
    <3>0. Begun(all, w) /\ work' = w
      BY <1>4, <2>2 DEF Safe, Begun
    <3>1. w.hi = work.hi
      BY <1>4 DEF Begin
    <3>2. \A b \in all : b \cap work.bucket = {}
      BY <1>4, BucketsFacts
    <3> HIDE DEF w, all
    <3>3. /\ w # NoWork /\ w.layer = 0 /\ w.bucket \subseteq DOMAIN case.group /\ w.bucket \in all
          /\ \A r \in w.bucket : w.x[r] = Embedded(r, arrived) /\ w.cache[r] = cache[r]
          /\ StateOK(case, w)
      BY <3>0, BeginFacts
    <3>4. \A r \in w.bucket : kept'[r] = kept[r]
      BY <1>1, <3>2, <3>3
    <3>5. Approximated(case, step) = 0 .. w.hi - 1
      BY <1>3, <3>1
    <3>6. \A r \in DOMAIN case.group :
             RowKept(case, r, arrived, Approximated(case, step), features[r], cache[r], kept[r])
      BY DEF Kept
    <3>7. \A picked, keep : (\A r \in w.bucket : keep[r] = kept[r]) =>
                Keeping(case, arrived, w, picked, keep)
      BY <3>3, <3>5, <3>6, BeginKept
    <3>8. QED
      BY <3>0, <3>4, <3>7
  <2>3. QED
    BY <1>2, <2>1, <2>2
<1>8. QED
  BY <1>1, <1>5, <1>6, <1>7 DEF Kept

(* Correction.tla's CorrectionsPersist: a patch whose residual had arrived  *)
(* and that was corrected in all blocks keeps features, increments, keys    *)
(* and values of that residual alone, for every picture, plan and scores.   *)
THEOREM CorrectionPersists == Spec => []CorrectionsPersist
<1>1. Init => Kept
  BY InitKept
<1>2. Safe /\ Stable /\ Kept /\ [Next]_vars => Kept'
  <2> SUFFICES ASSUME Safe, Stable, Kept, [Next]_vars PROVE Kept'
    OBVIOUS
  <2>1. CASE UNCHANGED vars
    BY <2>1 DEF vars, passVars, Kept
  <2>2. CASE Finished
    BY <2>2 DEF Finished, vars, passVars, Kept
  <2>3. QED
    BY <2>1, <2>2, LoadKept, ApproxKept, StartKept, BlockKept, FinishKept DEF Next
<1>3. Safe /\ Kept => CorrectionsPersist
  <2> SUFFICES ASSUME Safe, Kept, NEW r \in Rows, NEW t \in kept[r]
               PROVE  /\ features[r][t] = {1}
                      /\ \A l \in DOMAIN cache[r].inc :
                            cache[r].inc[l][t] = {1} /\ cache[r].kv[l][t] = {1}
    BY DEF CorrectionsPersist
  <2>1. RowKept(case, r, arrived, Approximated(case, step), features[r], cache[r], kept[r])
    BY DEF Kept, Rows
  <2>2. cache[r] \in Entries(case, r, Approximated(case, step))
    BY DEF Safe, RowsOK, RowOK, Rows
  <2>3. DOMAIN cache[r].inc = Approximated(case, step)
    BY <2>2 DEF Entries
  <2>4. QED
    BY <2>1, <2>3 DEF RowKept, Renewed
<1>4. QED
  BY <1>1, <1>2, <1>3, SafeAlways, StableAlways, PTL DEF Spec

-----------------------------------------------------------------------------
(* What is selected is the row's own.                                       *)

(* Every row knows the groups that linhead and depther correct, or one at   *)
(* most: else candidates come end to end, with the tokens before the        *)
(* patches in between and more than once.                                   *)
Knowing ==
    \A c \in Cases :
        /\ c.ratio \in Nat
        /\ c.executor \in {"linhead", "depther"} =>
              \A i \in 1 .. Len(c.plan) : \A r \in DOMAIN c.group :
                  c.plan[i].op = "CORRECT" =>
                      \/ c.plan[i].gid \in GroupsOf(c, r)
                      \/ \E g \in GroupsOf(c, r) : GroupsOf(c, r) = {g}
Rising(s) == \A i, j \in DOMAIN s : i < j => s[i] < s[j]

(* End to end with a single group is the group's members.                   *)
LEMMA EndToEndOne ==
    ASSUME NEW c \in Cases, NEW r \in DOMAIN c.group, NEW g, GroupsOf(c, r) = {g}
    PROVE  SubSeq(EndToEnd(c, r), c.pre + 1, Len(EndToEnd(c, r))) = Members(c, r, {g})
<1> DEFINE gids == Ascending(GroupsOf(c, r))
           each == [i \in DOMAIN gids |-> Ascending(Pre(c)) \o Members(c, r, {gids[i]})]
           s == Ascending(Pre(c))
           t == Members(c, r, {g})
<1>1. DOMAIN gids = 1 .. 1 /\ gids[1] = g
  <2>1. GroupsOf(c, r) \in SUBSET Int /\ IsFiniteSet(GroupsOf(c, r))
    BY RowFacts
  <2>2. Cardinality(GroupsOf(c, r)) = 1
    BY FS_Singleton
  <2>3. DOMAIN gids = 1 .. 1 /\ ToSet(gids) = {g}
    BY <2>1, <2>2, AscendingSeq
  <2> HIDE DEF gids
  <2>4. QED
    BY <2>3 DEF ToSet
<1>2. /\ s \in Seq(Tokens(c, r)) /\ Len(s) = c.pre /\ c.pre \in Nat
      /\ t \in Seq(Tokens(c, r))
  <2>1. Pre(c) \in SUBSET Int /\ Pre(c) \subseteq Tokens(c, r) /\ Patches(c, r) \subseteq Tokens(c, r)
    BY RowFacts DEF Tokens
  <2>2. s \in Seq(Pre(c)) /\ Len(s) = c.pre
    BY <2>1, RowFacts, AscendingSeq
  <2>3. t \in Seq(Patches(c, r))
    BY MembersFacts
  <2> HIDE DEF s, t
  <2>4. QED
    BY <2>1, <2>2, <2>3, RowFacts, SeqWiden
<1>3. EndToEnd(c, r) = FlattenSeq(each)
  BY DEF EndToEnd
<1> HIDE DEF gids
<1>4. each = [i \in 1 .. 1 |-> s \o t]
  <2>1. \A i \in 1 .. 1 : i = 1
    OBVIOUS
  <2>2. \A i \in DOMAIN gids : gids[i] = g
    BY <1>1, <2>1
  <2>3. each = [i \in DOMAIN gids |-> s \o t]
    BY <2>2
  <2>4. QED
    BY <1>1, <2>3
<1> HIDE DEF each, s, t
<1>5. each \in Seq(Seq(Tokens(c, r))) /\ Len(each) = 1 /\ each[1] = s \o t
  <2>1. s \o t \in Seq(Tokens(c, r))
    BY <1>2
  <2>2. each \in [1 .. 1 -> Seq(Tokens(c, r))]
    BY <1>4, <2>1
  <2>3. each[1] = s \o t
    BY <1>4
  <2>4. QED
    BY <2>2, <2>3, SeqMade
<1>6. EndToEnd(c, r) = s \o t
  BY <1>3, <1>5, FlattenSeqType
<1> DEFINE u == s \o t
           v == SubSeq(u, c.pre + 1, Len(u))
<1>7. /\ u \in Seq(Tokens(c, r)) /\ Len(u) = c.pre + Len(t)
      /\ \A i \in 1 .. Len(t) : u[c.pre + i] = t[i]
  BY <1>2
<1> HIDE DEF u
<1>8. /\ v \in Seq(Tokens(c, r)) /\ Len(v) = Len(t)
      /\ \A i \in 1 .. Len(t) : v[i] = u[c.pre + i]
  BY <1>2, <1>7
<1> HIDE DEF v
<1>9. v = t
  BY <1>2, <1>7, <1>8
<1>10. QED
  BY <1>6, <1>9 DEF t, u, v

(* The candidates of a row are its patches, in their order.                 *)
LEMMA CandidatesRise ==
    ASSUME NEW c \in Cases, NEW r \in DOMAIN c.group, NEW gid,
           c.executor \in {"linhead", "depther"} =>
              gid \in GroupsOf(c, r) \/ \E g : GroupsOf(c, r) = {g}
    PROVE  /\ Candidates(c, r, gid) \in Seq(Patches(c, r))
           /\ Rising(Candidates(c, r, gid))
<1>1. c.executor \in {"classifier", "detector", "m2f", "linhead", "depther", "vggt"}
  BY CorrectionAssumption
<1>2. \E gids : Candidates(c, r, gid) = Members(c, r, gids)
  <2>1. CASE gid \in GroupsOf(c, r) \/ c.executor \in {"classifier", "detector", "vggt"}
    BY <2>1 DEF Candidates
  <2>2. CASE /\ ~(gid \in GroupsOf(c, r) \/ c.executor \in {"classifier", "detector", "vggt"})
             /\ c.executor = "m2f"
    BY <2>2 DEF Candidates
  <2>3. CASE /\ ~(gid \in GroupsOf(c, r) \/ c.executor \in {"classifier", "detector", "vggt"})
             /\ c.executor # "m2f"
    <3>1. PICK g : GroupsOf(c, r) = {g}
      BY <1>1, <2>3
    <3>2. Candidates(c, r, gid) = SubSeq(EndToEnd(c, r), c.pre + 1, Len(EndToEnd(c, r)))
      BY <2>3 DEF Candidates
    <3>3. QED
      BY <3>1, <3>2, EndToEndOne
  <2>4. QED
    BY <2>1, <2>2, <2>3
<1>3. QED
  BY <1>2, MembersFacts DEF Rising

(* The row's own candidates come first, copies of the last one behind.      *)
Copies(c, own, cands) ==
    /\ Len(own) <= Len(cands)
    /\ \A i \in 1 .. Len(own) : cands[i] = own[i]
    /\ \A i \in Len(own) + 1 .. Len(cands) :
          cands[i] = IF own = << >> THEN c.pre - 1 ELSE own[Len(own)]

LEMMA PadCopies ==
    ASSUME NEW c \in Cases, NEW r \in DOMAIN c.group, NEW gid, NEW width \in Nat,
           Len(Candidates(c, r, gid)) <= width
    PROVE  /\ Copies(c, Candidates(c, r, gid), Pad(c, r, gid, width))
           /\ c.executor \notin {"m2f", "vggt"} \/ (c.executor = "m2f" /\ Candidates(c, r, gid) = << >>) =>
                 Pad(c, r, gid, width) = Candidates(c, r, gid)
<1> DEFINE own == Candidates(c, r, gid)
           last == IF own = << >> THEN c.pre - 1 ELSE Last(own)
           tail == [i \in 1 .. width - Len(own) |-> last]
<1>1. own \in Seq(Tokens(c, r)) /\ Len(own) <= width
  BY CandidatesType
<1>2. Pad(c, r, gid, width) = IF Padded(c, own) THEN own \o tail ELSE own
  BY DEF Pad
<1>3. last = IF own = << >> THEN c.pre - 1 ELSE own[Len(own)]
  BY DEF Last
<1>4. Padded(c, own) <=> c.executor = "vggt" \/ (c.executor = "m2f" /\ own # << >>)
  BY DEF Padded
<1> HIDE DEF own, last
<1>5. CASE Padded(c, own)
  <2> DEFINE m == width - Len(own)
  <2>1. m \in Nat /\ Len(own) \in Nat
    BY <1>1
  <2>2. tail \in Seq({last}) /\ Len(tail) = m /\ \A i \in 1 .. m : tail[i] = last
    BY <2>1
  <2> HIDE DEF tail, m
  <2> DEFINE p == own \o tail
  <2>3. /\ Len(p) = Len(own) + m
        /\ \A i \in 1 .. Len(own) : p[i] = own[i]
        /\ \A i \in Len(own) + 1 .. Len(own) + m : p[i] = tail[i - Len(own)]
    BY <1>1, <2>2
  <2> HIDE DEF p
  <2>4. ASSUME NEW i \in Len(own) + 1 .. Len(p) PROVE p[i] = last
    <3>1. i - Len(own) \in 1 .. m /\ i \in Len(own) + 1 .. Len(own) + m
      BY <2>1, <2>3
    <3>2. QED
      BY <2>2, <2>3, <3>1
  <2>5. Len(own) <= Len(p)
    BY <2>1, <2>3
  <2>6. Copies(c, own, p)
    BY <1>3, <2>3, <2>4, <2>5 DEF Copies
  <2>7. Pad(c, r, gid, width) = p
    BY <1>2, <1>5 DEF p
  <2>8. QED
    BY <1>4, <1>5, <2>6, <2>7 DEF own
<1>6. CASE ~Padded(c, own)
  <2>1. Pad(c, r, gid, width) = own
    BY <1>2, <1>6
  <2>2. Copies(c, own, own)
    <3>1. Len(own) \in Nat
      BY <1>1
    <3>2. Len(own) + 1 .. Len(own) = {}
      BY <3>1
    <3>3. QED
      BY <3>1, <3>2 DEF Copies
  <2>3. QED
    BY <2>1, <2>2 DEF own
<1>7. QED
  BY <1>5, <1>6

(* A larger batch keeps no fewer.                                           *)
LEMMA QuotaGrows ==
    ASSUME NEW c, c.ratio \in Nat, NEW m \in Nat, NEW n \in Nat, m <= n
    PROVE  Quota(c, m) \in Nat /\ Quota(c, m) <= Quota(c, n)
<1> DEFINE a == m * c.ratio
           b == n * c.ratio
<1>1. a \in Nat /\ b \in Nat /\ a <= b
  <2>1. n = m + (n - m) /\ n - m \in Nat
    OBVIOUS
  <2>2. (m + (n - m)) * c.ratio = m * c.ratio + (n - m) * c.ratio /\ (n - m) * c.ratio \in Nat
    BY <2>1
  <2>3. QED
    BY <2>1, <2>2
<1> HIDE DEF a, b
<1>2. /\ a \div 100 \in Nat /\ b \div 100 \in Nat
      /\ 100 * (a \div 100) <= a /\ b < 100 * (b \div 100) + 100
  BY <1>1, Division, 100 \in Nat \ {0}
<1> DEFINE d == a \div 100
           e == b \div 100
<1>3. d \in Nat /\ e \in Nat /\ d <= e
  BY <1>1, <1>2
<1> HIDE DEF d, e
<1>4. /\ Min({d, m}) = IF d <= m THEN d ELSE m
      /\ Min({e, n}) = IF e <= n THEN e ELSE n
  BY <1>3, OfTwo
<1>5. Quota(c, m) = Min({d, m}) /\ Quota(c, n) = Min({e, n})
  BY DEF Quota, a, b, d, e
<1>6. QED
  BY <1>3, <1>4, <1>5

(* As many as there are positions.                                          *)
LEMMA RisingCounts ==
    ASSUME NEW own \in Seq(Nat), Rising(own)
    PROVE  /\ IsFiniteSet(ToSet(own)) /\ Cardinality(ToSet(own)) = Len(own)
           /\ \A i, j \in 1 .. Len(own) : (own[i] = own[j] => i = j) /\ (own[i] < own[j] <=> i < j)
<1> DEFINE n == Len(own)
           f == [i \in 1 .. n |-> own[i]]
<1>1. n \in Nat /\ DOMAIN own = 1 .. n
  OBVIOUS
<1>2. \A i, j \in 1 .. n : (own[i] = own[j] => i = j) /\ (own[i] < own[j] <=> i < j)
  <2> SUFFICES ASSUME NEW i \in 1 .. n, NEW j \in 1 .. n
               PROVE  (own[i] = own[j] => i = j) /\ (own[i] < own[j] <=> i < j)
    OBVIOUS
  <2>1. own[i] \in Nat /\ own[j] \in Nat /\ i \in Int /\ j \in Int
    BY <1>1
  <2>2. (i < j => own[i] < own[j]) /\ (j < i => own[j] < own[i])
    BY <1>1 DEF Rising
  <2>3. QED
    BY <2>1, <2>2
<1> HIDE DEF n
<1>3. f \in Bijection(1 .. n, ToSet(own))
  <2>1. f \in [1 .. n -> ToSet(own)] /\ \A t \in ToSet(own) : \E i \in 1 .. n : f[i] = t
    BY <1>1 DEF ToSet
  <2>2. \A i, j \in 1 .. n : f[i] = f[j] => i = j
    BY <1>2
  <2> HIDE DEF f
  <2>3. QED
    BY <2>1, <2>2 DEF Bijection, Injection, Surjection, IsInjective
<1>4. IsFiniteSet(1 .. n) /\ Cardinality(1 .. n) = n
  <2>1. IsFiniteSet(1 .. n) /\ Cardinality(1 .. n) = IF 1 > n THEN 0 ELSE n - 1 + 1
    BY <1>1, FS_Interval, 1 \in Int
  <2>2. QED
    BY <1>1, <2>1
<1>5. IsFiniteSet(ToSet(own)) /\ Cardinality(ToSet(own)) = n
  BY <1>3, <1>4, FS_Bijection DEF ExistsBijection
<1>6. QED
  BY <1>2, <1>5 DEF n

(* By ratio: a position of the row's own has no more better positions than  *)
(* its token has better tokens.                                             *)
BetterOf(c, scs, r, own, over, t) ==
    {u \in ToSet(own) :
        LET other == Score(c, scs, r, u, over)
            mine == Score(c, scs, r, t, over)
        IN  other > mine \/ (other = mine /\ u < t)}

LEMMA RatioKeeps ==
    ASSUME NEW c \in Cases, ~UseThreshold(c), c.ratio \in Nat, NEW scs, NEW r, NEW over,
           NEW own \in Seq(Nat), Rising(own), NEW cands, cands \in Seq(Nat), Copies(c, own, cands),
           NEW valid \in Nat, Len(own) <= valid, valid = Len(own) \/ Len(cands) = Len(own),
           NEW t \in ToSet(own),
           Cardinality(BetterOf(c, scs, r, own, over, t)) < Quota(c, Cardinality(ToSet(own)))
    PROVE  t \in Picked(c, scs, r, cands, valid, over)
<1> DEFINE n == Len(own)
           m == Len(cands)
           mask == KeepMask(c, scs, r, cands, valid, over)
<1>1. /\ n \in Nat /\ m \in Nat /\ n <= m
      /\ DOMAIN own = 1 .. n /\ DOMAIN cands = 1 .. m
      /\ \A i \in 1 .. n : cands[i] = own[i]
      /\ valid \in Nat /\ n <= valid /\ (valid = n \/ m = n)
  BY DEF Copies
<1>2. PICK p \in 1 .. n : own[p] = t
  BY <1>1 DEF ToSet
<1> HIDE DEF n, m
<1>3. p \in DOMAIN cands /\ cands[p] = t /\ ~(p > valid)
  BY <1>1, <1>2
<1>4. p \in mask
  <2> DEFINE b == {q \in Better(c, scs, r, cands, over, p) : q <= valid}
             d == BetterOf(c, scs, r, own, over, t)
             f == [q \in b |-> own[q]]
  <2>1. p \in mask <=> Cardinality(b) < Quota(c, Len(cands))
    BY <1>3 DEF KeepMask
  <2>2. IsFiniteSet(d)
    <3>1. d \subseteq ToSet(own)
      BY DEF BetterOf
    <3> HIDE DEF d
    <3>2. QED
      BY <3>1, RisingCounts, FS_Subset
  <2>3. ASSUME NEW q \in b PROVE q \in 1 .. n /\ own[q] \in d
    <3>1. q \in 1 .. m /\ q <= valid
      BY <1>1 DEF Better
    <3> HIDE DEF b
    <3>2. q \in 1 .. n
      BY <1>1, <3>1
    <3>3. \/ Score(c, scs, r, cands[q], over) > Score(c, scs, r, cands[p], over)
          \/ Score(c, scs, r, cands[q], over) = Score(c, scs, r, cands[p], over) /\ q < p
      BY DEF Better, b
    <3>4. cands[q] = own[q] /\ cands[p] = t
      BY <1>1, <1>3, <3>2
    <3>5. q < p => own[q] < t
      BY <1>2, <3>2, RisingCounts DEF n
    <3>6. own[q] \in ToSet(own)
      BY <1>1, <3>2 DEF ToSet
    <3>7. QED
      BY <3>2, <3>3, <3>4, <3>5, <3>6 DEF BetterOf
  <2>4. f \in Injection(b, d)
    <3> HIDE DEF b, d
    <3>1. f \in [b -> d]
      BY <2>3
    <3>2. \A x, y \in b : f[x] = f[y] => x = y
      BY <2>3, RisingCounts DEF n
    <3> HIDE DEF f
    <3>3. QED
      BY <3>1, <3>2 DEF Injection, IsInjective
  <2>5. Cardinality(b) <= Cardinality(d) /\ IsFiniteSet(b)
    <3> HIDE DEF b, d, f
    <3>1. QED
      BY <2>2, <2>4, FS_Injection
  <2>6. Quota(c, n) <= Quota(c, Len(cands)) /\ Cardinality(ToSet(own)) = n
        /\ Quota(c, n) \in Nat /\ Quota(c, Len(cands)) \in Nat
    <3>1. Cardinality(ToSet(own)) = n
      BY RisingCounts DEF n
    <3>2. Quota(c, n) \in Nat /\ Quota(c, n) <= Quota(c, m) /\ Quota(c, m) \in Nat
      <4>1. m <= m
        BY <1>1
      <4>2. QED
        BY <1>1, <4>1, QuotaGrows
    <3>3. QED
      BY <3>1, <3>2 DEF m
  <2>7. Cardinality(b) \in Nat /\ Cardinality(d) \in Nat
    <3> HIDE DEF b, d
    <3>1. QED
      BY <2>2, <2>5, FS_CardinalityType
  <2> HIDE DEF b, mask
  <2>8. QED
    BY <2>1, <2>5, <2>6, <2>7
<1>5. CASE c.ratio >= 100
  <2>1. PackedQuery(c, cands, mask) = cands
    BY <1>5 DEF PackedQuery
  <2>2. QED
    BY <1>3, <2>1 DEF Picked, ToSet
<1>6. CASE ~(c.ratio >= 100)
  <2> DEFINE order == Ascending(mask)
             k == Cardinality(mask)
  <2>0. mask \subseteq DOMAIN cands
    BY DEF KeepMask
  <2>1. PackedQuery(c, cands, mask) = [i \in 1 .. k |-> cands[order[i]]]
    BY <1>6 DEF PackedQuery
  <2>2. \E i \in 1 .. k : order[i] = p
    <3> HIDE DEF mask
    <3>1. IsFiniteSet(1 .. m)
      BY <1>1, FS_Interval, 1 \in Int
    <3>2. mask \in SUBSET (1 .. m)
      BY <1>1, <2>0
    <3>3. mask \in SUBSET Int
      BY <3>2
    <3>4. IsFiniteSet(mask)
      BY <3>1, <3>2, FS_Subset
    <3>5. QED
      BY <1>4, <3>3, <3>4, AscendingSorted
  <2> HIDE DEF mask, order, k
  <2>3. t \in ToSet(PackedQuery(c, cands, mask))
    BY <1>3, <2>1, <2>2 DEF ToSet
  <2>4. QED
    BY <2>3 DEF Picked, mask
<1>7. QED
  BY <1>5, <1>6

(* Over a threshold: the mask is where candidates reach it, and no token of *)
(* the row's own that does is missing among the first.                      *)
ReachOf(c, scs, r, own, over) == {t \in ToSet(own) : Reaches(c, scs, r, t, over)}

LEMMA ThresholdMask ==
    ASSUME NEW c \in Cases, UseThreshold(c), NEW scs, NEW r, NEW over,
           NEW own \in Seq(Nat), NEW cands \in Seq(Nat), Copies(c, own, cands),
           NEW valid \in Nat, Len(own) <= valid
    PROVE  LET mask == KeepMask(c, scs, r, cands, valid, over)
               reach == ReachOf(c, scs, r, own, over)
           IN  /\ mask \in SUBSET (1 .. Len(cands))
               /\ \A p \in mask : cands[p] \in reach \cup Pre(c)
               /\ \A p \in mask : p <= Len(own) => cands[p] \in reach
               /\ \A t \in reach : \E p \in mask : p \in 1 .. Len(own) /\ cands[p] = t
<1> DEFINE n == Len(own)
           m == Len(cands)
           mask == KeepMask(c, scs, r, cands, valid, over)
           reach == ReachOf(c, scs, r, own, over)
<1>1. /\ n \in Nat /\ m \in Nat /\ n <= m
      /\ DOMAIN own = 1 .. n /\ DOMAIN cands = 1 .. m
      /\ \A i \in 1 .. n : cands[i] = own[i]
      /\ \A i \in n + 1 .. m : cands[i] = IF own = << >> THEN c.pre - 1 ELSE own[n]
      /\ n <= valid /\ (own = << >> <=> n = 0)
  BY DEF Copies
<1>2. c.pre - 1 \in Pre(c)
  <2>1. c.pre \in Nat \ {0}
    BY CorrectionAssumption
  <2>2. QED
    BY <2>1 DEF Pre
<1>3. mask = {p \in 1 .. m : p <= valid /\ Reaches(c, scs, r, cands[p], over)}
  BY <1>1 DEF KeepMask
<1> HIDE DEF n, m, mask
<1>4. ToSet(own) = {own[i] : i \in 1 .. n}
  BY <1>1 DEF ToSet
<1>5. ASSUME NEW p \in mask
      PROVE  cands[p] \in reach \cup Pre(c) /\ (p <= n => cands[p] \in reach)
  <2>1. p \in 1 .. m /\ Reaches(c, scs, r, cands[p], over)
    BY <1>3
  <2>2. CASE p <= n
    <3>1. p \in 1 .. n
      BY <1>1, <2>1, <2>2
    <3>2. cands[p] \in ToSet(own)
      BY <1>1, <1>4, <3>1
    <3>3. QED
      BY <2>1, <3>2 DEF ReachOf
  <2>3. CASE ~(p <= n)
    <3>1. p \in n + 1 .. m
      BY <1>1, <2>1, <2>3
    <3>2. CASE own = << >>
      BY <1>1, <1>2, <2>3, <3>1, <3>2
    <3>3. CASE own # << >>
      <4>1. cands[p] = own[n] /\ n \in 1 .. n
        BY <1>1, <3>1, <3>3
      <4>2. cands[p] \in ToSet(own)
        BY <1>4, <4>1
      <4>3. QED
        BY <2>1, <2>3, <4>2 DEF ReachOf
    <3>4. QED
      BY <3>2, <3>3
  <2>4. QED
    BY <2>2, <2>3
<1>6. ASSUME NEW t \in reach PROVE \E p \in mask : p \in 1 .. n /\ cands[p] = t
  <2>1. PICK p \in 1 .. n : own[p] = t
    BY <1>4 DEF ReachOf
  <2>2. p \in 1 .. m /\ p <= valid /\ cands[p] = t
    BY <1>1, <2>1
  <2>3. Reaches(c, scs, r, t, over)
    BY DEF ReachOf
  <2>4. QED
    BY <1>3, <2>1, <2>2, <2>3
<1>7. mask \in SUBSET (1 .. m)
  BY <1>3
<1>8. QED
  BY <1>5, <1>6, <1>7 DEF n, m, mask

(* Without a fixed width all of them are recomputed.                        *)
LEMMA ThresholdKeeps ==
    ASSUME NEW c \in Cases, UseThreshold(c), c.cap = 0, NEW scs, NEW r, NEW over,
           NEW own \in Seq(Nat), NEW cands \in Seq(Nat), Copies(c, own, cands),
           NEW valid \in Nat, Len(own) <= valid
    PROVE  Picked(c, scs, r, cands, valid, over) \ Pre(c) = ReachOf(c, scs, r, own, over) \ Pre(c)
<1> DEFINE mask == KeepMask(c, scs, r, cands, valid, over)
           reach == ReachOf(c, scs, r, own, over)
<1>1. /\ mask \in SUBSET (1 .. Len(cands))
      /\ \A p \in mask : cands[p] \in reach \cup Pre(c)
      /\ \A t \in reach : \E p \in mask : cands[p] = t
  <2>1. /\ mask \in SUBSET (1 .. Len(cands))
        /\ \A p \in mask : cands[p] \in reach \cup Pre(c)
        /\ \A p \in mask : p <= Len(own) => cands[p] \in reach
        /\ \A t \in reach : \E p \in mask : p \in 1 .. Len(own) /\ cands[p] = t
    BY ThresholdMask
  <2> HIDE DEF mask, reach
  <2>2. QED
    BY <2>1
<1> DEFINE order == Ascending(mask)
           k == Cardinality(mask)
           query == PackedQuery(c, cands, mask)
<1>2. query = [i \in 1 .. k |-> cands[order[i]]]
  BY DEF PackedQuery
<1> HIDE DEF mask, reach
<1>3. mask \in SUBSET Int /\ IsFiniteSet(mask)
  <2>1. Len(cands) \in Int
    OBVIOUS
  <2>2. IsFiniteSet(1 .. Len(cands))
    BY <2>1, FS_Interval, 1 \in Int
  <2>3. IsFiniteSet(mask)
    BY <1>1, <2>2, FS_Subset
  <2>4. mask \in SUBSET Int
    BY <1>1
  <2>5. QED
    BY <2>3, <2>4
<1>4. /\ order \in [1 .. k -> mask]
      /\ \A p \in mask : \E i \in 1 .. k : order[i] = p
  BY <1>3, AscendingSorted
<1> HIDE DEF order, k, query
<1>5. ToSet(query) = {cands[p] : p \in mask}
  <2>1. DOMAIN query = 1 .. k /\ \A i \in 1 .. k : query[i] = cands[order[i]] /\ order[i] \in mask
    BY <1>2, <1>4
  <2>2. ToSet(query) = {query[i] : i \in 1 .. k}
    BY <2>1 DEF ToSet
  <2>3. ASSUME NEW p \in mask PROVE cands[p] \in {query[i] : i \in 1 .. k}
    BY <1>4, <2>1
  <2>4. QED
    BY <2>1, <2>2, <2>3
<1>6. Picked(c, scs, r, cands, valid, over) = {cands[p] : p \in mask}
  BY <1>5 DEF Picked, query, mask
<1>7. QED
  BY <1>1, <1>6 DEF reach

(* At a fixed width the first of the kept have their slots, and nothing     *)
(* else has one if something is kept.                                       *)
LEMMA StaticSlots ==
    ASSUME NEW c \in Cases, NEW T, NEW cands \in Seq(T), NEW mask \in SUBSET DOMAIN cands
    PROVE  LET slots == ToSet(PackedStatic(c, cands, mask))
           IN  /\ IsFiniteSet(slots) /\ Cardinality(slots) <= c.cap
               /\ mask # {} => slots \subseteq {cands[p] : p \in mask}
               /\ \A x \in mask :
                     Cardinality({y \in mask : y <= x}) <= c.cap => cands[x] \in slots
<1> DEFINE n == Len(cands)
           rest == DOMAIN cands \ mask
           s == Ascending(mask)
           order == s \o Ascending(rest)
           k == Cardinality(mask)
           last == Max({k, 1})
           width == Min({c.cap, n})
           packed == PackedStatic(c, cands, mask)
<1>1. n \in Nat /\ DOMAIN cands = 1 .. n /\ c.cap \in Nat
  BY CorrectionAssumption
<1>2. packed = [i \in 1 .. width |-> cands[order[Min({i, last})]]]
  BY DEF PackedStatic
<1> HIDE DEF n, packed
<1>3. /\ IsFiniteSet(mask) /\ IsFiniteSet(rest) /\ mask \in SUBSET Int /\ rest \in SUBSET Int
      /\ k \in Nat /\ k <= n /\ mask \in SUBSET (1 .. n)
  <2>1. IsFiniteSet(1 .. n) /\ Cardinality(1 .. n) = IF 1 > n THEN 0 ELSE n - 1 + 1
    BY <1>1, FS_Interval, 1 \in Int
  <2>2. (IF 1 > n THEN 0 ELSE n - 1 + 1) = n
    BY <1>1
  <2>3. mask \in SUBSET (1 .. n) /\ rest \in SUBSET (1 .. n)
    BY <1>1
  <2> DEFINE size == Cardinality(1 .. n)
  <2> HIDE DEF rest, s, order, last, width, size
  <2>4. IsFiniteSet(mask) /\ IsFiniteSet(rest) /\ k <= n
    <3>1. size = n
      BY <2>1, <2>2 DEF size
    <3>2. IsFiniteSet(mask) /\ Cardinality(mask) <= size
      BY <2>1, <2>3, FS_Subset DEF size
    <3>3. IsFiniteSet(rest)
      BY <2>1, <2>3, FS_Subset
    <3>4. QED
      BY <3>1, <3>2, <3>3
  <2>5. k \in Nat
    BY <2>4, FS_CardinalityType
  <2>6. mask \in SUBSET Int /\ rest \in SUBSET Int
    BY <2>3
  <2>7. QED
    BY <2>3, <2>4, <2>5, <2>6
<1>4. /\ s \in [1 .. k -> mask] /\ s \in Seq(mask) /\ Len(s) = k
      /\ \A x \in mask : \E i \in 1 .. k : s[i] = x
      /\ \A i, j \in 1 .. k : i < j => s[i] < s[j]
      /\ Ascending(rest) \in Seq(rest)
  BY <1>3, AscendingSorted, AscendingSeq
<1>5. \A i \in 1 .. k : order[i] = s[i]
  <2> DEFINE t == Ascending(rest)
             D == mask \cup rest
  <2>1. mask \subseteq D /\ rest \subseteq D
    OBVIOUS
  <2>2. s \in Seq(mask) /\ t \in Seq(rest) /\ Len(s) = k
    BY <1>4
  <2> HIDE DEF s, t, rest, D, k
  <2>3. s \in Seq(D) /\ t \in Seq(D)
    BY <2>1, <2>2, SeqWiden
  <2>4. \A i \in 1 .. Len(s) : (s \o t)[i] = s[i]
    BY <2>3
  <2>5. QED
    BY <2>2, <2>4 DEF t
<1> HIDE DEF s, order, k, rest
<1>6. /\ width = IF c.cap <= n THEN c.cap ELSE n
      /\ last = IF k >= 1 THEN k ELSE 1
      /\ \A i \in Int : Min({i, last}) = IF i <= last THEN i ELSE last
  <2>1. last = IF k >= 1 THEN k ELSE 1
    <3>1. k \in Int
      BY <1>3
    <3>2. QED
      BY <3>1, OfTwo, 1 \in Int
  <2>2. last \in Int
    BY <1>3, <2>1
  <2> HIDE DEF last
  <2>3. QED
    BY <1>1, <2>1, <2>2, OfTwo
<1> HIDE DEF width, last
<1>7. width \in Nat /\ width <= c.cap /\ width <= n /\ DOMAIN packed = 1 .. width
  BY <1>1, <1>2, <1>6
<1>8. IsFiniteSet(ToSet(packed)) /\ Cardinality(ToSet(packed)) <= c.cap
  <2> DEFINE f == [i \in 1 .. width |-> packed[i]]
  <2>1. f \in Surjection(1 .. width, ToSet(packed))
    <3>1. f \in [1 .. width -> ToSet(packed)] /\ \A t \in ToSet(packed) : \E i \in 1 .. width : f[i] = t
      BY <1>7 DEF ToSet
    <3> HIDE DEF f
    <3>2. QED
      BY <3>1 DEF Surjection
  <2>2. IsFiniteSet(1 .. width) /\ Cardinality(1 .. width) = IF 1 > width THEN 0 ELSE width - 1 + 1
    BY <1>7, FS_Interval, 1 \in Int
  <2>3. Cardinality(1 .. width) = width
    BY <1>7, <2>2
  <2> HIDE DEF f
  <2>4. IsFiniteSet(ToSet(packed)) /\ Cardinality(ToSet(packed)) <= width
    BY <2>1, <2>2, <2>3, FS_Surjection
  <2>5. Cardinality(ToSet(packed)) \in Nat
    BY <2>4, FS_CardinalityType
  <2>6. QED
    BY <1>1, <1>7, <2>4, <2>5
<1>9. ASSUME mask # {} PROVE ToSet(packed) \subseteq {cands[p] : p \in mask}
  <2>1. k >= 1
    <3>1. PICK x : x \in mask
      BY <1>9
    <3>2. QED
      BY <1>3, <1>4, <3>1
  <2>2. ASSUME NEW i \in 1 .. width PROVE packed[i] \in {cands[p] : p \in mask}
    <3>1. Min({i, last}) \in 1 .. k
      BY <1>3, <1>6, <1>7, <2>1
    <3>2. order[Min({i, last})] \in mask
      BY <1>4, <1>5, <3>1
    <3>3. packed[i] = cands[order[Min({i, last})]]
      BY <1>2
    <3>4. QED
      BY <3>2, <3>3
  <2>3. QED
    BY <1>7, <2>2 DEF ToSet
<1>10. ASSUME NEW x \in mask, Cardinality({y \in mask : y <= x}) <= c.cap
       PROVE  cands[x] \in ToSet(packed)
  <2> DEFINE low == {y \in mask : y <= x}
  <2>1. PICK i \in 1 .. k : s[i] = x
    BY <1>4
  <2>2. i <= Cardinality(low) /\ Cardinality(low) \in Nat
    <3> DEFINE f == [j \in 1 .. i |-> s[j]]
    <3>1. ASSUME NEW j \in 1 .. i PROVE s[j] \in low
      <4>1. j \in 1 .. k /\ (j < i \/ j = i)
        BY <1>3
      <4>2. s[j] \in mask /\ s[j] \in Int /\ x \in Int
        BY <1>3, <1>4, <4>1
      <4>3. s[j] < s[i] \/ s[j] = s[i]
        BY <1>4, <4>1
      <4>4. QED
        BY <2>1, <4>2, <4>3
    <3>2. \A j, h \in 1 .. i : s[j] = s[h] => j = h
      <4> SUFFICES ASSUME NEW j \in 1 .. i, NEW h \in 1 .. i, s[j] = s[h], j # h PROVE FALSE
        OBVIOUS
      <4>1. j \in 1 .. k /\ h \in 1 .. k /\ (j < h \/ h < j)
        BY <1>3
      <4>2. s[j] \in Int /\ s[h] \in Int
        BY <1>3, <1>4, <4>1
      <4>3. QED
        BY <1>4, <4>1, <4>2
    <3>3. IsFiniteSet(low)
      <4>1. low \subseteq mask
        OBVIOUS
      <4> HIDE DEF low
      <4>2. QED
        BY <1>3, <4>1, FS_Subset
    <3> HIDE DEF low
    <3>4. f \in Injection(1 .. i, low)
      <4>1. f \in [1 .. i -> low] /\ \A j, h \in 1 .. i : f[j] = f[h] => j = h
        BY <3>1, <3>2
      <4> HIDE DEF f
      <4>2. QED
        BY <4>1 DEF Injection, IsInjective
    <3> HIDE DEF f
    <3>5. Cardinality(1 .. i) <= Cardinality(low)
      BY <3>3, <3>4, FS_Injection
    <3>6. Cardinality(1 .. i) = i
      <4>1. i \in Int /\ i >= 1
        BY <1>3
      <4>2. Cardinality(1 .. i) = IF 1 > i THEN 0 ELSE i - 1 + 1
        BY <4>1, FS_Interval, 1 \in Int
      <4>3. QED
        BY <4>1, <4>2
    <3>7. QED
      BY <3>3, <3>5, <3>6, FS_CardinalityType
  <2>3. i \in 1 .. width /\ Min({i, last}) = i
    <3>1. i \in Int /\ 1 <= i /\ i <= k /\ i <= c.cap
      BY <1>1, <1>3, <1>10, <2>2
    <3>2. QED
      BY <1>1, <1>3, <1>6, <3>1
  <2>4. packed[i] = cands[x]
    BY <1>2, <1>5, <2>1, <2>3
  <2>5. QED
    BY <1>7, <2>3, <2>4 DEF ToSet
<1>11. QED
  BY <1>8, <1>9, <1>10 DEF packed

(* What that means for the row: up to token_keep_cap of its own that reach  *)
(* the threshold are all corrected, and never more than token_keep_cap.     *)
LEMMA ThresholdStatic ==
    ASSUME NEW c \in Cases, UseThreshold(c), c.cap > 0, NEW scs, NEW r, NEW over,
           NEW own \in Seq(Nat), Rising(own), NEW cands \in Seq(Nat), Copies(c, own, cands),
           NEW valid \in Nat, Len(own) <= valid
    PROVE  LET reach == ReachOf(c, scs, r, own, over)
               patches == Picked(c, scs, r, cands, valid, over) \ Pre(c)
           IN  /\ Cardinality(reach) \in 1 .. c.cap => patches = reach \ Pre(c)
               /\ Cardinality(patches) <= c.cap
<1> DEFINE mask == KeepMask(c, scs, r, cands, valid, over)
           reach == ReachOf(c, scs, r, own, over)
           slots == ToSet(PackedStatic(c, cands, mask))
           picked == Picked(c, scs, r, cands, valid, over)
<1>1. /\ mask \in SUBSET (1 .. Len(cands))
      /\ \A p \in mask : cands[p] \in reach \cup Pre(c)
      /\ \A p \in mask : p <= Len(own) => cands[p] \in reach
      /\ \A t \in reach : \E p \in mask : p \in 1 .. Len(own) /\ cands[p] = t
  BY ThresholdMask
<1>2. picked = slots
  BY DEF Picked, PackedQuery
<1>3. c.cap \in Nat
  BY CorrectionAssumption
<1>0. /\ Len(own) \in Nat /\ \A i \in 1 .. Len(own) : cands[i] = own[i]
      /\ reach \subseteq ToSet(own)
  BY DEF Copies, ReachOf
<1> HIDE DEF mask, reach
<1>4. mask \in SUBSET DOMAIN cands
  BY <1>1
<1>5. /\ IsFiniteSet(slots) /\ Cardinality(slots) <= c.cap
      /\ mask # {} => slots \subseteq {cands[p] : p \in mask}
      /\ \A x \in mask : Cardinality({y \in mask : y <= x}) <= c.cap => cands[x] \in slots
  BY <1>4, StaticSlots
<1> HIDE DEF slots, picked
<1>6. Cardinality(picked \ Pre(c)) <= c.cap
  <2>1. /\ IsFiniteSet(slots \ Pre(c)) /\ Cardinality(slots \ Pre(c)) <= Cardinality(slots)
    <3>1. slots \ Pre(c) \in SUBSET slots
      OBVIOUS
    <3>2. QED
      BY <1>5, <3>1, FS_Subset
  <2>2. Cardinality(slots) \in Nat /\ Cardinality(slots \ Pre(c)) \in Nat
    BY <1>5, <2>1, FS_CardinalityType
  <2>3. QED
    BY <1>2, <1>3, <1>5, <2>1, <2>2
<1>7. ASSUME Cardinality(reach) \in 1 .. c.cap PROVE picked \ Pre(c) = reach \ Pre(c)
  <2>1. IsFiniteSet(reach)
    BY <1>0, RisingCounts, FS_Subset
  <2>2. mask # {}
    <3>1. reach # {}
      <4>1. Cardinality(reach) # 0
        BY <1>3, <1>7
      <4>2. QED
        BY <4>1, FS_EmptySet
    <3>2. QED
      BY <1>1, <3>1
  <2>3. ASSUME NEW t \in reach PROVE t \in slots
    <3>1. PICK p \in mask : p \in 1 .. Len(own) /\ cands[p] = t
      BY <1>1
    <3> DEFINE low == {y \in mask : y <= p}
               f == [y \in low |-> cands[y]]
    <3>2. ASSUME NEW y \in low PROVE y \in 1 .. Len(own) /\ cands[y] \in reach /\ cands[y] = own[y]
      <4>1. y \in 1 .. Len(cands) /\ y <= p /\ y \in mask
        BY <1>1
      <4>2. y \in 1 .. Len(own)
        BY <1>0, <3>1, <4>1
      <4>3. QED
        BY <1>0, <1>1, <4>1, <4>2
    <3> HIDE DEF low
    <3>3. f \in Injection(low, reach)
      <4>1. f \in [low -> reach]
        BY <3>2
      <4>2. \A x, y \in low : f[x] = f[y] => x = y
        BY <3>2, RisingCounts
      <4> HIDE DEF f
      <4>3. QED
        BY <4>1, <4>2 DEF Injection, IsInjective
    <3> HIDE DEF f
    <3>4. Cardinality(low) <= Cardinality(reach) /\ IsFiniteSet(low)
      BY <2>1, <3>3, FS_Injection
    <3>5. Cardinality(low) \in Nat /\ Cardinality(reach) \in Nat
      BY <2>1, <3>4, FS_CardinalityType
    <3>6. Cardinality(low) <= c.cap
      BY <1>3, <1>7, <3>4, <3>5
    <3>7. QED
      BY <1>5, <3>1, <3>6 DEF low
  <2>4. slots \subseteq reach \cup Pre(c)
    BY <1>1, <1>5, <2>2
  <2>5. QED
    BY <1>2, <2>3, <2>4
<1>8. QED
  BY <1>6, <1>7 DEF reach, picked

(* What a row in a batch recomputes, by its own candidates.                 *)
LEMMA OwnPicked ==
    ASSUME NEW c \in Cases, c.ratio \in Nat, NEW b \in SUBSET DOMAIN c.group, NEW r \in b, NEW gid,
           c.executor \in {"linhead", "depther"} =>
              gid \in GroupsOf(c, r) \/ \E g : GroupsOf(c, r) = {g},
           NEW scs, NEW over
    PROVE  LET own == Candidates(c, r, gid)
               cands == Batch(c, b, gid)[r]
               picked == Picked(c, scs, r, cands, Valid(c, b, gid)[r], over)
               reach == ReachOf(c, scs, r, own, over)
           IN  /\ UseThreshold(c) =>
                     IF c.cap = 0 \/ Cardinality(reach) \in 1 .. c.cap
                     THEN picked \ Pre(c) = reach \ Pre(c)
                     ELSE Cardinality(picked \ Pre(c)) <= Max({c.cap, 1})
               /\ ~UseThreshold(c) /\ (c.executor = "vggt" => Len(own) = Len(cands)) =>
                     \A t \in ToSet(own) :
                        Cardinality(BetterOf(c, scs, r, own, over, t)) < Quota(c, Cardinality(ToSet(own)))
                           => t \in picked
<1> DEFINE own == Candidates(c, r, gid)
           width == Width(c, b, gid)
           cands == Pad(c, r, gid, width)
           valid == IF c.executor = "m2f" THEN Len(own) ELSE width
           picked == Picked(c, scs, r, cands, valid, over)
           reach == ReachOf(c, scs, r, own, over)
<1>1. r \in DOMAIN c.group /\ Batch(c, b, gid)[r] = cands /\ Valid(c, b, gid)[r] = valid
  BY DEF Batch, Valid
<1>2. width \in Nat /\ Len(own) <= width
  BY WidthType
<1>3. own \in Seq(Nat) /\ Rising(own) /\ cands \in Seq(Nat)
  <2>1. Patches(c, r) \subseteq Nat /\ Tokens(c, r) \subseteq Nat
    BY <1>1, RowFacts DEF Tokens
  <2>2. own \in Seq(Patches(c, r)) /\ Rising(own)
    BY <1>1, CandidatesRise
  <2>3. cands \in Seq(Tokens(c, r))
    BY <1>1, <1>2, PadType
  <2> HIDE DEF own, cands
  <2>4. QED
    BY <2>1, <2>2, <2>3, SeqWiden
<1>4. /\ Copies(c, own, cands)
      /\ c.executor \notin {"m2f", "vggt"} => cands = own
  BY <1>1, <1>2, PadCopies
<1> HIDE DEF own, width, cands
<1>5. /\ valid \in Nat /\ Len(own) <= valid /\ c.cap \in Nat
      /\ c.executor = "m2f" => valid = Len(own)
  BY <1>2, <1>3, CorrectionAssumption
<1> HIDE DEF valid
<1>6. ASSUME UseThreshold(c)
      PROVE  IF c.cap = 0 \/ Cardinality(reach) \in 1 .. c.cap
             THEN picked \ Pre(c) = reach \ Pre(c)
             ELSE Cardinality(picked \ Pre(c)) <= Max({c.cap, 1})
  <2>1. CASE c.cap = 0
    BY <1>3, <1>4, <1>5, <1>6, <2>1, ThresholdKeeps
  <2>2. CASE c.cap > 0
    <3>1. /\ Cardinality(reach) \in 1 .. c.cap => picked \ Pre(c) = reach \ Pre(c)
          /\ Cardinality(picked \ Pre(c)) <= c.cap
      BY <1>3, <1>4, <1>5, <1>6, <2>2, ThresholdStatic
    <3>2. Max({c.cap, 1}) = c.cap
      <4>1. c.cap \in Int /\ c.cap >= 1
        BY <1>5, <2>2
      <4>2. Max({c.cap, 1}) = IF c.cap >= 1 THEN c.cap ELSE 1
        BY <4>1, OfTwo, 1 \in Int
      <4>3. QED
        BY <4>1, <4>2
    <3> HIDE DEF picked, reach
    <3>3. QED
      BY <2>2, <3>1, <3>2
  <2>3. QED
    BY <1>5, <2>1, <2>2
<1>7. ASSUME ~UseThreshold(c), c.executor = "vggt" => Len(own) = Len(cands), NEW t \in ToSet(own),
             Cardinality(BetterOf(c, scs, r, own, over, t)) < Quota(c, Cardinality(ToSet(own)))
      PROVE  t \in picked
  <2>1. valid = Len(own) \/ Len(cands) = Len(own)
    BY <1>4, <1>5, <1>7
  <2>2. QED
    BY <1>3, <1>4, <1>5, <1>7, <2>1, RatioKeeps
<1>8. QED
  BY <1>1, <1>6, <1>7 DEF own, cands, picked, reach

(* What a block recomputed is what the batch and these layers' scores say,  *)
(* whether it found its plan or made it.                                    *)
LEMMA ChosenBy ==
    ASSUME Safe, Stable, Apart(case), work # NoWork, Shareable,
           NEW r \in work.bucket, NEW l \in DOMAIN chosen[r]
    PROVE  chosen[r][l] = Pre(case) \cup
               Picked(case, scores, r, Batch(case, work.bucket, work.gid)[r],
                      Valid(case, work.bucket, work.gid)[r], ScoreLayers)
<1>1. /\ work.cands = Batch(case, work.bucket, work.gid)
      /\ work.valid = Valid(case, work.bucket, work.gid)
      /\ l \in 0 .. work.layer - 1
  BY DEF Safe, WorkOK, ChosenOK
<1>2. case.pscore # "per_layer"
  BY DEF Shareable
<1>3. chosen[r][l] = SelectFor(case, scores, work, Over(case, work, scored))[r]
  BY <1>1, <1>2 DEF Stable, Same
<1>4. SelectFor(case, scores, work, Over(case, work, scored)) = Select(ScoreLayers)
  BY PlanSame
<1>5. QED
  BY <1>1, <1>3, <1>4 DEF Select

(* Correction.tla's SelectionOwn: being corrected in a batch changes nothing*)
(* for a row.  Over a threshold it is corrected exactly where its own       *)
(* candidates reach it, by ratio at least in the best of its own.           *)
THEOREM CorrectionSelectionOwn == Renewing /\ Knowing => (Spec => []SelectionOwn)
<1> SUFFICES ASSUME Renewing, Knowing PROVE Spec => []SelectionOwn
  OBVIOUS
<1>1. Safe /\ Stable => SelectionOwn
  <2> SUFFICES ASSUME Safe, Stable, work # NoWork, Shareable,
                      NEW r \in work.bucket, NEW l \in DOMAIN chosen[r]
               PROVE  LET patches == chosen[r][l] \ Pre(case)
                          over == ScoreLayers
                      IN  IF UseThreshold(case) THEN ByThreshold(r, over, patches)
                          ELSE (Executor = "vggt" => Len(Candidates(case, r, work.gid)) = Len(work.cands[r]))
                                   => Best(r, over) \ Pre(case) \subseteq patches
    BY DEF SelectionOwn
  <2> DEFINE own == Candidates(case, r, work.gid)
             cands == Batch(case, work.bucket, work.gid)[r]
             valid == Valid(case, work.bucket, work.gid)[r]
             over == ScoreLayers
             picked == Picked(case, scores, r, cands, valid, over)
             patches == chosen[r][l] \ Pre(case)
             reach == ReachOf(case, scores, r, own, over)
  <2>1. /\ case \in Cases /\ step \in 1 .. Len(case.plan) /\ case.plan[step].op = "CORRECT"
        /\ work.gid = case.plan[step].gid /\ work.bucket \in Buckets(case, work.gid)
        /\ work.cands = Batch(case, work.bucket, work.gid)
    BY DEF Safe, Control, WorkOK
  <2>2. work.bucket \in SUBSET DOMAIN case.group /\ r \in DOMAIN case.group
    BY <2>1, BucketsFacts
  <2>3. /\ case.ratio \in Nat
        /\ case.executor \in {"linhead", "depther"} =>
              work.gid \in GroupsOf(case, r) \/ \E g : GroupsOf(case, r) = {g}
    BY <2>1, <2>2 DEF Knowing
  <2>4. patches = picked \ Pre(case)
    <3>1. chosen[r][l] = Pre(case) \cup picked
      BY <2>1, ChosenBy DEF Renewing
    <3> HIDE DEF picked
    <3>2. QED
      BY <3>1
  <2>5. Own(r) = ToSet(own) /\ Reaching(r, over) = reach
    BY DEF Own, Reaching, ReachOf
  <2>6. Best(r, over) = {t \in ToSet(own) :
           Cardinality(BetterOf(case, scores, r, own, over, t)) < Quota(case, Cardinality(ToSet(own)))}
    BY DEF Best, Own, BetterOf
  <2>7. /\ UseThreshold(case) =>
              IF case.cap = 0 \/ Cardinality(reach) \in 1 .. case.cap
              THEN picked \ Pre(case) = reach \ Pre(case)
              ELSE Cardinality(picked \ Pre(case)) <= Max({case.cap, 1})
        /\ ~UseThreshold(case) /\ (case.executor = "vggt" => Len(own) = Len(cands)) =>
              \A t \in ToSet(own) :
                 Cardinality(BetterOf(case, scores, r, own, over, t)) < Quota(case, Cardinality(ToSet(own)))
                    => t \in picked
    BY <2>1, <2>2, <2>3, OwnPicked
  <2> HIDE DEF own, cands, valid, over, picked, patches, reach
  <2>8. UseThreshold(case) => ByThreshold(r, over, patches)
    BY <2>4, <2>5, <2>7 DEF ByThreshold
  <2>9. ASSUME ~UseThreshold(case), case.executor = "vggt" => Len(own) = Len(cands)
        PROVE  Best(r, over) \ Pre(case) \subseteq patches
    BY <2>4, <2>6, <2>7, <2>9
  <2>10. cands = work.cands[r]
    BY <2>1 DEF cands
  <2>11. QED
    BY <2>8, <2>9, <2>10 DEF own, over, patches, Executor
<1>2. QED
  BY <1>1, SafeAlways, StableAlways, PTL
=============================================================================
