--------------------------- MODULE Executor_proofs ---------------------------
(***************************************************************************)
(* The plans of the policies and what the executors make of them: of what  *)
(* instructions a plan consists and where it answers.                      *)
(***************************************************************************)
EXTENDS Executor, Grouping_proofs, SequenceTheorems

-----------------------------------------------------------------------------
(* Instructions, and the plans made of them.  A plan does not answer, or it *)
(* answers at its end.                                                      *)
Opcodes == Skippable \cup {"EXIT_ALL", "SEND_RESPONSE", "FREE_SESSION"}
AnswerOps == {"SEND_RESPONSE", "FREE_SESSION"}
InstrOf(c) == [op : Opcodes, lo : 0 .. c.layers, hi : 0 .. c.layers,
               gid : Int, global : BOOLEAN]

Open(instrs) == \A i \in DOMAIN instrs : instrs[i].op \notin AnswerOps
Closing(instrs) ==
    /\ Len(instrs) >= 2
    /\ instrs[Len(instrs) - 1].op = "SEND_RESPONSE" /\ instrs[Len(instrs)].op = "FREE_SESSION"
    /\ \A i \in 1 .. Len(instrs) - 2 : instrs[i].op \notin AnswerOps

Quiescent(c, instrs) == instrs \in Seq(InstrOf(c)) /\ Open(instrs)
Answering(c, instrs) == instrs \in Seq(InstrOf(c)) /\ Closing(instrs)

PolicyType(c) == [req : Int, latest : 0 .. c.layers, group : Int, n : Nat \ {0}]

(* What comes first is nothing that answers.                                *)
LEMMA QuiescentConcat ==
    ASSUME NEW c, NEW s, NEW t, Quiescent(c, s), Quiescent(c, t)
    PROVE  Quiescent(c, s \o t)
<1> DEFINE I == InstrOf(c)
<1>1. s \in Seq(I) /\ t \in Seq(I)
  BY DEF Quiescent
<1> HIDE DEF I
<1>2. s \o t \in Seq(I) /\ DOMAIN (s \o t) = 1 .. Len(s) + Len(t)
  BY <1>1
<1>3. ASSUME NEW i \in 1 .. Len(s) + Len(t) PROVE (s \o t)[i].op \notin AnswerOps
  <2>1. CASE i <= Len(s)
    <3>1. (s \o t)[i] = s[i] /\ i \in DOMAIN s
      BY <1>1, <2>1
    <3>2. QED
      BY <3>1 DEF Quiescent, Open
  <2>2. CASE i > Len(s)
    <3>1. (s \o t)[i] = t[i - Len(s)] /\ i - Len(s) \in DOMAIN t
      BY <1>1, <2>2
    <3>2. QED
      BY <3>1 DEF Quiescent, Open
  <2>3. Len(s) \in Nat
    BY <1>1
  <2>4. QED
    BY <2>1, <2>2, <2>3
<1>4. QED
  BY <1>2, <1>3 DEF Quiescent, Open, I

(* ... and what comes last answers.                                         *)
LEMMA AnsweringConcat ==
    ASSUME NEW c, NEW s, NEW t, Quiescent(c, s), Answering(c, t)
    PROVE  Answering(c, s \o t)
<1> DEFINE I == InstrOf(c)
           m == Len(s)
           n == Len(t)
<1>1. s \in Seq(I) /\ t \in Seq(I) /\ Closing(t)
  BY DEF Quiescent, Answering
<1> HIDE DEF I
<1>2. s \o t \in Seq(I) /\ Len(s \o t) = m + n /\ m \in Nat /\ n \in Nat /\ n >= 2
  BY <1>1 DEF Closing
<1>3. \A i \in 1 .. n : (s \o t)[m + i] = t[i]
  BY <1>1
<1>4. \A i \in 1 .. m : (s \o t)[i] = s[i]
  BY <1>1
<1>5. (s \o t)[m + n - 1].op = "SEND_RESPONSE" /\ (s \o t)[m + n].op = "FREE_SESSION"
  <2>1. n - 1 \in 1 .. n /\ n \in 1 .. n /\ m + (n - 1) = m + n - 1
    BY <1>2
  <2>2. (s \o t)[m + n - 1] = t[n - 1] /\ (s \o t)[m + n] = t[n]
    BY <1>3, <2>1
  <2>3. QED
    BY <1>1, <2>2 DEF Closing
<1>6. ASSUME NEW i \in 1 .. m + n - 2 PROVE (s \o t)[i].op \notin AnswerOps
  <2>1. CASE i <= m
    <3>1. (s \o t)[i] = s[i] /\ i \in DOMAIN s
      BY <1>1, <1>4, <2>1
    <3>2. QED
      BY <3>1 DEF Quiescent, Open
  <2>2. CASE i > m
    <3>1. i - m \in 1 .. n - 2 /\ i - m \in 1 .. n /\ m + (i - m) = i
      BY <1>2, <2>2
    <3>2. (s \o t)[i] = t[i - m]
      BY <1>3, <3>1
    <3>3. QED
      BY <1>1, <3>1, <3>2 DEF Closing
  <2>3. QED
    BY <1>2, <2>1, <2>2
<1> HIDE DEF m, n
<1>7. QED
  BY <1>2, <1>5, <1>6 DEF Answering, Closing, I

(* Single instructions and optional ones.                                   *)
LEMMA QuiescentOne ==
    ASSUME NEW c, NEW i \in InstrOf(c), i.op \notin AnswerOps
    PROVE  Quiescent(c, << i >>)
  BY DEF Quiescent, Open

LEMMA QuiescentEmpty == ASSUME NEW c PROVE Quiescent(c, << >>)
  BY DEF Quiescent, Open

LEMMA QuiescentWhen ==
    ASSUME NEW c, NEW cond, NEW s, cond => Quiescent(c, s)
    PROVE  Quiescent(c, When(cond, s))
  BY QuiescentEmpty DEF When

-----------------------------------------------------------------------------
(* The configuration the policies read.                                     *)
LEMMA Configured ==
    ASSUME config \in Configs
    PROVE  /\ Policy \in GroupPolicies \cup DynamicPolicies \cup CountPolicies
           /\ TotalLayers \in Nat \ {0} /\ NumGroups \in Nat \ {0} /\ AheadLayers \in Nat
           /\ EarlyExit \in BOOLEAN /\ ApproxOnly \in BOOLEAN /\ Progressive \in BOOLEAN
           /\ PatchesPerBatch \in Nat
           /\ LayerSplit \in {"compute", "uniform", "full"}
           /\ StageCost \in [1 .. TotalLayers -> Nat \ {0}]
  BY PolicyAssumption DEF Policy, TotalLayers, NumGroups, AheadLayers, EarlyExit, ApproxOnly,
     Progressive, PatchesPerBatch, LayerSplit, StageCost

(* The chunks of layers follow one another from the first to the last.      *)
LEMMA BoundaryType ==
    ASSUME config \in Configs, NEW n \in Nat \ {0}, NEW i \in 0 .. n
    PROVE  /\ Boundary(n, i) \in 0 .. TotalLayers
           /\ Boundary(n, 0) = 0 /\ Boundary(n, n) = TotalLayers
           /\ i < n => Boundary(n, i) <= Boundary(n, i + 1)
<1> DEFINE q == TotalLayers \div n
           r == TotalLayers % n
<1>1. /\ q \in Nat /\ r \in 0 .. n - 1 /\ TotalLayers = n * q + r
  BY Configured, Division
<1>2. \A j : Boundary(n, j) = j * q + (IF j < r THEN j ELSE r)
  BY DEF Boundary
<1> HIDE DEF q, r
<1>3. /\ 0 * q = 0 /\ i * q \in Nat /\ (i + 1) * q = i * q + q
  BY <1>1
<1>4. i * q <= n * q
  <2>1. n - i \in Nat /\ (n - i) * q \in Nat
    BY <1>1
  <2>2. n * q = i * q + (n - i) * q
    BY <1>1
  <2>3. QED
    BY <1>3, <2>1, <2>2
<1>5. Boundary(n, i) \in 0 .. TotalLayers
  BY <1>1, <1>2, <1>3, <1>4
<1>6. Boundary(n, 0) = 0 /\ Boundary(n, n) = TotalLayers
  BY <1>1, <1>2, <1>3
<1>7. i < n => Boundary(n, i) <= Boundary(n, i + 1)
  <2>1. /\ Boundary(n, i) = i * q + (IF i < r THEN i ELSE r)
        /\ Boundary(n, i + 1) = (i * q + q) + (IF i + 1 < r THEN i + 1 ELSE r)
    BY <1>2, <1>3
  <2>2. QED
    BY <1>1, <1>3, <2>1
<1>8. QED
  BY <1>5, <1>6, <1>7

(* The chunks of GroupTrigger do not leave the layers.                      *)
LEMMA ChunkType ==
    ASSUME config \in Configs, NEW g \in 0 .. NumGroups - 1
    PROVE  /\ g * (TotalLayers \div NumGroups) \in 0 .. TotalLayers
           /\ (g + 1) * (TotalLayers \div NumGroups) \in 0 .. TotalLayers
<1> DEFINE q == TotalLayers \div NumGroups
           r == TotalLayers % NumGroups
<1>0. TotalLayers \in Nat /\ NumGroups \in Nat \ {0}
  BY Configured
<1>1. q \in Nat /\ r \in 0 .. NumGroups - 1 /\ TotalLayers = NumGroups * q + r
  BY <1>0, Division
<1>2. r \in Nat /\ NumGroups \in Nat
  BY <1>0, <1>1
<1> HIDE DEF q, r
<1>3. g * q \in Nat /\ (g + 1) * q = g * q + q
  BY <1>1, <1>2
<1>4. (NumGroups - (g + 1)) * q \in Nat
  BY <1>1, <1>2
<1>5. NumGroups * q = (g + 1) * q + (NumGroups - (g + 1)) * q
  BY <1>1, <1>2
<1>6. g * q \in 0 .. TotalLayers /\ (g + 1) * q \in 0 .. TotalLayers
  BY <1>1, <1>2, <1>3, <1>4, <1>5
<1>7. QED
  BY <1>6 DEF q

-----------------------------------------------------------------------------
(* A sum can be formed term by term.                                        *)
Sums(f, d, n) == f \in [0 .. n -> Nat] /\ f[0] = 0 /\ \A i \in 1 .. n : f[i] = f[i - 1] + d[i]

LEMMA SumsOne == ASSUME NEW d PROVE \E f : Sums(f, d, 0)
<1>1. Sums([i \in 0 .. 0 |-> 0], d, 0)
  BY DEF Sums
<1>2. QED
  BY <1>1

LEMMA SumsNext ==
    ASSUME NEW n \in Nat, NEW d, d[n + 1] \in Nat, NEW f, Sums(f, d, n)
    PROVE  \E g : Sums(g, d, n + 1)
<1> DEFINE g == [i \in 0 .. n + 1 |-> IF i = n + 1 THEN f[n] + d[n + 1] ELSE f[i]]
<1>1. f \in [0 .. n -> Nat] /\ f[0] = 0 /\ \A i \in 1 .. n : f[i] = f[i - 1] + d[i]
  BY DEF Sums
<1>2. f[n] + d[n + 1] \in Nat
  BY <1>1
<1>3. \A i \in 0 .. n + 1 : i # n + 1 => i \in 0 .. n
  OBVIOUS
<1>4. g \in [0 .. n + 1 -> Nat] /\ g[0] = 0
  BY <1>1, <1>2, <1>3
<1>5. ASSUME NEW i \in 1 .. n + 1 PROVE g[i] = g[i - 1] + d[i]
  <2>1. i \in 0 .. n + 1 /\ i - 1 \in 0 .. n + 1 /\ i - 1 # n + 1
    OBVIOUS
  <2>2. g[i - 1] = f[i - 1]
    BY <2>1
  <2>3. CASE i = n + 1
    <3>1. g[i] = f[n] + d[n + 1] /\ i - 1 = n
      BY <2>1, <2>3
    <3>2. QED
      BY <2>2, <2>3, <3>1
  <2>4. CASE i # n + 1
    <3>1. g[i] = f[i] /\ i \in 1 .. n
      BY <2>1, <2>4
    <3>2. QED
      BY <1>1, <2>2, <3>1
  <2>5. QED
    BY <2>3, <2>4
<1> HIDE DEF g
<1>6. Sums(g, d, n + 1)
  BY <1>4, <1>5 DEF Sums
<1>7. QED
  BY <1>6

LEMMA SumExists ==
    ASSUME NEW n \in Nat, NEW d \in [1 .. n -> Nat]
    PROVE  \E f : Sums(f, d, n)
<1> DEFINE T == {k \in Nat : k <= n => \E f : Sums(f, d, k)}
<1>1. 0 \in T
  BY SumsOne
<1>2. \A k \in Nat : k \in T => k + 1 \in T
  <2> SUFFICES ASSUME NEW k \in Nat, k + 1 <= n, NEW f, Sums(f, d, k)
               PROVE  \E g : Sums(g, d, k + 1)
    OBVIOUS
  <2>1. d[k + 1] \in Nat
    OBVIOUS
  <2>2. QED
    BY <2>1, SumsNext
<1>3. Nat \subseteq T
  <2> HIDE DEF T
  <2>1. QED
    BY <1>1, <1>2, SetInduction
<1>4. QED
  BY <1>3

(* The function that adds the terms of d forms their sum.                   *)
Added(f, d, n) == f = [i \in 0 .. n |-> IF i = 0 THEN 0 ELSE f[i - 1] + d[i]]

LEMMA AddedExists ==
    ASSUME NEW n \in Nat, NEW d \in [1 .. n -> Nat]
    PROVE  \E f : Added(f, d, n)
<1>1. PICK f : Sums(f, d, n)
  BY SumExists
<1>2. \A i \in 0 .. n : f[i] = IF i = 0 THEN 0 ELSE f[i - 1] + d[i]
  BY <1>1 DEF Sums
<1>3. f = [i \in 0 .. n |-> f[i]]
  BY <1>1 DEF Sums
<1>4. QED
  BY <1>2, <1>3 DEF Added

LEMMA AddedSums ==
    ASSUME NEW n \in Nat, NEW d \in [1 .. n -> Nat], NEW f, Added(f, d, n)
    PROVE  Sums(f, d, n)
<1>1. f[0] = 0 /\ DOMAIN f = 0 .. n /\ f = [i \in 0 .. n |-> f[i]]
  BY DEF Added
<1>2. \A i \in 1 .. n : f[i] = f[i - 1] + d[i]
  BY DEF Added
<1> DEFINE T == {k \in Nat : k <= n => f[k] \in Nat}
<1>3. 0 \in T
  BY <1>1
<1>4. \A k \in Nat : k \in T => k + 1 \in T
  <2> SUFFICES ASSUME NEW k \in Nat, k + 1 <= n, f[k] \in Nat PROVE f[k + 1] \in Nat
    OBVIOUS
  <2>1. k + 1 \in 1 .. n /\ (k + 1) - 1 = k /\ d[k + 1] \in Nat
    OBVIOUS
  <2>2. f[k + 1] = f[k] + d[k + 1]
    BY <1>2, <2>1
  <2>3. QED
    BY <2>1, <2>2
<1>5. Nat \subseteq T
  <2> HIDE DEF T
  <2>1. QED
    BY <1>3, <1>4, SetInduction
<1>6. \A k \in 0 .. n : f[k] \in Nat
  BY <1>5
<1>7. QED
  BY <1>1, <1>2, <1>6 DEF Sums

(* The costs of VGGT's stages, added up.                                    *)
LEMMA CostType ==
    ASSUME config \in Configs
    PROVE  /\ CostUpTo \in [0 .. TotalLayers -> Nat] /\ CostUpTo[0] = 0
           /\ \A i \in 1 .. TotalLayers : CostUpTo[i - 1] < CostUpTo[i]
<1> DEFINE cost == CHOOSE f : Added(f, StageCost, TotalLayers)
<1>1. CostUpTo = cost
  BY DEF CostUpTo, Added
<1>2. /\ TotalLayers \in Nat /\ StageCost \in [1 .. TotalLayers -> Nat]
      /\ \A i \in 1 .. TotalLayers : StageCost[i] \in Nat \ {0}
  BY Configured
<1>3. Added(cost, StageCost, TotalLayers)
  BY <1>2, AddedExists
<1> HIDE DEF cost
<1>4. Sums(cost, StageCost, TotalLayers)
  BY <1>2, <1>3, AddedSums
<1>5. ASSUME NEW i \in 1 .. TotalLayers PROVE cost[i - 1] < cost[i]
  <2>1. i - 1 \in 0 .. TotalLayers /\ cost[i - 1] \in Nat /\ StageCost[i] \in Nat \ {0}
    BY <1>2, <1>4 DEF Sums
  <2>2. cost[i] = cost[i - 1] + StageCost[i]
    BY <1>4 DEF Sums
  <2>3. QED
    BY <2>1, <2>2
<1>6. QED
  BY <1>1, <1>4, <1>5 DEF Sums

(* ... grow.                                                                *)
LEMMA CostGrows ==
    ASSUME config \in Configs, NEW i \in 0 .. TotalLayers, NEW j \in 0 .. TotalLayers, i <= j
    PROVE  CostUpTo[i] <= CostUpTo[j]
<1> DEFINE T == {k \in Nat : i + k <= TotalLayers => CostUpTo[i] <= CostUpTo[i + k]}
<1>0. TotalLayers \in Nat /\ \A k \in 0 .. TotalLayers : CostUpTo[k] \in Nat
  BY Configured, CostType
<1>1. 0 \in T
  BY <1>0
<1>2. \A k \in Nat : k \in T => k + 1 \in T
  <2> SUFFICES ASSUME NEW k \in Nat, i + (k + 1) <= TotalLayers, CostUpTo[i] <= CostUpTo[i + k]
               PROVE  CostUpTo[i] <= CostUpTo[i + (k + 1)]
    BY <1>0
  <2>1. i + (k + 1) \in 1 .. TotalLayers /\ (i + (k + 1)) - 1 = i + k
    BY <1>0
  <2>2. CostUpTo[i + k] < CostUpTo[i + (k + 1)]
    BY <2>1, CostType
  <2>3. i + k \in 0 .. TotalLayers /\ i + (k + 1) \in 0 .. TotalLayers
    BY <1>0
  <2>4. QED
    BY <1>0, <2>2, <2>3
<1>3. j - i \in T
  <2> HIDE DEF T
  <2>1. j - i \in Nat
    BY <1>0
  <2>2. QED
    BY <1>1, <1>2, <2>1, SetInduction
<1>4. QED
  BY <1>0, <1>3

(* Rounding keeps the order and does not change whole numbers.              *)
LEMMA RoundHalfEvenType ==
    ASSUME NEW a \in Nat, NEW b \in Nat \ {0}
    PROVE  RoundHalfEven(a, b) \in Nat
<1>1. a \div b \in Nat /\ (a \div b) + 1 \in Nat
  BY Division
<1>2. QED
  BY <1>1 DEF RoundHalfEven

LEMMA RoundHalfEvenGrows ==
    ASSUME NEW a \in Nat, NEW c \in Nat, NEW b \in Nat \ {0}, a <= c
    PROVE  RoundHalfEven(a, b) <= RoundHalfEven(c, b)
<1> DEFINE q == a \div b
           r == a % b
           s == c \div b
           t == c % b
<1>1. /\ q \in Nat /\ r \in 0 .. b - 1 /\ a = b * q + r /\ b * q \in Nat
      /\ s \in Nat /\ t \in 0 .. b - 1 /\ c = b * s + t /\ b * s \in Nat
  <2>1. q \in Nat /\ r \in 0 .. b - 1 /\ a = b * q + r
    BY Division
  <2>2. s \in Nat /\ t \in 0 .. b - 1 /\ c = b * s + t
    BY Division
  <2> HIDE DEF q, r, s, t
  <2>3. QED
    BY <2>1, <2>2
<1>2. /\ RoundHalfEven(a, b) = IF 2 * r > b \/ (2 * r = b /\ q % 2 = 1) THEN q + 1 ELSE q
      /\ RoundHalfEven(c, b) = IF 2 * t > b \/ (2 * t = b /\ s % 2 = 1) THEN s + 1 ELSE s
  BY DEF RoundHalfEven
<1> HIDE DEF q, r, s, t
<1>3. ASSUME s < q PROVE FALSE
  <2>1. q - s - 1 \in Nat
    BY <1>1, <1>3
  <2>2. b * (q - s - 1) \in Nat /\ b * q = b * s + b + b * (q - s - 1)
    BY <1>1, <2>1
  <2>3. QED
    BY <1>1, <2>2
<1>4. CASE q = s
  <2>1. r <= t
    BY <1>1, <1>4
  <2>2. QED
    BY <1>1, <1>2, <1>4, <2>1
<1>5. CASE q < s
  <2>1. q + 1 <= s
    BY <1>1, <1>5
  <2>2. QED
    BY <1>1, <1>2, <2>1
<1>6. QED
  BY <1>1, <1>3, <1>4, <1>5

LEMMA RoundHalfEvenExact ==
    ASSUME NEW a \in Nat, NEW b \in Nat \ {0}
    PROVE  RoundHalfEven(a * b, b) = a
<1>1. a * b \in Nat /\ (a * b) \div b = a
  BY DivisionExact
<1> DEFINE r == (a * b) % b
<1>2. r \in 0 .. b - 1 /\ a * b = b * ((a * b) \div b) + r
  BY <1>1, Division
<1> HIDE DEF r
<1>3. r = 0
  <2>1. a * b = b * a + r /\ b * a \in Nat /\ a * b = b * a
    BY <1>1, <1>2
  <2>2. QED
    BY <1>2, <2>1
<1>4. QED
  BY <1>1, <1>3 DEF RoundHalfEven, r

(* Where the rounds of VGGT end: one after the other, the last at the end.  *)
BoundAt(i, r) ==
    /\ NumGroups * CostUpTo[i] >= CostUpTo[TotalLayers] * r
    /\ NumGroups * CostUpTo[i - 1] < CostUpTo[TotalLayers] * r

LEMMA BoundExists ==
    ASSUME config \in Configs, NEW r \in 1 .. NumGroups
    PROVE  \E i \in 1 .. TotalLayers : BoundAt(i, r)
<1> DEFINE total == CostUpTo[TotalLayers]
           S == {i \in 1 .. TotalLayers : NumGroups * CostUpTo[i] >= total * r}
<1>1. /\ TotalLayers \in Nat \ {0} /\ NumGroups \in Nat \ {0}
      /\ \A i \in 0 .. TotalLayers : CostUpTo[i] \in Nat
      /\ CostUpTo[0] = 0 /\ \A i \in 1 .. TotalLayers : CostUpTo[i - 1] < CostUpTo[i]
  BY Configured, CostType
<1>2. total \in Nat /\ total > 0
  <2>1. TotalLayers \in 1 .. TotalLayers /\ TotalLayers - 1 \in 0 .. TotalLayers
    BY <1>1
  <2>2. QED
    BY <1>1, <2>1
<1> HIDE DEF total
<1>3. total * r \in Nat /\ total * r > 0 /\ total * r <= NumGroups * total
  <2>1. NumGroups - r \in Nat /\ total * (NumGroups - r) \in Nat
    BY <1>1, <1>2
  <2>2. total * NumGroups = total * r + total * (NumGroups - r)
    BY <1>1, <1>2
  <2>3. QED
    BY <1>1, <1>2, <2>1, <2>2
<1>4. TotalLayers \in S
  BY <1>1, <1>3 DEF total
<1>5. PICK k \in S : \A m \in S : k <= m
  <2>1. S \in SUBSET Nat
    OBVIOUS
  <2> HIDE DEF S
  <2>2. QED
    BY <1>4, <2>1, LeastMember
<1>6. NumGroups * CostUpTo[k - 1] < total * r
  <2>1. CASE k = 1
    BY <1>1, <1>3, <2>1
  <2>2. CASE k # 1
    <3>1. k - 1 \in 1 .. TotalLayers /\ k - 1 \notin S /\ k - 1 \in 0 .. TotalLayers
      BY <1>1, <1>5, <2>2
    <3>2. ~(NumGroups * CostUpTo[k - 1] >= total * r)
      BY <3>1
    <3>3. NumGroups * CostUpTo[k - 1] \in Nat
      BY <1>1, <3>1
    <3>4. QED
      BY <1>3, <3>2, <3>3
  <2>3. QED
    BY <2>1, <2>2
<1>7. QED
  BY <1>5, <1>6 DEF BoundAt, total

LEMMA BoundOrder ==
    ASSUME config \in Configs, NEW r \in 1 .. NumGroups, NEW s \in 1 .. NumGroups, r <= s,
           NEW i \in 1 .. TotalLayers, BoundAt(i, r), NEW j \in 1 .. TotalLayers, BoundAt(j, s)
    PROVE  i <= j
<1> DEFINE total == CostUpTo[TotalLayers]
<1>1. /\ TotalLayers \in Nat \ {0} /\ NumGroups \in Nat \ {0}
      /\ \A k \in 0 .. TotalLayers : CostUpTo[k] \in Nat
  BY Configured, CostType
<1>2. total \in Nat
  BY <1>1
<1> HIDE DEF total
<1>3. /\ NumGroups * CostUpTo[i - 1] < total * r
      /\ NumGroups * CostUpTo[j] >= total * s
  BY DEF BoundAt, total
<1>4. total * r <= total * s
  <2>1. total * (s - r) \in Nat /\ total * s = total * r + total * (s - r)
    BY <1>1, <1>2
  <2>2. QED
    BY <1>1, <1>2, <2>1
<1>5. ASSUME j < i PROVE FALSE
  <2>1. j \in 0 .. TotalLayers /\ i - 1 \in 0 .. TotalLayers /\ j <= i - 1
    BY <1>1, <1>5
  <2>2. CostUpTo[j] <= CostUpTo[i - 1] /\ CostUpTo[j] \in Nat /\ CostUpTo[i - 1] \in Nat
    BY <1>1, <2>1, CostGrows
  <2>3. NumGroups * CostUpTo[j] <= NumGroups * CostUpTo[i - 1]
    BY <1>1, <2>2
  <2>4. /\ NumGroups * CostUpTo[j] \in Nat /\ NumGroups * CostUpTo[i - 1] \in Nat
        /\ total * r \in Nat /\ total * s \in Nat
    BY <1>1, <1>2, <2>2
  <2>5. QED
    BY <1>3, <1>4, <2>3, <2>4
<1>6. QED
  BY <1>1, <1>5

LEMMA BoundLast ==
    ASSUME config \in Configs, NEW i \in 1 .. TotalLayers, BoundAt(i, NumGroups)
    PROVE  i = TotalLayers
<1>1. /\ TotalLayers \in Nat \ {0} /\ NumGroups \in Nat \ {0}
      /\ \A k \in 0 .. TotalLayers : CostUpTo[k] \in Nat
      /\ \A k \in 1 .. TotalLayers : CostUpTo[k - 1] < CostUpTo[k]
  BY Configured, CostType
<1>2. TotalLayers \in 1 .. TotalLayers /\ TotalLayers - 1 \in 0 .. TotalLayers
  BY <1>1
<1>3. ASSUME i # TotalLayers PROVE FALSE
  <2>1. i \in 0 .. TotalLayers /\ i <= TotalLayers - 1
    BY <1>1, <1>3
  <2>2. CostUpTo[i] <= CostUpTo[TotalLayers - 1]
    BY <1>2, <2>1, CostGrows
  <2>3. CostUpTo[TotalLayers - 1] < CostUpTo[TotalLayers]
    BY <1>1, <1>2
  <2>4. CostUpTo[i] < CostUpTo[TotalLayers] /\ CostUpTo[i] \in Nat /\ CostUpTo[TotalLayers] \in Nat
    BY <1>1, <1>2, <2>1, <2>2, <2>3
  <2>5. NumGroups * CostUpTo[i] >= CostUpTo[TotalLayers] * NumGroups
    BY DEF BoundAt
  <2>6. ~(CostUpTo[i] < CostUpTo[TotalLayers])
    BY <1>1, <2>4, <2>5
  <2>7. QED
    BY <2>4, <2>6
<1>4. QED
  BY <1>3

(* What VGGTBound answers, for the rounds of a request.                     *)
LEMMA VGGTBoundType ==
    ASSUME config \in Configs, NEW r \in 1 .. NumGroups
    PROVE  /\ VGGTBound(r) \in 0 .. TotalLayers
           /\ VGGTBound(NumGroups) = TotalLayers
           /\ r < NumGroups => VGGTBound(r) <= VGGTBound(r + 1)
<1> DEFINE whole == NumGroups = 1 \/ LayerSplit = "full"
           even == NumGroups > 1 /\ LayerSplit = "uniform"
<1>1. /\ TotalLayers \in Nat \ {0} /\ NumGroups \in Nat \ {0}
      /\ LayerSplit \in {"compute", "uniform", "full"}
  BY Configured
<1>2. whole => \A i : VGGTBound(i) = TotalLayers
  BY <1>1 DEF VGGTBound
<1>3. ~whole /\ even => \A i : VGGTBound(i) = RoundHalfEven(TotalLayers * i, NumGroups)
  BY <1>1 DEF VGGTBound
<1>4. ~whole /\ ~even => \A i : VGGTBound(i) = CHOOSE k \in 1 .. TotalLayers : BoundAt(k, i)
  BY <1>1 DEF VGGTBound, BoundAt
<1> HIDE DEF whole, even
<1>5. CASE whole
  BY <1>1, <1>2, <1>5
<1>6. CASE ~whole /\ even
  <2>1. \A i \in 1 .. NumGroups : TotalLayers * i \in Nat /\ TotalLayers * i <= TotalLayers * NumGroups
    <3> SUFFICES ASSUME NEW i \in 1 .. NumGroups
                 PROVE  TotalLayers * i \in Nat /\ TotalLayers * i <= TotalLayers * NumGroups
      OBVIOUS
    <3>1. TotalLayers * (NumGroups - i) \in Nat /\ TotalLayers * i \in Nat
      BY <1>1
    <3>2. TotalLayers * NumGroups = TotalLayers * i + TotalLayers * (NumGroups - i)
      BY <1>1
    <3>3. QED
      BY <3>1, <3>2
  <2>2. VGGTBound(NumGroups) = TotalLayers
    BY <1>1, <1>3, <1>6, RoundHalfEvenExact
  <2>3. VGGTBound(r) \in 0 .. TotalLayers
    <3>1. NumGroups \in 1 .. NumGroups /\ TotalLayers * NumGroups \in Nat
      BY <1>1
    <3>2. RoundHalfEven(TotalLayers * r, NumGroups) <= RoundHalfEven(TotalLayers * NumGroups, NumGroups)
      BY <1>1, <2>1, <3>1, RoundHalfEvenGrows
    <3>3. RoundHalfEven(TotalLayers * r, NumGroups) \in Nat
      BY <1>1, <2>1, RoundHalfEvenType
    <3>4. QED
      BY <1>1, <1>3, <1>6, <2>2, <3>2, <3>3
  <2>4. ASSUME r < NumGroups PROVE VGGTBound(r) <= VGGTBound(r + 1)
    <3>1. r + 1 \in 1 .. NumGroups
      BY <1>1, <2>4
    <3>2. /\ TotalLayers * r \in Nat /\ TotalLayers * (r + 1) \in Nat
          /\ TotalLayers * r <= TotalLayers * (r + 1)
      BY <1>1
    <3>3. RoundHalfEven(TotalLayers * r, NumGroups) <= RoundHalfEven(TotalLayers * (r + 1), NumGroups)
      BY <1>1, <3>2, RoundHalfEvenGrows
    <3>4. QED
      BY <1>3, <1>6, <3>3
  <2>5. QED
    BY <2>2, <2>3, <2>4
<1>7. CASE ~whole /\ ~even
  <2>1. \A i \in 1 .. NumGroups : VGGTBound(i) \in 1 .. TotalLayers /\ BoundAt(VGGTBound(i), i)
    BY <1>4, <1>7, BoundExists
  <2>2. NumGroups \in 1 .. NumGroups
    BY <1>1
  <2>3. VGGTBound(NumGroups) = TotalLayers
    BY <2>1, <2>2, BoundLast
  <2>4. ASSUME r < NumGroups PROVE VGGTBound(r) <= VGGTBound(r + 1)
    <3>1. r + 1 \in 1 .. NumGroups /\ r <= r + 1
      BY <1>1, <2>4
    <3>2. QED
      BY <2>1, <3>1, BoundOrder
  <2>5. QED
    BY <1>1, <2>1, <2>3, <2>4
<1>8. QED
  BY <1>5, <1>6, <1>7

-----------------------------------------------------------------------------
(* The greater and the lesser of two numbers.                               *)
LEMMA MaxPair ==
    ASSUME NEW a \in Int, NEW b \in Int
    PROVE  Max({a, b}) = IF a >= b THEN a ELSE b
<1>1. \E x \in {a, b} : \A y \in {a, b} : x >= y
  BY a \in Int, b \in Int
<1>2. Max({a, b}) \in {a, b} /\ \A y \in {a, b} : Max({a, b}) >= y
  BY <1>1 DEF Max
<1>3. QED
  BY <1>2

LEMMA MinPair ==
    ASSUME NEW a \in Int, NEW b \in Int
    PROVE  Min({a, b}) = IF a <= b THEN a ELSE b
<1>1. \E x \in {a, b} : \A y \in {a, b} : x <= y
  BY a \in Int, b \in Int
<1>2. Min({a, b}) \in {a, b} /\ \A y \in {a, b} : Min({a, b}) <= y
  BY <1>1 DEF Min
<1>3. QED
  BY <1>2

(* Speculation queues layers that are left, and none without a group to     *)
(* come.                                                                    *)
LEMMA MoreApproxType ==
    ASSUME config \in Configs, NEW st \in PolicyType(config), NEW done \in Int
    PROVE  /\ MoreApprox(st, done) \in 0 .. TotalLayers - st.latest
           /\ MoreApprox(st, done) > 0 => st.group # None /\ st.group < st.n
<1> DEFINE ahead == AheadLayers - (st.latest - done)
           left == TotalLayers - st.latest
<1>1. /\ st.latest \in 0 .. TotalLayers /\ st.group \in Int /\ st.n \in Nat
      /\ TotalLayers \in Nat /\ AheadLayers \in Nat
  BY Configured DEF PolicyType, TotalLayers
<1>2. ahead \in Int /\ left \in Nat
  BY <1>1
<1>3. MoreApprox(st, done) = IF st.group = None \/ st.group >= st.n THEN 0
                             ELSE Max({0, Min({ahead, left})})
  BY DEF MoreApprox
<1> HIDE DEF ahead, left
<1>4. Min({ahead, left}) = IF ahead <= left THEN ahead ELSE left
  BY <1>2, MinPair
<1>5. Max({0, Min({ahead, left})}) = IF 0 >= Min({ahead, left}) THEN 0 ELSE Min({ahead, left})
  BY <1>2, <1>4, MaxPair
<1>6. MoreApprox(st, done) \in 0 .. left
  BY <1>2, <1>3, <1>4, <1>5
<1>7. MoreApprox(st, done) > 0 => st.group # None /\ st.group < st.n
  BY <1>1, <1>3
<1>8. QED
  BY <1>6, <1>7 DEF left

-----------------------------------------------------------------------------
(* The instructions the plans are made of.                                  *)
LEMMA InstrType ==
    ASSUME config \in Configs
    PROVE  /\ \A op \in Opcodes : Do(op) \in InstrOf(config) /\ Do(op).op = op
           /\ \A lo, hi \in 0 .. TotalLayers : /\ Approx(lo, hi) \in InstrOf(config)
                                               /\ Approx(lo, hi).op = "APPROX_FORWARD"
           /\ \A hi \in 0 .. TotalLayers, g \in Int : /\ Correct(hi, g) \in InstrOf(config)
                                                      /\ Correct(hi, g).op = "CORRECT_FORWARD"
           /\ GlobalApprox \in InstrOf(config) /\ GlobalApprox.op = "APPROX_FORWARD"
<1>1. TotalLayers \in Nat /\ TotalLayers = config.layers
  BY Configured DEF TotalLayers
<1>2. {"APPROX_FORWARD", "CORRECT_FORWARD"} \subseteq Opcodes
  BY DEF Opcodes, Skippable
<1>3. ASSUME NEW op \in Opcodes, NEW lo \in 0 .. TotalLayers, NEW hi \in 0 .. TotalLayers,
             NEW g \in Int, NEW global \in BOOLEAN
      PROVE  /\ Instr(op, lo, hi, g, global) \in InstrOf(config)
             /\ Instr(op, lo, hi, g, global).op = op
  BY <1>1 DEF Instr, InstrOf
<1>4. 0 \in 0 .. TotalLayers /\ TotalLayers \in 0 .. TotalLayers /\ None \in Int
  BY <1>1 DEF None
<1>5. QED
  BY <1>2, <1>3, <1>4 DEF Do, Approx, Correct, GlobalApprox

(* What the plans have in common.                                           *)
Steps(s) == Quiescent(config, s)
Ends(s) == Answering(config, s)

LEMMA CommonParts ==
    ASSUME config \in Configs
    PROVE  /\ Steps(Inputs) /\ Len(Inputs) = 2
           /\ Steps(ExitCheck)
           /\ Steps(<< Do("HEAD_INFERENCE") >>)
           /\ Steps(<< GlobalApprox >>)
           /\ Ends(Respond) /\ Ends(Finish)
<1>1. ASSUME NEW op \in Opcodes \ AnswerOps PROVE Steps(<< Do(op) >>)
  BY <1>1, InstrType, QuiescentOne DEF Steps
<1>2. {"LOAD_INPUT", "PREPARE_TOKENS", "HEAD_INFERENCE", "DECIDE_EXIT", "EXIT_ALL"}
         \subseteq Opcodes \ AnswerOps
  BY DEF Opcodes, Skippable, AnswerOps
<1>3. ASSUME NEW a \in Opcodes \ AnswerOps, NEW b \in Opcodes \ AnswerOps
      PROVE  Steps(<< Do(a), Do(b) >>)
  <2>1. << Do(a), Do(b) >> \in Seq(InstrOf(config))
    BY InstrType
  <2>2. QED
    BY <2>1, InstrType DEF Steps, Quiescent, Open
<1>4. Steps(Inputs) /\ Len(Inputs) = 2
  BY <1>2, <1>3 DEF Inputs
<1>5. Steps(ExitCheck)
  BY <1>2, <1>3, Configured, QuiescentWhen DEF ExitCheck, Steps
<1>6. Steps(<< GlobalApprox >>)
  BY InstrType, QuiescentOne DEF Steps, AnswerOps
<1>7. Ends(Respond)
  <2>1. {"SEND_RESPONSE", "FREE_SESSION"} \subseteq Opcodes
    BY DEF Opcodes
  <2>2. Respond \in Seq(InstrOf(config))
    BY <2>1, InstrType DEF Respond
  <2>3. QED
    BY <2>1, <2>2, InstrType DEF Respond, Ends, Answering, Closing
<1>8. Ends(Finish)
  BY <1>2, <1>3, <1>7, AnsweringConcat DEF Finish, Steps, Ends
<1>9. QED
  BY <1>1, <1>2, <1>4, <1>5, <1>6, <1>7, <1>8

LEMMA ApproxSteps ==
    ASSUME config \in Configs, NEW lo \in 0 .. TotalLayers, NEW hi \in 0 .. TotalLayers
    PROVE  Steps(<< Approx(lo, hi) >>)
  BY InstrType, QuiescentOne DEF Steps, AnswerOps

LEMMA CorrectSteps ==
    ASSUME config \in Configs, NEW hi \in 0 .. TotalLayers, NEW g \in Int
    PROVE  Steps(<< Correct(hi, g) >>)
  BY InstrType, QuiescentOne DEF Steps, AnswerOps

LEMMA SingleLayersSteps ==
    ASSUME config \in Configs, NEW from \in 0 .. TotalLayers, NEW k \in 0 .. TotalLayers - from
    PROVE  Steps(SingleLayers(from, k)) /\ Len(SingleLayers(from, k)) = k
<1>1. TotalLayers \in Nat
  BY Configured
<1>2. ASSUME NEW i \in 1 .. k
      PROVE  /\ Approx(from + i - 1, from + i) \in InstrOf(config)
             /\ Approx(from + i - 1, from + i).op \notin AnswerOps
  BY <1>1, InstrType DEF AnswerOps
<1>3. SingleLayers(from, k) \in Seq(InstrOf(config)) /\ Len(SingleLayers(from, k)) = k
  BY <1>1, <1>2 DEF SingleLayers
<1>4. QED
  BY <1>2, <1>3 DEF SingleLayers, Steps, Quiescent, Open

-----------------------------------------------------------------------------
(* The plans: whether a group is the last its policy waits for, and what    *)
(* its plan looks like.                                                     *)
Concludes(st, g) ==
    CASE Policy \in {"ADE20KWindowInterleaved", "ADE20KInterleavedDynamic", "COCOWindowDynamic"}
           -> g >= st.n
      [] Policy \in {"ADE20KApproxCorrect", "NYUApproxCorrect"} -> g # 0
      [] OTHER -> g >= NumGroups

Formed(instrs, last) ==
    /\ instrs \in Seq(InstrOf(config)) /\ Len(instrs) > 0
    /\ Open(instrs) \/ (last /\ Closing(instrs))

Begins(s) == Steps(s) /\ Len(s) > 0

LEMMA BeginsConcat ==
    ASSUME NEW s, NEW t, Begins(s), Steps(t)
    PROVE  Begins(s \o t)
<1> DEFINE I == InstrOf(config)
<1>1. s \in Seq(I) /\ t \in Seq(I) /\ Len(s) > 0
  BY DEF Begins, Steps, Quiescent
<1> HIDE DEF I
<1>2. Len(s \o t) > 0
  BY <1>1
<1>3. QED
  BY <1>2, QuiescentConcat DEF Begins, Steps

LEMMA BeginsEnds ==
    ASSUME NEW s, NEW t, Begins(s), Ends(t)
    PROVE  Ends(s \o t)
  BY AnsweringConcat DEF Begins, Steps, Ends

LEMMA BeginsFormed ==
    ASSUME NEW s, NEW last, Begins(s) \/ (last /\ Ends(s))
    PROVE  Formed(s, last)
<1>1. CASE Begins(s)
  BY <1>1 DEF Formed, Begins, Steps, Quiescent
<1>2. CASE last /\ Ends(s)
  <2>1. s \in Seq(InstrOf(config)) /\ Closing(s) /\ Len(s) >= 2
    BY <1>2 DEF Ends, Answering, Closing
  <2>2. Len(s) > 0
    BY <2>1
  <2>3. QED
    BY <1>2, <2>1, <2>2 DEF Formed
<1>3. QED
  BY <1>1, <1>2

LEMMA StepsConcat ==
    ASSUME NEW s, NEW t, Steps(s), Steps(t)
    PROVE  Steps(s \o t)
  BY QuiescentConcat DEF Steps

LEMMA StepsEnds ==
    ASSUME NEW s, NEW t, Steps(s), Ends(t)
    PROVE  Ends(s \o t)
  BY AnsweringConcat DEF Steps, Ends

LEMMA StepsWhen ==
    ASSUME NEW cond, NEW s, cond => Steps(s)
    PROVE  Steps(When(cond, s))
  BY QuiescentWhen DEF Steps

LEMMA InputsBegin == ASSUME config \in Configs PROVE Begins(Inputs)
  BY CommonParts DEF Begins

(* GroupTrigger.                                                            *)
LEMMA GroupTriggerFormed ==
    ASSUME config \in Configs, NEW g \in 0 .. NumGroups
    PROVE  Formed(GroupTriggerPlan(g), g >= NumGroups)
<1> DEFINE lo == g * (TotalLayers \div NumGroups)
           hi == (g + 1) * (TotalLayers \div NumGroups)
           tail == << Correct(TotalLayers, g) >>
                   \o When(GlobalMode = "final_correct", << GlobalApprox >>) \o Finish
           body == When(lo > 0, << Correct(lo, g) >>) \o << Approx(lo, hi) >> \o ExitCheck
<1>0. NumGroups \in Nat \ {0} /\ TotalLayers \in Nat \ {0} /\ TotalLayers \in 0 .. TotalLayers
  BY Configured
<1>1. GroupTriggerPlan(g) = Inputs \o (IF g < NumGroups THEN body ELSE tail)
  BY DEF GroupTriggerPlan
<1>2. CASE g < NumGroups
  <2>1. lo \in 0 .. TotalLayers /\ hi \in 0 .. TotalLayers
    BY <1>0, <1>2, ChunkType
  <2> HIDE DEF lo, hi
  <2>2. Steps(When(lo > 0, << Correct(lo, g) >>))
    BY <1>0, <2>1, CorrectSteps, StepsWhen
  <2>3. Steps(<< Approx(lo, hi) >>) /\ Steps(ExitCheck)
    BY <2>1, ApproxSteps, CommonParts
  <2>4. Steps(body)
    BY <2>2, <2>3, StepsConcat
  <2> HIDE DEF body
  <2>5. Begins(Inputs \o body)
    BY <2>4, InputsBegin, BeginsConcat
  <2>6. QED
    BY <1>1, <1>2, <2>5, BeginsFormed
<1>3. CASE ~(g < NumGroups)
  <2>1. Steps(<< Correct(TotalLayers, g) >>)
    BY <1>0, CorrectSteps
  <2>2. Steps(When(GlobalMode = "final_correct", << GlobalApprox >>))
    BY CommonParts, StepsWhen
  <2>3. Ends(tail)
    BY <2>1, <2>2, CommonParts, StepsConcat, StepsEnds
  <2> HIDE DEF tail
  <2>4. Ends(Inputs \o tail)
    BY <2>3, InputsBegin, BeginsEnds
  <2>5. g >= NumGroups
    BY <1>0, <1>3
  <2>6. QED
    BY <1>1, <1>3, <2>4, <2>5, BeginsFormed
<1>4. QED
  BY <1>2, <1>3

(* ADE20KWindowInterleaved.                                                 *)
LEMMA WindowFormed ==
    ASSUME config \in Configs, NEW st, st.n \in Nat \ {0}, NEW g \in Nat
    PROVE  Formed(WindowPlan(st, g), g >= st.n)
<1> DEFINE lo == Boundary(st.n, g)
           hi == Boundary(st.n, g + 1)
           body == When(lo > 0, << Correct(lo, g) >>) \o << Approx(lo, hi) >>
           tail == << Correct(TotalLayers, g) >> \o Finish
<1>0. TotalLayers \in Nat \ {0} /\ TotalLayers \in 0 .. TotalLayers
  BY Configured
<1>1. WindowPlan(st, g) = Inputs \o (IF g < st.n THEN body ELSE tail)
  BY DEF WindowPlan
<1>2. CASE g < st.n
  <2>1. g \in 0 .. st.n /\ g + 1 \in 0 .. st.n
    BY <1>2
  <2>2. lo \in 0 .. TotalLayers /\ hi \in 0 .. TotalLayers
    BY <2>1, BoundaryType
  <2> HIDE DEF lo, hi
  <2>3. Steps(When(lo > 0, << Correct(lo, g) >>))
    BY <1>0, <2>2, CorrectSteps, StepsWhen
  <2>4. Steps(<< Approx(lo, hi) >>)
    BY <2>2, ApproxSteps
  <2>5. Steps(body)
    BY <2>3, <2>4, StepsConcat
  <2> HIDE DEF body
  <2>6. Begins(Inputs \o body)
    BY <2>5, InputsBegin, BeginsConcat
  <2>7. QED
    BY <1>1, <1>2, <2>6, BeginsFormed
<1>3. CASE ~(g < st.n)
  <2>1. Steps(<< Correct(TotalLayers, g) >>)
    BY <1>0, CorrectSteps
  <2>2. Ends(tail)
    BY <2>1, CommonParts, StepsEnds
  <2> HIDE DEF tail
  <2>3. Ends(Inputs \o tail)
    BY <2>2, InputsBegin, BeginsEnds
  <2>4. g >= st.n
    BY <1>3
  <2>5. QED
    BY <1>1, <1>3, <2>3, <2>4, BeginsFormed
<1>4. QED
  BY <1>2, <1>3

(* VGGTInterleaved.                                                         *)
LEMMA VGGTFormed ==
    ASSUME config \in Configs, NEW g \in 0 .. NumGroups
    PROVE  Formed(VGGTPlan(g), g >= NumGroups)
<1> DEFINE prev == VGGTBound(g)
           here == VGGTBound(IF g < NumGroups THEN g + 1 ELSE NumGroups)
           start == << Approx(0, VGGTBound(1)) >>
           body == When(CorrectionOn /\ prev > 0, << Correct(prev, g) >>)
                   \o When(here > prev, << Approx(prev, here) >>)
           answer == When(CorrectionOn /\ prev < TotalLayers, << Correct(TotalLayers, g) >>)
                     \o << Do("HEAD_INFERENCE") >> \o Respond
           tail == When(g >= NumGroups, answer)
<1>0. /\ NumGroups \in Nat \ {0} /\ TotalLayers \in Nat \ {0}
      /\ TotalLayers \in 0 .. TotalLayers /\ 0 \in 0 .. TotalLayers
  BY Configured
<1>1. VGGTPlan(g) = Inputs \o (IF g = 0 THEN start ELSE body \o tail)
  BY DEF VGGTPlan
<1>2. CASE g = 0
  <2>1. VGGTBound(1) \in 0 .. TotalLayers
    BY <1>0, VGGTBoundType
  <2>2. Steps(start)
    BY <1>0, <2>1, ApproxSteps
  <2> HIDE DEF start
  <2>3. Begins(Inputs \o start)
    BY <2>2, InputsBegin, BeginsConcat
  <2>4. QED
    BY <1>1, <1>2, <2>3, BeginsFormed
<1>3. CASE g # 0
  <2>1. g \in 1 .. NumGroups /\ (IF g < NumGroups THEN g + 1 ELSE NumGroups) \in 1 .. NumGroups
    BY <1>0, <1>3
  <2>2. prev \in 0 .. TotalLayers /\ here \in 0 .. TotalLayers
    BY <2>1, VGGTBoundType
  <2>3. VGGTPlan(g) = Inputs \o (body \o tail)
    BY <1>1, <1>3
  <2> HIDE DEF prev, here
  <2>4. Steps(When(CorrectionOn /\ prev > 0, << Correct(prev, g) >>))
    BY <2>2, CorrectSteps, StepsWhen
  <2>5. Steps(When(here > prev, << Approx(prev, here) >>))
    BY <2>2, ApproxSteps, StepsWhen
  <2>6. Steps(body)
    BY <2>4, <2>5, StepsConcat
  <2>7. Steps(When(CorrectionOn /\ prev < TotalLayers, << Correct(TotalLayers, g) >>))
    BY <1>0, CorrectSteps, StepsWhen
  <2>8. Ends(answer)
    BY <2>7, CommonParts, StepsConcat, StepsEnds
  <2> HIDE DEF body, answer
  <2>9. CASE g >= NumGroups
    <3>1. tail = answer
      BY <2>9 DEF When
    <3>2. Ends(Inputs \o (body \o tail))
      BY <2>6, <2>8, <3>1, StepsEnds, InputsBegin, BeginsEnds
    <3>3. QED
      BY <2>3, <2>9, <3>2, BeginsFormed
  <2>10. CASE ~(g >= NumGroups)
    <3>1. Steps(tail)
      BY <2>10, StepsWhen
    <3> HIDE DEF tail
    <3>2. Begins(Inputs \o (body \o tail))
      BY <2>6, <3>1, StepsConcat, InputsBegin, BeginsConcat
    <3>3. QED
      BY <2>3, <3>2, BeginsFormed
  <2>11. QED
    BY <2>9, <2>10
<1>4. QED
  BY <1>2, <1>3

(* ADE20KApproxCorrect and NYUApproxCorrect.                                *)
LEMMA ApproxCorrectFormed ==
    ASSUME config \in Configs, NEW g \in Nat
    PROVE  Formed(ApproxCorrectPlan(g), g # 0)
<1> DEFINE correct == When(CorrectionOn, << Correct(TotalLayers, 0) >>)
           answer == correct \o << Do("HEAD_INFERENCE") >> \o Respond
<1>0. TotalLayers \in 0 .. TotalLayers /\ 0 \in 0 .. TotalLayers
  BY Configured
<1>1. ApproxCorrectPlan(g) = Inputs \o (IF g = 0 THEN << Approx(0, TotalLayers) >> ELSE answer)
  BY DEF ApproxCorrectPlan
<1>2. Begins(Inputs \o << Approx(0, TotalLayers) >>)
  BY <1>0, ApproxSteps, InputsBegin, BeginsConcat
<1>3. Ends(Inputs \o answer)
  <2>1. Steps(correct)
    BY <1>0, CorrectSteps, StepsWhen
  <2> HIDE DEF correct
  <2>2. Ends(answer)
    BY <2>1, CommonParts, StepsConcat, StepsEnds
  <2> HIDE DEF answer
  <2>3. QED
    BY <2>2, InputsBegin, BeginsEnds
<1> HIDE DEF answer
<1>4. QED
  BY <1>1, <1>2, <1>3, BeginsFormed

(* The policies that keep a frontier.                                       *)
LEMMA CorrectQueuedSteps ==
    ASSUME config \in Configs, NEW st, st.latest \in 0 .. TotalLayers, NEW g \in Int
    PROVE  Steps(CorrectQueued(st, g))
  BY CorrectSteps, StepsWhen DEF CorrectQueued

LEMMA CompletionBegins ==
    ASSUME config \in Configs, NEW st, st.latest \in 0 .. TotalLayers, NEW g \in Int
    PROVE  Begins(Completion(st, g))
<1>0. TotalLayers \in 0 .. TotalLayers
  BY Configured
<1>1. Steps(When(st.latest < TotalLayers, << Approx(st.latest, TotalLayers) >>))
  BY <1>0, ApproxSteps, StepsWhen
<1>2. QED
  BY <1>1, CorrectQueuedSteps, InputsBegin, BeginsConcat DEF Completion

LEMMA CompletionEnds ==
    ASSUME config \in Configs, NEW st, st.latest \in 0 .. TotalLayers, NEW g \in Int, NEW cond
    PROVE  Ends(Completion(st, g) \o When(cond, << GlobalApprox >>) \o Finish)
<1>1. Steps(When(cond, << GlobalApprox >>))
  BY CommonParts, StepsWhen
<1>2. Begins(Completion(st, g) \o When(cond, << GlobalApprox >>))
  BY <1>1, CompletionBegins, BeginsConcat
<1>3. QED
  BY <1>2, CommonParts, BeginsEnds

(* COCOWindowInterleaved.                                                   *)
LEMMA COCOStaticFormed ==
    ASSUME config \in Configs, NEW st, st.latest \in 0 .. TotalLayers, NEW g \in 0 .. NumGroups
    PROVE  /\ Formed(COCOStaticPlan(st, g).instrs, g >= NumGroups)
           /\ COCOStaticPlan(st, g).latest \in 0 .. TotalLayers
<1> DEFINE end == Boundary(NumGroups, IF g < NumGroups THEN g + 1 ELSE NumGroups)
           first == IF g = 0 THEN When(GlobalMode = "global_first", << GlobalApprox >>)
                             ELSE CorrectQueued(st, g)
           body == Inputs \o first \o When(st.latest < end, << Approx(st.latest, end) >>)
           tail == Completion(st, g) \o When(GlobalMode = "final_correct", << GlobalApprox >>)
                   \o Finish
<1>0. NumGroups \in Nat \ {0} /\ TotalLayers \in Nat \ {0} /\ TotalLayers \in 0 .. TotalLayers
  BY Configured
<1>1. COCOStaticPlan(st, g) = IF g < NumGroups THEN Plan(body, Max({st.latest, end}))
                              ELSE Plan(tail, TotalLayers)
  BY DEF COCOStaticPlan
<1>2. end \in 0 .. TotalLayers
  <2>1. (IF g < NumGroups THEN g + 1 ELSE NumGroups) \in 0 .. NumGroups
    BY <1>0
  <2>2. QED
    BY <1>0, <2>1, BoundaryType
<1> HIDE DEF end
<1>3. Max({st.latest, end}) \in 0 .. TotalLayers
  BY <1>0, <1>2, MaxPair
<1>4. Steps(first)
  BY CommonParts, StepsWhen, CorrectQueuedSteps
<1>5. Steps(When(st.latest < end, << Approx(st.latest, end) >>))
  BY <1>2, ApproxSteps, StepsWhen
<1> HIDE DEF first
<1>6. Begins(body)
  BY <1>4, <1>5, InputsBegin, BeginsConcat
<1>7. Ends(tail)
  BY CompletionEnds
<1> HIDE DEF body, tail
<1>8. CASE g < NumGroups
  <2>1. COCOStaticPlan(st, g).instrs = body /\ COCOStaticPlan(st, g).latest = Max({st.latest, end})
    BY <1>1, <1>8 DEF Plan
  <2>2. QED
    BY <1>3, <1>6, <2>1, BeginsFormed
<1>9. CASE ~(g < NumGroups)
  <2>1. COCOStaticPlan(st, g).instrs = tail /\ COCOStaticPlan(st, g).latest = TotalLayers
    BY <1>1, <1>9 DEF Plan
  <2>2. g >= NumGroups
    BY <1>0, <1>9
  <2>3. QED
    BY <1>0, <1>7, <2>1, <2>2, BeginsFormed
<1>10. QED
  BY <1>8, <1>9

(* ADE20KInterleavedDynamic and COCOWindowDynamic.                          *)
LEMMA FeedbackFormed ==
    ASSUME config \in Configs, NEW st \in PolicyType(config), NEW g \in Nat, NEW done \in Int
    PROVE  /\ Formed(FeedbackPlan(st, g, done).instrs, g >= st.n)
           /\ FeedbackPlan(st, g, done).latest \in 0 .. TotalLayers
<1> DEFINE k == IF g = 0 THEN MoreApprox(st, IF done = None THEN 0 ELSE done)
                ELSE IF done = None THEN 0 ELSE MoreApprox(st, done)
           ade20k == Policy = "ADE20KInterleavedDynamic"
           first == IF g = 0 THEN When(~ade20k /\ GlobalMode = "global_first", << GlobalApprox >>)
                             ELSE CorrectQueued(st, g)
           body == Inputs \o first \o SingleLayers(st.latest, k) \o When(g > 0 /\ ade20k, ExitCheck)
           tail == Completion(st, g)
                   \o When(~ade20k /\ GlobalMode = "final_correct", << GlobalApprox >>) \o Finish
<1>0. /\ TotalLayers \in Nat \ {0} /\ st.latest \in 0 .. TotalLayers /\ st.n \in Nat \ {0}
      /\ None \in Int
  BY Configured DEF PolicyType, TotalLayers, None
<1>1. FeedbackPlan(st, g, done) = IF g < st.n THEN Plan(body, st.latest + k)
                                  ELSE Plan(tail, TotalLayers)
  BY DEF FeedbackPlan
<1>2. k \in 0 .. TotalLayers - st.latest
  <2>1. \A d \in Int : MoreApprox(st, d) \in 0 .. TotalLayers - st.latest
    BY MoreApproxType
  <2>2. 0 \in 0 .. TotalLayers - st.latest /\ (IF done = None THEN 0 ELSE done) \in Int
    BY <1>0
  <2>3. QED
    BY <2>1, <2>2
<1> HIDE DEF k
<1>3. st.latest + k \in 0 .. TotalLayers
  BY <1>0, <1>2
<1>4. Steps(first)
  BY <1>0, CommonParts, StepsWhen, CorrectQueuedSteps
<1>5. Steps(SingleLayers(st.latest, k))
  BY <1>0, <1>2, SingleLayersSteps
<1>6. Steps(When(g > 0 /\ ade20k, ExitCheck))
  BY CommonParts, StepsWhen
<1> HIDE DEF first, ade20k
<1>7. Begins(body)
  BY <1>4, <1>5, <1>6, InputsBegin, BeginsConcat
<1>8. Ends(tail)
  BY <1>0, CompletionEnds
<1> HIDE DEF body, tail
<1>9. CASE g < st.n
  <2>1. FeedbackPlan(st, g, done).instrs = body /\ FeedbackPlan(st, g, done).latest = st.latest + k
    BY <1>1, <1>9 DEF Plan
  <2>2. QED
    BY <1>3, <1>7, <2>1, BeginsFormed
<1>10. CASE ~(g < st.n)
  <2>1. FeedbackPlan(st, g, done).instrs = tail /\ FeedbackPlan(st, g, done).latest = TotalLayers
    BY <1>1, <1>10 DEF Plan
  <2>2. g >= st.n
    BY <1>0, <1>10
  <2> DEFINE last == g >= st.n
  <2>3. last
    BY <2>2
  <2> HIDE DEF last
  <2>4. Formed(tail, last)
    BY <1>8, <2>3, BeginsFormed
  <2>5. TotalLayers \in 0 .. TotalLayers
    BY <1>0
  <2>6. QED
    BY <2>1, <2>4, <2>5 DEF last
<1>11. QED
  BY <1>9, <1>10

(* DynamicGroupTrigger.                                                     *)
LEMMA DynamicFormed ==
    ASSUME config \in Configs, NEW st \in PolicyType(config), NEW g \in 0 .. NumGroups
    PROVE  /\ Formed(DynamicPlan(st, g).instrs, g >= NumGroups)
           /\ DynamicPlan(st, g).latest \in 0 .. TotalLayers
<1> DEFINE k == IF st.latest = 0 THEN Min({AheadLayers, TotalLayers}) ELSE 0
           body == Inputs \o CorrectQueued(st, g) \o SingleLayers(st.latest, k) \o ExitCheck
           tail == Completion(st, g) \o When(GlobalMode = "final_correct", << GlobalApprox >>)
                   \o Finish
<1>0. /\ TotalLayers \in Nat \ {0} /\ st.latest \in 0 .. TotalLayers
      /\ NumGroups \in Nat \ {0} /\ AheadLayers \in Nat
  BY Configured DEF PolicyType, TotalLayers
<1>1. DynamicPlan(st, g) = IF g < NumGroups THEN Plan(body, st.latest + k) ELSE Plan(tail, st.latest)
  BY DEF DynamicPlan
<1>2. k \in 0 .. TotalLayers - st.latest
  BY <1>0, MinPair
<1> HIDE DEF k
<1>3. st.latest + k \in 0 .. TotalLayers
  BY <1>0, <1>2
<1>4. Steps(CorrectQueued(st, g)) /\ Steps(SingleLayers(st.latest, k)) /\ Steps(ExitCheck)
  BY <1>0, <1>2, SingleLayersSteps, CorrectQueuedSteps, CommonParts
<1>5. Begins(body)
  BY <1>4, InputsBegin, BeginsConcat
<1>6. Ends(tail)
  BY <1>0, CompletionEnds
<1> HIDE DEF body, tail
<1>7. CASE g < NumGroups
  <2>1. DynamicPlan(st, g).instrs = body /\ DynamicPlan(st, g).latest = st.latest + k
    BY <1>1, <1>7 DEF Plan
  <2>2. QED
    BY <1>3, <1>5, <2>1, BeginsFormed
<1>8. CASE ~(g < NumGroups)
  <2>1. DynamicPlan(st, g).instrs = tail /\ DynamicPlan(st, g).latest = st.latest
    BY <1>1, <1>8 DEF Plan
  <2>2. g >= NumGroups
    BY <1>0, <1>8
  <2>3. QED
    BY <1>0, <1>6, <2>1, <2>2, BeginsFormed
<1>9. QED
  BY <1>7, <1>8

(* Every plan of a group-driven policy.                                     *)
LEMMA PlanFormed ==
    ASSUME config \in Configs, Policy \notin CountPolicies,
           NEW st \in PolicyType(config), NEW g \in 0 .. NumGroups, NEW done \in Int
    PROVE  /\ Formed(PlanFor(st, g, done).instrs, Concludes(st, g))
           /\ PlanFor(st, g, done).latest \in 0 .. TotalLayers
<1>0. /\ st.latest \in 0 .. TotalLayers /\ st.n \in Nat \ {0} /\ g \in Nat
      /\ Policy \in GroupPolicies \cup DynamicPolicies
  BY Configured DEF PolicyType, TotalLayers
<1>1. CASE Policy = "GroupTrigger"
  <2>1. PlanFor(st, g, done) = Plan(GroupTriggerPlan(g), st.latest) /\ Concludes(st, g) = (g >= NumGroups)
    BY <1>1 DEF PlanFor, Concludes
  <2>2. QED
    BY <1>0, <2>1, GroupTriggerFormed DEF Plan
<1>2. CASE Policy = "ADE20KWindowInterleaved"
  <2>1. PlanFor(st, g, done) = Plan(WindowPlan(st, g), st.latest) /\ Concludes(st, g) = (g >= st.n)
    BY <1>2 DEF PlanFor, Concludes
  <2>2. QED
    BY <1>0, <2>1, WindowFormed DEF Plan
<1>3. CASE Policy = "VGGTInterleaved"
  <2>1. PlanFor(st, g, done) = Plan(VGGTPlan(g), st.latest) /\ Concludes(st, g) = (g >= NumGroups)
    BY <1>3 DEF PlanFor, Concludes
  <2>2. QED
    BY <1>0, <2>1, VGGTFormed DEF Plan
<1>4. CASE Policy = "COCOWindowInterleaved"
  <2>1. PlanFor(st, g, done) = COCOStaticPlan(st, g) /\ Concludes(st, g) = (g >= NumGroups)
    BY <1>4 DEF PlanFor, Concludes
  <2>2. QED
    BY <1>0, <2>1, COCOStaticFormed
<1>5. CASE Policy = "DynamicGroupTrigger"
  <2>1. PlanFor(st, g, done) = DynamicPlan(st, g) /\ Concludes(st, g) = (g >= NumGroups)
    BY <1>5 DEF PlanFor, Concludes
  <2>2. QED
    BY <2>1, DynamicFormed
<1>6. CASE Policy \in {"ADE20KInterleavedDynamic", "COCOWindowDynamic"}
  <2>1. PlanFor(st, g, done) = FeedbackPlan(st, g, done) /\ Concludes(st, g) = (g >= st.n)
    BY <1>6 DEF PlanFor, Concludes
  <2>2. QED
    BY <1>0, <2>1, FeedbackFormed
<1>7. CASE Policy \in {"ADE20KApproxCorrect", "NYUApproxCorrect"}
  <2>1. PlanFor(st, g, done) = Plan(ApproxCorrectPlan(g), st.latest) /\ Concludes(st, g) = (g # 0)
    BY <1>7 DEF PlanFor, Concludes
  <2>2. QED
    BY <1>0, <2>1, ApproxCorrectFormed DEF Plan
<1>8. QED
  BY <1>0, <1>1, <1>2, <1>3, <1>4, <1>5, <1>6, <1>7 DEF GroupPolicies, DynamicPolicies

(* The one plan of the counting policies answers.                           *)
LEMMA WholeModelEnds ==
    ASSUME config \in Configs
    PROVE  Ends(WholeModel)
<1>0. TotalLayers \in 0 .. TotalLayers /\ 0 \in 0 .. TotalLayers
  BY Configured
<1>1. {"LOAD_INPUT", "FULL_INFERENCE", "HEAD_INFERENCE"} \subseteq Opcodes
  BY DEF Opcodes, Skippable
<1>2. ASSUME NEW a \in InstrOf(config), NEW b \in InstrOf(config),
             a.op \notin AnswerOps, b.op \notin AnswerOps
      PROVE  Steps(<< a, b >>)
  <2>1. << a, b >> \in Seq(InstrOf(config))
    OBVIOUS
  <2>2. Open(<< a, b >>)
    BY <1>2 DEF Open
  <2>3. QED
    BY <2>1, <2>2 DEF Steps, Quiescent
<1>3. Steps(<< Approx(0, TotalLayers), Do("HEAD_INFERENCE") >>)
  BY <1>0, <1>1, <1>2, InstrType DEF AnswerOps
<1>4. Steps(<< Do("LOAD_INPUT"), Do("FULL_INFERENCE") >>)
  BY <1>1, <1>2, InstrType DEF AnswerOps
<1>5. Steps(<< Approx(0, TotalLayers) >>)
  BY <1>0, ApproxSteps
<1>6. Ends(Inputs \o << Approx(0, TotalLayers), Do("HEAD_INFERENCE") >> \o Respond)
  BY <1>3, CommonParts, StepsConcat, StepsEnds
<1>7. Ends(Inputs \o << Approx(0, TotalLayers) >> \o Finish)
  BY <1>5, CommonParts, StepsConcat, StepsEnds
<1>8. Ends(<< Do("LOAD_INPUT"), Do("FULL_INFERENCE") >> \o Respond)
  BY <1>4, CommonParts, StepsEnds
<1>9. QED
  BY <1>6, <1>7, <1>8 DEF WholeModel


-----------------------------------------------------------------------------
(* What a request's session is at between two instructions: the group       *)
(* loaded last and the one the tokens were made from, the groups whose      *)
(* corrections all features and caches hold, the layers cached, whether     *)
(* prepare_tokens has put the features back, whether the global source has  *)
(* been run, the depth of the output if it is of this input, and whether    *)
(* every image has its result.                                              *)
Versions == 0 .. NumGroups
Detecting == ExecutorName = "detector"
Denses == {"linhead", "m2f", "depther"}
Restless == {"linhead", "vggt"}

StageType == [in : {None} \cup Versions, made : {None} \cup Versions, fresh : Versions,
              l : 0 .. TotalLayers, reset : BOOLEAN, whole : BOOLEAN,
              out : {None} \cup 0 .. TotalLayers, ans : BOOLEAN]
Stages ==
    {a \in StageType : /\ a.made <= a.in
                       /\ a.fresh <= a.in \/ a.fresh = 0
                       /\ a.whole => Detecting}

Start == [in |-> None, made |-> None, fresh |-> 0, l |-> 0, reset |-> FALSE,
          whole |-> FALSE, out |-> None, ans |-> FALSE]

(* What an instruction makes of it.                                         *)
Loading(a, v) == [a EXCEPT !.in = v, !.fresh = IF a.l = 0 THEN v ELSE @, !.out = None]
Preparing(a) == [a EXCEPT !.made = a.in, !.reset = TRUE]
Covering(a) == [a EXCEPT !.whole = TRUE]
Approximating(a, hi) ==
    [a EXCEPT !.l = hi, !.reset = FALSE,
              !.whole = IF ~Detecting \/ GlobalMode = "final_correct" THEN FALSE
                        ELSE IF GlobalMode = "approx" THEN hi = TotalLayers
                        ELSE @]
Correcting(a) == [a EXCEPT !.fresh = a.in, !.reset = FALSE]
Producing(a, d) == [a EXCEPT !.out = d]
Delivering(a) == [a EXCEPT !.ans = TRUE]

After(a, instr, v) ==
    CASE instr.op = "LOAD_INPUT" -> Loading(a, v)
      [] instr.op = "PREPARE_TOKENS" -> Preparing(a)
      [] instr.op = "APPROX_FORWARD" /\ instr.global -> Covering(a)
      [] instr.op = "APPROX_FORWARD" /\ ~instr.global -> Approximating(a, instr.hi)
      [] instr.op = "CORRECT_FORWARD" -> Correcting(a)
      [] instr.op = "HEAD_INFERENCE" -> Producing(a, a.l)
      [] instr.op = "FULL_INFERENCE" -> Producing(a, TotalLayers)
      [] instr.op \in {"EXIT_ALL", "SEND_RESPONSE"} -> Delivering(a)
      [] OTHER -> a

(* When it may come: what schedule and executor have to agree on.           *)
LoadAllowed(a, v) == ~a.ans /\ v \in Versions /\ (a.in = None \/ v = a.in + 1)
PrepareAllowed(a) == a.in # None /\ (a.made = None \/ a.made = a.in - 1)
Ready(a) == a.made = a.in /\ a.in # None
GlobalAllowed(a, instr) == Ready(a) /\ Detecting /\ instr.hi = TotalLayers
ApproxAllowed(a, instr) ==
    Ready(a) /\ instr.lo = a.l /\ instr.hi \in a.l .. TotalLayers /\ (a.l > 0 => ~a.reset)
CorrectAllowed(a, instr) ==
    /\ Ready(a) /\ a.in \in Regions /\ a.l > 0 /\ instr.hi = a.l /\ a.fresh >= a.in - 1 /\ a.reset
    /\ instr.gid = a.in \/ (instr.gid = 0 /\ ExecutorName \in Denses \cup {"vggt"})
HeadAllowed(a) ==
    /\ Ready(a) /\ a.l > 0 /\ ~a.reset /\ a.fresh = a.in
    /\ ExecutorName # "sam3"
    /\ ExecutorName \in MultiLevel => a.l = TotalLayers
    /\ Detecting => a.whole
Allowed(a, instr, v) ==
    CASE instr.op = "LOAD_INPUT" -> LoadAllowed(a, v)
      [] instr.op = "PREPARE_TOKENS" -> PrepareAllowed(a)
      [] instr.op = "APPROX_FORWARD" /\ instr.global -> GlobalAllowed(a, instr)
      [] instr.op = "APPROX_FORWARD" /\ ~instr.global -> ApproxAllowed(a, instr)
      [] instr.op = "CORRECT_FORWARD" -> CorrectAllowed(a, instr)
      [] instr.op = "HEAD_INFERENCE" -> HeadAllowed(a)
      [] instr.op = "FULL_INFERENCE" -> a.in # None /\ ExecutorName # "sam3"
      [] instr.op = "DECIDE_EXIT" -> EarlyExit /\ a.out # None
      [] instr.op \in {"EXIT_ALL", "SEND_RESPONSE"} -> a.out = TotalLayers
      [] instr.op = "FREE_SESSION" -> a.ans
      [] OTHER -> FALSE

-----------------------------------------------------------------------------
(* Sessions, and those that are at a stage.                                 *)
OutcomeType == [depth : Int, ver : Int, stale : SUBSET Int]
SessionType ==
    [input : {None} \cup Versions,
     tokens : [Parts -> {None} \cup Versions],
     at : [Parts -> 0 .. TotalLayers \cup {None}],
     ver : [Parts -> {None} \cup Versions],
     outs : [Parts -> 0 .. TotalLayers],
     inc : [Regions -> [Layers -> {None} \cup Versions]],
     kv : [Regions -> [Layers -> {None} \cup Versions]],
     output : OutcomeType,
     active : SUBSET Images,
     final : [Images -> OutcomeType]]

Good(o) == o.depth # None /\ (ExecutorName \notin Forgetful => o.stale = {})
Complete(o, v) == Good(o) /\ (~EarlyExit => o.depth = TotalLayers /\ o.ver = v)

TokensOK(s, a) ==
    IF a.made = None THEN \A p \in Parts : s.tokens[p] = None
    ELSE \A p \in Parts : s.tokens[p] \in Versions /\ (p <= a.made => s.tokens[p] >= p)
CachesOK(s, a) ==
    \A p \in Regions :
        /\ s.outs[p] = a.l
        /\ \A l \in Layers : IF l < a.l THEN s.kv[p][l] \in Versions /\ s.inc[p][l] \in Versions
                             ELSE s.kv[p][l] = None
DepthOK(s, a) ==
    /\ a.l > 0 /\ (~a.reset \/ ExecutorName \notin Restless) => \A p \in Regions : s.at[p] = a.l
    /\ ExecutorName = "vggt" /\ a.made # None /\ (a.reset \/ a.l = 0) =>
          \A p \in Regions : s.at[p] = 0 /\ s.ver[p] = s.tokens[p]
    /\ a.l > 0 => \A p \in Regions : s.ver[p] \in Versions
FreshOK(s, a) ==
    a.l > 0 /\ ExecutorName \notin Forgetful =>
        \A p \in Regions : p <= a.fresh =>
            s.ver[p] >= p /\ \A l \in Layers : l < a.l => s.kv[p][l] >= p /\ s.inc[p][l] >= p
WholeOK(s, a) ==
    a.whole => s.at[Whole] = TotalLayers /\ s.outs[Whole] = TotalLayers /\ s.at[1] # None
OutOK(s, a) ==
    a.out # None => s.output.depth = a.out /\ s.output.ver = a.in /\ Good(s.output)
State(s, a) ==
    /\ s.input = a.in
    /\ TokensOK(s, a) /\ CachesOK(s, a) /\ DepthOK(s, a) /\ FreshOK(s, a)
    /\ WholeOK(s, a) /\ OutOK(s, a)

(* Images that have left keep their result; once all have, the rest of the  *)
(* session does not matter any more.                                        *)
Match(s, a) ==
    /\ \A i \in Images \ s.active : Good(s.final[i])
    /\ a.ans => \A i \in Images : Complete(s.final[i], a.in)
    /\ ~EarlyExit => s.active = Images \/ a.ans
    /\ s.active # {} => State(s, a)

-----------------------------------------------------------------------------
(* The numbers of layers and groups of a configuration, and its sets.       *)
LEMMA Sizes ==
    ASSUME config \in Configs
    PROVE  /\ TotalLayers \in Nat \ {0} /\ NumGroups \in Nat \ {0}
           /\ Regions = 1 .. NumGroups /\ Parts = 0 .. NumGroups /\ Whole = 0
           /\ Layers = 0 .. TotalLayers - 1 /\ Versions = 0 .. NumGroups /\ None = -1
           /\ 1 \in Regions /\ Whole \notin Regions
           /\ EarlyExit \in BOOLEAN /\ ExecutorName \in ExecutorNames
           /\ Detecting <=> GlobalMode # "none"
           /\ Windows => Detecting
           /\ GlobalMode \in {"none", "global_first", "final_correct", "approx"}
           /\ Images # {}
<1>1. /\ TotalLayers \in Nat \ {0} /\ NumGroups \in Nat \ {0} /\ EarlyExit \in BOOLEAN
  BY Configured
<1>2. /\ ExecutorName \in ExecutorNames /\ (Detecting <=> GlobalMode # "none")
      /\ Windows => Detecting
      /\ config.batch \in Nat \ {0}
  BY ExecutorAssumption DEF ExecutorName, Detecting, GlobalMode, Windows
<1>3. GlobalMode \in {"none", "global_first", "final_correct", "approx"}
  BY PolicyAssumption DEF GlobalMode
<1>4. 1 \in Images
  BY <1>2 DEF Images
<1>5. QED
  BY <1>1, <1>2, <1>3, <1>4 DEF Regions, Parts, Whole, Layers, Versions, None

(* What the fields of a stage are.                                          *)
LEMMA StageFields ==
    ASSUME config \in Configs, NEW a \in Stages
    PROVE  /\ a.in \in -1 .. NumGroups /\ a.made \in -1 .. NumGroups /\ a.fresh \in 0 .. NumGroups
           /\ a.l \in 0 .. TotalLayers /\ a.reset \in BOOLEAN /\ a.whole \in BOOLEAN
           /\ a.out \in -1 .. TotalLayers /\ a.ans \in BOOLEAN
           /\ a.made <= a.in /\ (a.fresh <= a.in \/ a.fresh = 0) /\ (a.whole => Detecting)
  BY Sizes DEF Stages, StageType

-----------------------------------------------------------------------------
(* What an instruction changes of the stage is again a stage.               *)
LEMMA AfterType ==
    ASSUME config \in Configs, NEW a \in Stages, NEW instr, NEW v, Allowed(a, instr, v)
    PROVE  After(a, instr, v) \in Stages
<1> DEFINE b == After(a, instr, v)
<1>0. /\ NumGroups \in Nat \ {0} /\ TotalLayers \in Nat \ {0} /\ Versions = 0 .. NumGroups
      /\ None = -1 /\ Regions = 1 .. NumGroups
      /\ a \in StageType
      /\ a.in \in -1 .. NumGroups /\ a.made \in -1 .. NumGroups /\ a.fresh \in 0 .. NumGroups
      /\ a.l \in 0 .. TotalLayers /\ a.made <= a.in /\ (a.fresh <= a.in \/ a.fresh = 0)
      /\ (a.whole => Detecting)
  BY Sizes, StageFields DEF Stages
<1> SUFFICES b \in StageType /\ b.made <= b.in /\ (b.fresh <= b.in \/ b.fresh = 0)
             /\ (b.whole => Detecting)
  BY DEF Stages
<1>1. CASE instr.op = "LOAD_INPUT"
  <2>1. b = [a EXCEPT !.in = v, !.fresh = IF a.l = 0 THEN v ELSE a.fresh, !.out = None]
    BY <1>1 DEF After, Loading, Preparing, Covering, Approximating, Correcting,
                      Producing, Delivering
  <2>2. v \in Versions /\ (a.in = None \/ v = a.in + 1)
    BY <1>1 DEF Allowed, LoadAllowed
  <2>3. b \in StageType
    BY <1>0, <2>1, <2>2 DEF StageType
  <2>4. b.in = v /\ b.fresh = (IF a.l = 0 THEN v ELSE a.fresh) /\ b.made = a.made
        /\ b.whole = a.whole
    BY <1>0, <2>1 DEF StageType
  <2>5. QED
    BY <1>0, <2>2, <2>3, <2>4
<1>2. CASE instr.op = "PREPARE_TOKENS"
  <2>1. b = [a EXCEPT !.made = a.in, !.reset = TRUE]
    BY <1>2 DEF After, Loading, Preparing, Covering, Approximating, Correcting,
                      Producing, Delivering
  <2>2. b \in StageType
    BY <1>0, <2>1 DEF StageType
  <2>3. b.in = a.in /\ b.fresh = a.fresh /\ b.made = a.in /\ b.whole = a.whole
    BY <1>0, <2>1 DEF StageType
  <2>4. QED
    BY <1>0, <2>2, <2>3
<1>3. CASE instr.op = "APPROX_FORWARD" /\ instr.global
  <2>1. b = [a EXCEPT !.whole = TRUE]
    BY <1>3 DEF After, Loading, Preparing, Covering, Approximating, Correcting,
                      Producing, Delivering
  <2>2. Detecting
    BY <1>3 DEF Allowed, GlobalAllowed
  <2>3. b \in StageType
    BY <1>0, <2>1 DEF StageType
  <2>4. b.in = a.in /\ b.fresh = a.fresh /\ b.made = a.made
    BY <1>0, <2>1 DEF StageType
  <2>5. QED
    BY <1>0, <2>2, <2>3, <2>4
<1>4. CASE instr.op = "APPROX_FORWARD" /\ ~instr.global
  <2> DEFINE w == IF ~Detecting \/ GlobalMode = "final_correct" THEN FALSE
                  ELSE IF GlobalMode = "approx" THEN instr.hi = TotalLayers ELSE a.whole
  <2>1. b = [a EXCEPT !.l = instr.hi, !.reset = FALSE, !.whole = w]
    BY <1>4 DEF After, Loading, Preparing, Covering, Approximating, Correcting,
                      Producing, Delivering
  <2>2. instr.hi \in a.l .. TotalLayers
    BY <1>4 DEF Allowed, ApproxAllowed
  <2>3. w \in BOOLEAN /\ (w => Detecting)
    BY <1>0 DEF StageType
  <2>4. instr.hi \in 0 .. TotalLayers
    BY <1>0, <2>2
  <2> HIDE DEF w
  <2>5. b \in StageType
    BY <1>0, <2>1, <2>3, <2>4 DEF StageType
  <2>6. b.in = a.in /\ b.fresh = a.fresh /\ b.made = a.made /\ b.whole = w
    BY <1>0, <2>1 DEF StageType
  <2>7. QED
    BY <1>0, <2>3, <2>5, <2>6
<1>5. CASE instr.op = "CORRECT_FORWARD"
  <2>1. b = [a EXCEPT !.fresh = a.in, !.reset = FALSE]
    BY <1>5 DEF After, Loading, Preparing, Covering, Approximating, Correcting,
                      Producing, Delivering
  <2>2. a.in \in Versions
    BY <1>0, <1>5 DEF Allowed, CorrectAllowed
  <2>3. b \in StageType
    BY <1>0, <2>1, <2>2 DEF StageType
  <2>4. b.in = a.in /\ b.fresh = a.in /\ b.made = a.made /\ b.whole = a.whole
    BY <1>0, <2>1 DEF StageType
  <2>5. QED
    BY <1>0, <2>2, <2>3, <2>4
<1>6. CASE instr.op \in {"HEAD_INFERENCE", "FULL_INFERENCE"}
  <2>1. PICK d \in 0 .. TotalLayers : b = [a EXCEPT !.out = d]
    BY <1>0, <1>6 DEF After, Loading, Preparing, Covering, Approximating, Correcting,
                      Producing, Delivering
  <2>2. b \in StageType
    BY <1>0, <2>1 DEF StageType
  <2>3. b.in = a.in /\ b.fresh = a.fresh /\ b.made = a.made /\ b.whole = a.whole
    BY <1>0, <2>1 DEF StageType
  <2>4. QED
    BY <1>0, <2>2, <2>3
<1>7. CASE instr.op \in {"EXIT_ALL", "SEND_RESPONSE"}
  <2>1. b = [a EXCEPT !.ans = TRUE]
    BY <1>7 DEF After, Loading, Preparing, Covering, Approximating, Correcting,
                      Producing, Delivering
  <2>2. b \in StageType
    BY <1>0, <2>1 DEF StageType
  <2>3. b.in = a.in /\ b.fresh = a.fresh /\ b.made = a.made /\ b.whole = a.whole
    BY <1>0, <2>1 DEF StageType
  <2>4. QED
    BY <1>0, <2>2, <2>3
<1>8. CASE instr.op \in {"DECIDE_EXIT", "FREE_SESSION"}
  <2>1. b = a
    BY <1>8 DEF After, Loading, Preparing, Covering, Approximating, Correcting,
                      Producing, Delivering
  <2>2. QED
    BY <1>0, <2>1
<1>9. instr.op \in {"LOAD_INPUT", "PREPARE_TOKENS", "APPROX_FORWARD", "CORRECT_FORWARD",
                    "HEAD_INFERENCE", "FULL_INFERENCE", "DECIDE_EXIT", "EXIT_ALL",
                    "SEND_RESPONSE", "FREE_SESSION"}
  BY DEF Allowed
<1>10. QED
  BY <1>1, <1>2, <1>3, <1>4, <1>5, <1>6, <1>7, <1>8, <1>9

(* The fields of a session.                                                 *)
LEMMA SessionFields ==
    ASSUME config \in Configs, NEW s \in SessionType
    PROVE  /\ s.input \in -1 .. NumGroups
           /\ s.tokens \in [Parts -> -1 .. NumGroups]
           /\ s.at \in [Parts -> -1 .. TotalLayers]
           /\ s.ver \in [Parts -> -1 .. NumGroups]
           /\ s.outs \in [Parts -> 0 .. TotalLayers]
           /\ s.inc \in [Regions -> [Layers -> -1 .. NumGroups]]
           /\ s.kv \in [Regions -> [Layers -> -1 .. NumGroups]]
           /\ s.output \in OutcomeType /\ s.active \subseteq Images
           /\ s.final \in [Images -> OutcomeType]
<1>1. /\ {None} \cup Versions = -1 .. NumGroups
      /\ 0 .. TotalLayers \cup {None} = -1 .. TotalLayers
  BY Sizes
<1>2. QED
  BY <1>1 DEF SessionType

Loaded(s, v) == [s EXCEPT !.input = v]

(* LOAD_INPUT: the session follows the stage.                               *)
LEMMA LoadKeeps ==
    ASSUME config \in Configs, NEW a \in Stages, NEW s \in SessionType, State(s, a),
           NEW v, LoadAllowed(a, v), NEW t, t = Loaded(s, v),
           NEW b, b = Loading(a, v)
    PROVE  t \in SessionType /\ State(t, b) /\ t.active = s.active /\ t.final = s.final
<1>1. /\ t \in SessionType /\ t.input = v /\ t.tokens = s.tokens /\ t.at = s.at /\ t.ver = s.ver
      /\ t.active = s.active /\ t.final = s.final /\ t.outs = s.outs /\ t.inc = s.inc /\ t.kv = s.kv
  BY DEF SessionType, LoadAllowed, Loaded
<1>2. /\ b.in = v /\ b.made = a.made /\ b.l = a.l /\ b.reset = a.reset /\ b.whole = a.whole
      /\ b.out = None /\ (a.l > 0 => b.fresh = a.fresh)
  BY DEF Stages, StageType, Loading
<1> HIDE DEF State
<1>3. TokensOK(t, b) /\ CachesOK(t, b) /\ DepthOK(t, b) /\ WholeOK(t, b) /\ OutOK(t, b)
  BY <1>1, <1>2 DEF State, TokensOK, CachesOK, DepthOK, WholeOK, OutOK
<1>4. FreshOK(t, b)
  BY <1>1, <1>2 DEF State, FreshOK
<1>5. QED
  BY <1>1, <1>2, <1>3, <1>4 DEF State

-----------------------------------------------------------------------------
(* prepare_tokens makes the tokens of every part, or those of one window.   *)
MadeTokens(s) ==
    IF Windows /\ s.input \in Regions /\ Prepared(s) THEN PrepareWindow(s) ELSE PrepareAll(s)

LEMMA MadeIs ==
    ASSUME config \in Configs, NEW a \in Stages, NEW s \in SessionType, State(s, a),
           PrepareAllowed(a), NEW m, m = MadeTokens(s)
    PROVE  /\ m \in SessionType /\ m.input = s.input /\ m.at = s.at /\ m.ver = s.ver
           /\ m.outs = s.outs /\ m.inc = s.inc /\ m.kv = s.kv /\ m.output = s.output
           /\ m.active = s.active /\ m.final = s.final
           /\ \A p \in Parts : m.tokens[p] \in Versions /\ (p <= a.in => m.tokens[p] >= p)
<1>0. /\ NumGroups \in Nat \ {0} /\ Versions = 0 .. NumGroups /\ None = -1
      /\ Regions = 1 .. NumGroups /\ Parts = 0 .. NumGroups /\ Whole = 0
  BY Sizes
<1>1. s.input = a.in /\ a.in \in Versions /\ TokensOK(s, a) /\ a.made \in {None, a.in - 1}
  BY <1>0, StageFields DEF State, PrepareAllowed
<1>2. s.tokens \in [Parts -> {None} \cup Versions]
  BY DEF SessionType
<1>3. CASE Windows /\ s.input \in Regions /\ Prepared(s)
  <2> DEFINE x == [s.tokens EXCEPT ![s.input] = s.input]
  <2>1. m = [s EXCEPT !.tokens = x]
    BY <1>3 DEF MadeTokens, PrepareWindow
  <2>2. a.made = a.in - 1 /\ a.made # None
    BY <1>0, <1>1, <1>3 DEF Prepared, TokensOK
  <2>3. \A p \in Parts : s.tokens[p] \in Versions /\ (p <= a.made => s.tokens[p] >= p)
    BY <1>1, <2>2 DEF TokensOK
  <2>4. x \in [Parts -> {None} \cup Versions]
    BY <1>0, <1>1, <1>2
  <2>5. \A p \in Parts : x[p] = IF p = a.in THEN a.in ELSE s.tokens[p]
    BY <1>0, <1>1, <1>2
  <2> HIDE DEF x
  <2>6. \A p \in Parts : x[p] \in Versions /\ (p <= a.in => x[p] >= p)
    BY <1>0, <1>1, <2>2, <2>3, <2>5
  <2>7. QED
    BY <2>1, <2>4, <2>6 DEF SessionType
<1>4. CASE ~(Windows /\ s.input \in Regions /\ Prepared(s))
  <2> DEFINE x == [p \in Parts |-> IF p = Whole /\ BaseGlobal THEN 0 ELSE s.input]
  <2>1. m = [s EXCEPT !.tokens = x]
    BY <1>4 DEF MadeTokens, PrepareAll
  <2>2. \A p \in Parts : x[p] \in Versions /\ (p <= a.in => x[p] >= p)
    BY <1>0, <1>1
  <2>3. x \in [Parts -> {None} \cup Versions]
    BY <2>2
  <2> HIDE DEF x
  <2>4. QED
    BY <2>1, <2>2, <2>3 DEF SessionType
<1>5. QED
  BY <1>3, <1>4

(* What it does to the feature.                                             *)
LEMMA PrepareIs ==
    ASSUME NEW s, s.input # None
    PROVE  PrepareTokens(s) =
             IF ExecutorName \in {"classifier", "openclip", "sam3"} THEN FirstFeature(MadeTokens(s))
             ELSE IF ExecutorName = "linhead" THEN DropFeature(MadeTokens(s))
             ELSE IF ExecutorName = "vggt" THEN RewindFeature(MadeTokens(s))
             ELSE MadeTokens(s)
<1> DEFINE m == MadeTokens(s)
<1>1. PrepareTokens(s) =
        CASE s.input = None -> s
          [] s.input # None /\ ExecutorName \in {"classifier", "openclip", "sam3"}
               -> FirstFeature(m)
          [] s.input # None /\ ExecutorName = "linhead" -> DropFeature(m)
          [] s.input # None /\ ExecutorName = "vggt" -> RewindFeature(m)
          [] OTHER -> m
  BY DEF PrepareTokens, MadeTokens
<1> HIDE DEF m
<1>2. CASE ExecutorName \in {"classifier", "openclip", "sam3"}
  BY <1>1, <1>2 DEF m
<1>3. CASE ExecutorName = "linhead"
  BY <1>1, <1>3 DEF m
<1>4. CASE ExecutorName = "vggt"
  BY <1>1, <1>4 DEF m
<1>5. CASE ExecutorName \notin {"classifier", "openclip", "sam3", "linhead", "vggt"}
  BY <1>1, <1>5 DEF m
<1>6. QED
  BY <1>2, <1>3, <1>4, <1>5

(* PREPARE_TOKENS puts the features back and makes the tokens of all        *)
(* groups loaded.                                                           *)
LEMMA PrepareKeeps ==
    ASSUME config \in Configs, NEW a \in Stages, NEW s \in SessionType, State(s, a),
           PrepareAllowed(a), NEW t, t = PrepareTokens(s),
           NEW b, b = Preparing(a)
    PROVE  t \in SessionType /\ State(t, b) /\ t.active = s.active /\ t.final = s.final
<1> DEFINE m == MadeTokens(s)
<1>0. /\ TotalLayers \in Nat \ {0} /\ NumGroups \in Nat \ {0} /\ Versions = 0 .. NumGroups
      /\ None = -1 /\ Regions = 1 .. NumGroups /\ Parts = 0 .. NumGroups /\ Whole = 0
      /\ 1 \in Regions
  BY Sizes
<1>1. /\ m \in SessionType /\ m.input = s.input /\ m.at = s.at /\ m.ver = s.ver
      /\ m.outs = s.outs /\ m.inc = s.inc /\ m.kv = s.kv /\ m.output = s.output
      /\ m.active = s.active /\ m.final = s.final
      /\ \A p \in Parts : m.tokens[p] \in Versions /\ (p <= a.in => m.tokens[p] >= p)
  BY MadeIs
<1>2. /\ b.in = a.in /\ b.made = a.in /\ b.l = a.l /\ b.reset = TRUE /\ b.whole = a.whole
      /\ b.out = a.out /\ b.fresh = a.fresh
  BY DEF Stages, StageType, Preparing
<1>3. /\ a.in # None /\ s.input = a.in /\ a.l \in 0 .. TotalLayers /\ a.in \in Versions
      /\ a.fresh <= a.in \/ a.fresh = 0
      /\ a.fresh \in Versions /\ (a.whole => Detecting)
      /\ CachesOK(s, a) /\ DepthOK(s, a) /\ FreshOK(s, a) /\ WholeOK(s, a) /\ OutOK(s, a)
  BY <1>0, StageFields DEF State, PrepareAllowed
<1>4. t = IF ExecutorName \in {"classifier", "openclip", "sam3"} THEN FirstFeature(m)
          ELSE IF ExecutorName = "linhead" THEN DropFeature(m)
          ELSE IF ExecutorName = "vggt" THEN RewindFeature(m)
          ELSE m
  BY <1>3, PrepareIs
<1> HIDE DEF m
<1> SUFFICES /\ t \in SessionType /\ t.input = m.input /\ t.tokens = m.tokens /\ t.outs = m.outs
             /\ t.inc = m.inc /\ t.kv = m.kv /\ t.output = m.output
             /\ t.active = m.active /\ t.final = m.final
             /\ DepthOK(t, b) /\ FreshOK(t, b) /\ WholeOK(t, b)
  <2>1. TokensOK(t, b)
    BY <1>1, <1>2, <1>3 DEF TokensOK
  <2>2. CachesOK(t, b) /\ OutOK(t, b)
    BY <1>1, <1>2, <1>3 DEF CachesOK, OutOK
  <2>3. QED
    BY <1>1, <1>2, <1>3, <2>1, <2>2 DEF State
<1>5. m.tokens \in [Parts -> Versions]
  BY <1>1 DEF SessionType
<1>6. a.l > 0 => \A p \in Regions : s.ver[p] \in Versions
  BY <1>3 DEF DepthOK
<1>7. CASE t = m /\ ExecutorName \notin Restless
  <2>1. DepthOK(t, b)
    BY <1>0, <1>1, <1>2, <1>3, <1>7 DEF DepthOK, Restless
  <2>2. FreshOK(t, b) /\ WholeOK(t, b)
    BY <1>1, <1>2, <1>3, <1>7 DEF FreshOK, WholeOK
  <2>3. QED
    BY <1>1, <1>7, <2>1, <2>2
<1>8. CASE t = FirstFeature(m) /\ ExecutorName \in {"classifier", "openclip", "sam3"}
  <2>1. CASE s.at[1] # None
    <3>1. t = m
      BY <1>1, <1>8, <2>1 DEF FirstFeature
    <3>2. QED
      BY <1>7, <1>8, <3>1 DEF Restless
  <2>2. CASE s.at[1] = None
    <3> DEFINE x == [p \in Parts |-> 0]
    <3>1. t = [m EXCEPT !.at = x, !.ver = m.tokens]
      BY <1>1, <1>8, <2>2 DEF FirstFeature
    <3>2. x \in [Parts -> 0 .. TotalLayers \cup {None}]
      BY <1>0
    <3> HIDE DEF x
    <3>3. /\ t \in SessionType /\ t.input = m.input /\ t.tokens = m.tokens /\ t.outs = m.outs
          /\ t.inc = m.inc /\ t.kv = m.kv /\ t.output = m.output
          /\ t.active = m.active /\ t.final = m.final
      BY <1>1, <1>5, <3>1, <3>2 DEF SessionType
    <3>4. a.l = 0
      BY <1>0, <1>3, <1>8, <2>2 DEF DepthOK, Restless
    <3>5. ~a.whole
      BY <1>3, <1>8 DEF Detecting
    <3>6. DepthOK(t, b) /\ FreshOK(t, b) /\ WholeOK(t, b)
      BY <1>2, <1>8, <3>4, <3>5 DEF DepthOK, FreshOK, WholeOK
    <3>7. QED
      BY <3>3, <3>6
  <2>3. QED
    BY <2>1, <2>2
<1>9. CASE t = DropFeature(m) /\ ExecutorName = "linhead"
  <2> DEFINE x == [p \in Parts |-> None]
  <2>1. t = [m EXCEPT !.at = x]
    BY <1>9 DEF DropFeature
  <2>2. x \in [Parts -> 0 .. TotalLayers \cup {None}]
    OBVIOUS
  <2> HIDE DEF x
  <2>3. /\ t \in SessionType /\ t.input = m.input /\ t.tokens = m.tokens /\ t.outs = m.outs
        /\ t.inc = m.inc /\ t.kv = m.kv /\ t.output = m.output /\ t.ver = m.ver
        /\ t.active = m.active /\ t.final = m.final
    BY <1>1, <2>1, <2>2 DEF SessionType
  <2>4. ~a.whole
    BY <1>3, <1>9 DEF Detecting
  <2>5. DepthOK(t, b) /\ WholeOK(t, b)
    BY <1>1, <1>2, <1>6, <1>9, <2>3, <2>4 DEF DepthOK, WholeOK, Restless
  <2>6. FreshOK(t, b)
    BY <1>1, <1>2, <1>3, <2>3 DEF FreshOK
  <2>7. QED
    BY <2>3, <2>5, <2>6
<1>10. CASE t = RewindFeature(m) /\ ExecutorName = "vggt"
  <2> DEFINE x == [p \in Parts |-> 0]
  <2>1. t = [m EXCEPT !.at = x, !.ver = m.tokens]
    BY <1>10 DEF RewindFeature
  <2>2. x \in [Parts -> 0 .. TotalLayers \cup {None}] /\ \A p \in Parts : x[p] = 0
    BY <1>0
  <2> HIDE DEF x
  <2>3. /\ t \in SessionType /\ t.input = m.input /\ t.tokens = m.tokens /\ t.outs = m.outs
        /\ t.inc = m.inc /\ t.kv = m.kv /\ t.output = m.output
        /\ t.active = m.active /\ t.final = m.final /\ t.at = x /\ t.ver = m.tokens
    BY <1>1, <1>5, <2>1, <2>2 DEF SessionType
  <2>4. ~a.whole
    BY <1>3, <1>10 DEF Detecting
  <2>5. DepthOK(t, b) /\ WholeOK(t, b)
    BY <1>0, <1>1, <1>2, <1>10, <2>2, <2>3, <2>4 DEF DepthOK, WholeOK, Restless
  <2>6. FreshOK(t, b)
    <3>1. \A p \in Regions : p <= b.fresh => t.ver[p] >= p
      BY <1>0, <1>1, <1>2, <1>3, <2>3
    <3>2. QED
      BY <1>1, <1>2, <1>3, <2>3, <3>1 DEF FreshOK
  <2>7. QED
    BY <2>3, <2>5, <2>6
<1>11. QED
  BY <1>4, <1>7, <1>8, <1>9, <1>10 DEF Restless

-----------------------------------------------------------------------------
(* A pass begins: the feature is at the layer the pass begins with, made    *)
(* from tokens that are there.                                              *)
LEMMA FirstIs ==
    ASSUME config \in Configs, NEW a \in Stages, NEW s \in SessionType, State(s, a), Ready(a),
           NEW f, f = FirstFeature(s)
    PROVE  /\ Prepared(s) /\ f.at[1] # None
           /\ f \in SessionType /\ f.input = s.input /\ f.tokens = s.tokens /\ f.outs = s.outs
           /\ f.inc = s.inc /\ f.kv = s.kv /\ f.output = s.output
           /\ f.active = s.active /\ f.final = s.final
           /\ f = s \/ (s.at[1] = None /\ f.ver = s.tokens /\ \A p \in Parts : f.at[p] = 0)
           /\ s.tokens \in [Parts -> Versions]
           /\ \A p \in Parts : p <= a.in => s.tokens[p] >= p
<1>0. /\ TotalLayers \in Nat \ {0} /\ NumGroups \in Nat \ {0} /\ Versions = 0 .. NumGroups
      /\ None = -1 /\ Regions = 1 .. NumGroups /\ Parts = 0 .. NumGroups /\ 1 \in Regions
  BY Sizes
<1>1. s.tokens \in [Parts -> Versions] /\ \A p \in Parts : p <= a.in => s.tokens[p] >= p
  BY <1>0 DEF State, TokensOK, Ready, SessionType
<1>2. Prepared(s)
  BY <1>0, <1>1 DEF Prepared
<1>3. CASE s.at[1] # None
  BY <1>1, <1>2, <1>3 DEF FirstFeature
<1>4. CASE s.at[1] = None
  <2> DEFINE x == [p \in Parts |-> 0]
  <2>1. f = [s EXCEPT !.at = x, !.ver = s.tokens]
    BY <1>4 DEF FirstFeature
  <2>2. x \in [Parts -> 0 .. TotalLayers \cup {None}] /\ \A p \in Parts : x[p] = 0
    BY <1>0
  <2> HIDE DEF x
  <2>3. /\ f \in SessionType /\ f.input = s.input /\ f.tokens = s.tokens /\ f.outs = s.outs
        /\ f.inc = s.inc /\ f.kv = s.kv /\ f.output = s.output /\ f.at = x /\ f.ver = s.tokens
        /\ f.active = s.active /\ f.final = s.final
    BY <1>1, <2>1, <2>2 DEF SessionType
  <2>4. QED
    BY <1>0, <1>1, <1>2, <1>4, <2>2, <2>3, SMTT(30)
<1>5. QED
  BY <1>3, <1>4

(* The global source by itself.                                             *)
LEMMA GlobalKeeps ==
    ASSUME config \in Configs, NEW a \in Stages, NEW s \in SessionType, State(s, a),
           NEW instr, GlobalAllowed(a, instr), instr.global, NEW t, t = ApproxForward(s, instr),
           NEW b, b = Covering(a)
    PROVE  t \in SessionType /\ State(t, b) /\ t.active = s.active /\ t.final = s.final
<1> DEFINE f == FirstFeature(s)
<1>0. /\ TotalLayers \in Nat \ {0} /\ NumGroups \in Nat \ {0} /\ Versions = 0 .. NumGroups
      /\ None = -1 /\ Regions = 1 .. NumGroups /\ Parts = 0 .. NumGroups /\ Whole = 0
      /\ 1 \in Regions
  BY Sizes
<1>1. /\ Prepared(s) /\ f.at[1] # None
      /\ f \in SessionType /\ f.input = s.input /\ f.tokens = s.tokens /\ f.outs = s.outs
      /\ f.inc = s.inc /\ f.kv = s.kv /\ f.output = s.output
      /\ f.active = s.active /\ f.final = s.final
      /\ f = s \/ (s.at[1] = None /\ f.ver = s.tokens /\ \A p \in Parts : f.at[p] = 0)
      /\ s.tokens \in [Parts -> Versions]
  BY FirstIs DEF GlobalAllowed
<1>2. /\ Detecting /\ instr.hi = TotalLayers /\ a.l \in 0 .. TotalLayers
  BY StageFields DEF GlobalAllowed
<1>3. t = GlobalExact(f, TotalLayers)
  BY <1>1, <1>2 DEF ApproxForward
<1>4. a.l > 0 => f = s
  BY <1>0, <1>1, <1>2 DEF State, DepthOK, Detecting, Restless
<1>5. /\ s.input = a.in /\ TokensOK(s, a) /\ CachesOK(s, a) /\ DepthOK(s, a) /\ FreshOK(s, a)
      /\ OutOK(s, a)
  BY DEF State
<1>6. /\ b.in = a.in /\ b.made = a.made /\ b.l = a.l /\ b.reset = a.reset
      /\ b.out = a.out /\ b.fresh = a.fresh
  BY DEF Stages, StageType, Covering
<1> HIDE DEF f
<1> DEFINE x == [f.at EXCEPT ![Whole] = TotalLayers]
           y == [f.ver EXCEPT ![Whole] = f.tokens[Whole]]
           z == [f.outs EXCEPT ![Whole] = TotalLayers]
<1>7. t = [f EXCEPT !.at = x, !.ver = y, !.outs = z]
  BY <1>3 DEF GlobalExact
<1>7a. /\ f.at \in [Parts -> 0 .. TotalLayers \cup {None}]
      /\ f.ver \in [Parts -> {None} \cup Versions] /\ f.tokens \in [Parts -> {None} \cup Versions]
      /\ f.outs \in [Parts -> 0 .. TotalLayers]
  BY <1>1 DEF SessionType
<1>7b. Whole \in Parts /\ \A p \in Regions : p \in Parts /\ p # Whole
  BY <1>0
<1>8. /\ x \in [Parts -> 0 .. TotalLayers \cup {None}] /\ x[Whole] = TotalLayers
       /\ \A p \in Regions : x[p] = f.at[p]
  BY <1>0, <1>7a, <1>7b
<1>9. /\ y \in [Parts -> {None} \cup Versions] /\ \A p \in Regions : y[p] = f.ver[p]
  BY <1>7a, <1>7b
<1>10. /\ z \in [Parts -> 0 .. TotalLayers] /\ z[Whole] = TotalLayers
       /\ \A p \in Regions : z[p] = f.outs[p]
  BY <1>0, <1>7a, <1>7b
<1> HIDE DEF x, y, z
<1>11. /\ t \in SessionType /\ t.input = s.input /\ t.tokens = s.tokens /\ t.at = x /\ t.ver = y
       /\ t.outs = z /\ t.inc = s.inc /\ t.kv = s.kv /\ t.output = s.output
       /\ t.active = s.active /\ t.final = s.final
  BY <1>1, <1>7, <1>8, <1>9, <1>10 DEF SessionType
<1>12. TokensOK(t, b) /\ OutOK(t, b)
  BY <1>5, <1>6, <1>11 DEF TokensOK, OutOK
<1>13. CachesOK(t, b)
  BY <1>1, <1>5, <1>6, <1>10, <1>11 DEF CachesOK
<1>14. DepthOK(t, b)
  BY <1>2, <1>4, <1>5, <1>6, <1>8, <1>9, <1>11 DEF DepthOK, Detecting
<1>15. FreshOK(t, b)
  BY <1>4, <1>5, <1>6, <1>9, <1>11 DEF FreshOK
<1>16. WholeOK(t, b)
  BY <1>0, <1>1, <1>8, <1>10, <1>11 DEF WholeOK
<1>17. QED
  BY <1>5, <1>6, <1>11, <1>12, <1>13, <1>14, <1>15, <1>16 DEF State

LEMMA RestartedIs ==
    ASSUME config \in Configs, NEW a \in Stages, NEW s \in SessionType, State(s, a),
           NEW instr, ApproxAllowed(a, instr),
           NEW r, r = Restarted(FirstFeature(s), instr.lo)
    PROVE  /\ r \in SessionType /\ r.input = s.input /\ r.tokens = s.tokens
           /\ r.inc = s.inc /\ r.kv = s.kv /\ r.output = s.output
           /\ r.active = s.active /\ r.final = s.final
           /\ \A p \in Regions : r.at[p] = a.l /\ r.outs[p] = a.l /\ r.ver[p] \in Versions
           /\ a.l = 0 => \A p \in Regions : r.ver[p] = s.tokens[p]
           /\ a.l > 0 => r = s
           /\ a.whole => r.at[Whole] = s.at[Whole] /\ r.outs[Whole] = s.outs[Whole]
<1> DEFINE f == FirstFeature(s)
<1>0. /\ TotalLayers \in Nat \ {0} /\ NumGroups \in Nat \ {0} /\ Versions = 0 .. NumGroups
      /\ None = -1 /\ Regions = 1 .. NumGroups /\ Parts = 0 .. NumGroups /\ Whole = 0
      /\ 1 \in Regions
  BY Sizes
<1>1. /\ f \in SessionType /\ f.input = s.input /\ f.tokens = s.tokens /\ f.outs = s.outs
      /\ f.inc = s.inc /\ f.kv = s.kv /\ f.output = s.output
      /\ f.active = s.active /\ f.final = s.final
      /\ f = s \/ (s.at[1] = None /\ f.ver = s.tokens /\ \A p \in Parts : f.at[p] = 0)
      /\ s.tokens \in [Parts -> Versions] /\ f.at[1] # None
  BY FirstIs DEF ApproxAllowed
<1>2. /\ instr.lo = a.l /\ a.l \in 0 .. TotalLayers /\ (a.l > 0 => ~a.reset)
      /\ a.made # None
  BY StageFields DEF ApproxAllowed, Ready
<1>3. CachesOK(s, a) /\ DepthOK(s, a) /\ WholeOK(s, a)
  BY DEF State
<1>4. r = Restarted(f, a.l)
  BY <1>2
<1> HIDE DEF f
<1>5. CASE a.l > 0
  <2>1. \A p \in Regions : s.at[p] = a.l /\ s.ver[p] \in Versions
    BY <1>2, <1>3, <1>5 DEF DepthOK
  <2>2. f = s /\ r = s
    BY <1>0, <1>1, <1>2, <1>4, <1>5, <2>1 DEF Restarted
  <2>3. \A p \in Regions : s.outs[p] = a.l
    BY <1>3 DEF CachesOK
  <2>4. QED
    BY <1>5, <2>1, <2>2, <2>3
<1>6. CASE a.l = 0 /\ ExecutorName = "vggt"
  <2>1. \A p \in Regions : s.at[p] = 0 /\ s.ver[p] = s.tokens[p]
    BY <1>2, <1>3, <1>6 DEF DepthOK
  <2>2. f = s /\ r = s
    BY <1>0, <1>1, <1>4, <1>6, <2>1 DEF Restarted
  <2>3. \A p \in Regions : s.outs[p] = a.l
    BY <1>3 DEF CachesOK
  <2>4. \A p \in Regions : s.tokens[p] \in Versions
    BY <1>0, <1>1
  <2>5. QED
    BY <1>6, <2>1, <2>2, <2>3, <2>4
<1>7. CASE a.l = 0 /\ ExecutorName # "vggt"
  <2> DEFINE x == [p \in Parts |-> IF p = Whole THEN f.at[p] ELSE 0]
             y == [p \in Parts |-> IF p = Whole THEN f.ver[p] ELSE f.tokens[p]]
             z == [p \in Parts |-> IF p = Whole \/ ExecutorName = "depther"
                                   THEN f.outs[p] ELSE 0]
  <2>1. r = [f EXCEPT !.at = x, !.ver = y, !.outs = z]
    BY <1>4, <1>7 DEF Restarted
  <2>2. \A p \in Regions : f.outs[p] = 0
    BY <1>1, <1>3, <1>7 DEF CachesOK
  <2> /\ f.at \in [Parts -> 0 .. TotalLayers \cup {None}]
      /\ f.ver \in [Parts -> {None} \cup Versions] /\ f.outs \in [Parts -> 0 .. TotalLayers]
    BY <1>1 DEF SessionType
  <2> /\ 0 \in 0 .. TotalLayers /\ Whole \in Parts /\ Whole \notin Regions
      /\ Regions \subseteq Parts
    BY <1>0
  <2>3. /\ x \in [Parts -> 0 .. TotalLayers \cup {None}] /\ x[Whole] = f.at[Whole]
        /\ \A p \in Regions : x[p] = 0
    OBVIOUS
  <2>4. /\ y \in [Parts -> {None} \cup Versions]
        /\ \A p \in Regions : y[p] = s.tokens[p] /\ y[p] \in Versions
    BY <1>1
  <2>5. /\ z \in [Parts -> 0 .. TotalLayers] /\ z[Whole] = f.outs[Whole]
        /\ \A p \in Regions : z[p] = 0
    BY <2>2
  <2> HIDE DEF x, y, z
  <2>6. /\ r \in SessionType /\ r.input = s.input /\ r.tokens = s.tokens /\ r.at = x /\ r.ver = y
        /\ r.outs = z /\ r.inc = s.inc /\ r.kv = s.kv /\ r.output = s.output
        /\ r.active = s.active /\ r.final = s.final
    BY <1>1, <2>1, <2>3, <2>4, <2>5 DEF SessionType
  <2>7. a.whole => f = s
    BY <1>1, <1>3 DEF WholeOK
  <2>8. QED
    BY <1>7, <2>3, <2>4, <2>5, <2>6, <2>7
<1>8. QED
  BY <1>2, <1>5, <1>6, <1>7

(* The pass leaves every layer it reached in the caches.                    *)
LEMMA RefreshedIs ==
    ASSUME config \in Configs, NEW a \in Stages, NEW hi \in a.l .. TotalLayers,
           NEW r \in SessionType, \A p \in Regions : r.ver[p] \in Versions,
           NEW cache \in [Regions -> [Layers -> {None} \cup Versions]],
           NEW c, c = Refreshed(cache, r, a.l, hi)
    PROVE  /\ c \in [Regions -> [Layers -> {None} \cup Versions]]
           /\ \A p \in Regions, l \in Layers :
                 c[p][l] = IF l >= a.l /\ l < hi THEN r.ver[p] ELSE cache[p][l]
<1>1. a.l \in Int /\ hi \in Int /\ Layers \subseteq Int
  BY Sizes, StageFields
<1>2. c = [p \in Regions |-> [l \in Layers |->
             IF l \in a.l .. hi - 1 THEN r.ver[p] ELSE cache[p][l]]]
  BY DEF Refreshed
<1>3. c \in [Regions -> [Layers -> {None} \cup Versions]]
  BY <1>2
<1>4. \A l \in Layers : l \in a.l .. hi - 1 <=> l >= a.l /\ l < hi
  BY <1>1
<1>5. QED
  BY <1>2, <1>3, <1>4

(* A span of layers: every region stands at its end, its caches hold the    *)
(* tokens' version.                                                         *)
LEMMA AdvanceIs ==
    ASSUME config \in Configs, NEW a \in Stages, NEW s \in SessionType, State(s, a),
           NEW instr, ApproxAllowed(a, instr),
           NEW r, r = Restarted(FirstFeature(s), instr.lo),
           NEW t, t = Advance(r, instr.lo, instr.hi)
    PROVE  /\ t \in SessionType /\ t.input = s.input /\ t.tokens = s.tokens
           /\ t.output = s.output /\ t.active = s.active /\ t.final = s.final
           /\ \A p \in Regions : /\ t.at[p] = instr.hi /\ t.outs[p] = instr.hi
                                 /\ t.ver[p] = r.ver[p] /\ t.ver[p] \in Versions
           /\ a.l = 0 => \A p \in Regions : t.ver[p] = s.tokens[p]
           /\ a.l > 0 => \A p \in Regions : t.ver[p] = s.ver[p]
           /\ \A p \in Regions, l \in Layers :
                 /\ t.inc[p][l] = IF l >= a.l /\ l < instr.hi THEN t.ver[p] ELSE s.inc[p][l]
                 /\ t.kv[p][l] = IF l >= a.l /\ l < instr.hi THEN t.ver[p] ELSE s.kv[p][l]
           /\ a.whole => t.at[Whole] = s.at[Whole] /\ t.outs[Whole] = s.outs[Whole]
<1> DEFINE hi == instr.hi
<1>0. /\ TotalLayers \in Nat \ {0} /\ NumGroups \in Nat \ {0}
      /\ None = -1 /\ Regions = 1 .. NumGroups /\ Parts = 0 .. NumGroups /\ Whole = 0
      /\ Whole \in Parts /\ Whole \notin Regions /\ Regions \subseteq Parts
  BY Sizes
<1>1. /\ r \in SessionType /\ r.input = s.input /\ r.tokens = s.tokens
      /\ r.inc = s.inc /\ r.kv = s.kv /\ r.output = s.output
      /\ r.active = s.active /\ r.final = s.final
      /\ \A p \in Regions : r.at[p] = a.l /\ r.outs[p] = a.l /\ r.ver[p] \in Versions
      /\ a.l = 0 => \A p \in Regions : r.ver[p] = s.tokens[p]
      /\ a.l > 0 => r = s
      /\ a.whole => r.at[Whole] = s.at[Whole] /\ r.outs[Whole] = s.outs[Whole]
  BY RestartedIs
<1>2. instr.lo = a.l /\ hi \in a.l .. TotalLayers /\ a.l \in 0 .. TotalLayers
  BY StageFields DEF ApproxAllowed
<1>3. /\ r.at \in [Parts -> 0 .. TotalLayers \cup {None}] /\ r.outs \in [Parts -> 0 .. TotalLayers]
      /\ r.inc \in [Regions -> [Layers -> {None} \cup Versions]]
      /\ r.kv \in [Regions -> [Layers -> {None} \cup Versions]]
  BY <1>1 DEF SessionType
<1> DEFINE x == [p \in Parts |-> IF p = Whole THEN r.at[p] ELSE r.at[p] + (hi - a.l)]
           z == [p \in Parts |-> CASE p = Whole -> r.outs[p]
                                   [] p # Whole /\ ExecutorName \in {"detector", "m2f"}
                                        -> r.outs[p] + (hi - a.l)
                                   [] OTHER -> Max({r.outs[p], hi})]
           inc == Refreshed(r.inc, r, a.l, hi)
           kv == Refreshed(r.kv, r, a.l, hi)
<1>4. t = [r EXCEPT !.at = x, !.outs = z, !.inc = inc, !.kv = kv]
  BY <1>2 DEF Advance
<1>5. /\ x \in [Parts -> 0 .. TotalLayers \cup {None}] /\ x[Whole] = r.at[Whole]
      /\ \A p \in Regions : x[p] = hi
  <2>1. x[Whole] = r.at[Whole]
    BY <1>0
  <2>2. \A p \in Regions : x[p] = r.at[p] + (hi - a.l)
    BY <1>0
  <2>3. ASSUME NEW p \in Regions PROVE x[p] = hi
    <3>1. x[p] = r.at[p] + (hi - a.l) /\ r.at[p] = a.l
      BY <1>1, <2>2
    <3>2. hi \in Int /\ a.l \in Int
      BY <1>0, <1>2
    <3> HIDE DEF x, hi
    <3>3. QED
      BY <3>1, <3>2
  <2>4. \A p \in Parts : p = Whole \/ p \in Regions
    BY <1>0
  <2>5. /\ r.at[Whole] \in 0 .. TotalLayers \cup {None} /\ hi \in 0 .. TotalLayers \cup {None}
        /\ DOMAIN x = Parts /\ x = [p \in Parts |-> x[p]]
    BY <1>0, <1>2, <1>3
  <2> HIDE DEF x
  <2>6. \A p \in Parts : x[p] \in 0 .. TotalLayers \cup {None}
    BY <2>1, <2>3, <2>4, <2>5
  <2>7. QED
    BY <2>1, <2>3, <2>5, <2>6
<1>6. /\ z \in [Parts -> 0 .. TotalLayers] /\ z[Whole] = r.outs[Whole]
      /\ \A p \in Regions : z[p] = hi
  <2>1. z[Whole] = r.outs[Whole]
    BY <1>0
  <2>2. ASSUME NEW p \in Regions PROVE z[p] = hi
    <3>1. p \in Parts /\ p # Whole /\ r.outs[p] = a.l
      BY <1>0, <1>1
    <3>2. z[p] = IF ExecutorName \in {"detector", "m2f"} THEN r.outs[p] + (hi - a.l)
                 ELSE Max({r.outs[p], hi})
      BY <3>1
    <3>3. Max({a.l, hi}) = hi /\ a.l + (hi - a.l) = hi
      BY <1>2, MaxPair
    <3>4. QED
      BY <3>1, <3>2, <3>3
  <2>3. \A p \in Parts : p = Whole \/ p \in Regions
    BY <1>0
  <2>4. /\ r.outs[Whole] \in 0 .. TotalLayers /\ hi \in 0 .. TotalLayers
        /\ z = [p \in Parts |-> z[p]]
    BY <1>0, <1>2, <1>3
  <2> HIDE DEF z
  <2>5. \A p \in Parts : z[p] \in 0 .. TotalLayers
    BY <2>1, <2>2, <2>3, <2>4
  <2>6. QED
    BY <2>1, <2>2, <2>4, <2>5
<1>7. /\ inc \in [Regions -> [Layers -> {None} \cup Versions]]
      /\ \A p \in Regions, l \in Layers :
            inc[p][l] = IF l >= a.l /\ l < hi THEN r.ver[p] ELSE r.inc[p][l]
      /\ kv \in [Regions -> [Layers -> {None} \cup Versions]]
      /\ \A p \in Regions, l \in Layers :
            kv[p][l] = IF l >= a.l /\ l < hi THEN r.ver[p] ELSE r.kv[p][l]
  <2> HIDE DEF hi, x, z
  <2>1. hi \in a.l .. TotalLayers /\ r \in SessionType /\ \A p \in Regions : r.ver[p] \in Versions
    BY <1>1, <1>2
  <2>2. /\ inc \in [Regions -> [Layers -> {None} \cup Versions]]
        /\ \A p \in Regions, l \in Layers :
              inc[p][l] = IF l >= a.l /\ l < hi THEN r.ver[p] ELSE r.inc[p][l]
    BY <1>3, <2>1, RefreshedIs
  <2>3. /\ kv \in [Regions -> [Layers -> {None} \cup Versions]]
        /\ \A p \in Regions, l \in Layers :
              kv[p][l] = IF l >= a.l /\ l < hi THEN r.ver[p] ELSE r.kv[p][l]
    BY <1>3, <2>1, RefreshedIs
  <2>4. QED
    BY <2>2, <2>3
<1> HIDE DEF x, z, inc, kv, hi
<1>8. /\ t \in SessionType /\ t.input = r.input /\ t.tokens = r.tokens /\ t.ver = r.ver
      /\ t.at = x /\ t.outs = z /\ t.inc = inc /\ t.kv = kv
      /\ t.output = r.output /\ t.active = r.active /\ t.final = r.final
  <2>1. r \in SessionType
    BY <1>1
  <2>2. /\ t.input = r.input /\ t.tokens = r.tokens /\ t.ver = r.ver
        /\ t.at = x /\ t.outs = z /\ t.inc = inc /\ t.kv = kv
        /\ t.output = r.output /\ t.active = r.active /\ t.final = r.final
    BY <2>1, <1>4 DEF SessionType
  <2>3. /\ x \in [Parts -> 0 .. TotalLayers \cup {None}] /\ z \in [Parts -> 0 .. TotalLayers]
        /\ inc \in [Regions -> [Layers -> {None} \cup Versions]]
        /\ kv \in [Regions -> [Layers -> {None} \cup Versions]]
    BY <1>5, <1>6, <1>7
  <2>4. [r EXCEPT !.at = x, !.outs = z] \in SessionType
    BY <2>1, <2>3 DEF SessionType
  <2>5. t = [[r EXCEPT !.at = x, !.outs = z] EXCEPT !.inc = inc, !.kv = kv]
    BY <2>1, <1>4 DEF SessionType
  <2>6. t \in SessionType
    <3> DEFINE half == [r EXCEPT !.at = x, !.outs = z]
    <3>1. half \in SessionType /\ t = [half EXCEPT !.inc = inc, !.kv = kv]
      BY <2>4, <2>5
    <3> HIDE DEF half
    <3>2. QED
      BY <3>1, <2>3 DEF SessionType
  <2>7. QED
    BY <2>2, <2>6
<1>9. QED
  BY <1>1, <1>5, <1>6, <1>7, <1>8 DEF hi

(* The global source on the way of a pass.                                  *)
LEMMA GlobalInPassIs ==
    ASSUME config \in Configs, NEW u \in SessionType, \A p \in Parts : u.tokens[p] \in Versions,
           NEW lo, NEW hi \in 0 .. TotalLayers, NEW t, t = GlobalInPass(u, lo, hi)
    PROVE  /\ t \in SessionType /\ t.input = u.input /\ t.tokens = u.tokens
           /\ t.inc = u.inc /\ t.kv = u.kv
           /\ t.output = u.output /\ t.active = u.active /\ t.final = u.final
           /\ \A p \in Regions : t.at[p] = u.at[p] /\ t.ver[p] = u.ver[p] /\ t.outs[p] = u.outs[p]
           /\ GlobalMode = "approx" => t.at[Whole] = hi /\ t.outs[Whole] = hi
           /\ GlobalMode \notin {"approx", "final_correct"} => t = u
<1>0. /\ TotalLayers \in Nat \ {0} /\ 0 \in 0 .. TotalLayers
      /\ Whole \in Parts /\ Whole \notin Regions /\ Regions \subseteq Parts
  BY Sizes
<1>1. /\ u.at \in [Parts -> 0 .. TotalLayers \cup {None}] /\ u.outs \in [Parts -> 0 .. TotalLayers]
      /\ u.ver \in [Parts -> {None} \cup Versions]
  BY DEF SessionType
<1> DEFINE x(d) == [u.at EXCEPT ![Whole] = d]
           y == [u.ver EXCEPT ![Whole] = u.tokens[Whole]]
           z(d) == [u.outs EXCEPT ![Whole] = d]
<1>2. ASSUME NEW d \in 0 .. TotalLayers, NEW e \in 0 .. TotalLayers,
             t = [u EXCEPT !.at = x(d), !.ver = y, !.outs = z(e)]
      PROVE  /\ t \in SessionType /\ t.input = u.input /\ t.tokens = u.tokens
             /\ t.inc = u.inc /\ t.kv = u.kv
             /\ t.output = u.output /\ t.active = u.active /\ t.final = u.final
             /\ \A p \in Regions : /\ t.at[p] = u.at[p] /\ t.ver[p] = u.ver[p]
                                   /\ t.outs[p] = u.outs[p]
             /\ t.at[Whole] = d /\ t.outs[Whole] = e
  <2>1. /\ x(d) \in [Parts -> 0 .. TotalLayers \cup {None}] /\ x(d)[Whole] = d
        /\ \A p \in Regions : x(d)[p] = u.at[p]
    BY <1>0, <1>1
  <2>2. y \in [Parts -> {None} \cup Versions] /\ \A p \in Regions : y[p] = u.ver[p]
    BY <1>0, <1>1
  <2>3. /\ z(e) \in [Parts -> 0 .. TotalLayers] /\ z(e)[Whole] = e
        /\ \A p \in Regions : z(e)[p] = u.outs[p]
    BY <1>0, <1>1
  <2> DEFINE xd == x(d)
             ze == z(e)
             yy == y
  <2>4. t = [u EXCEPT !.at = xd, !.ver = yy, !.outs = ze]
    BY <1>2
  <2> HIDE DEF xd, yy, ze
  <2>5. /\ xd \in [Parts -> 0 .. TotalLayers \cup {None}] /\ xd[Whole] = d
        /\ \A p \in Regions : xd[p] = u.at[p]
    BY <2>1 DEF xd
  <2>6. yy \in [Parts -> {None} \cup Versions] /\ \A p \in Regions : yy[p] = u.ver[p]
    BY <2>2 DEF yy
  <2>7. /\ ze \in [Parts -> 0 .. TotalLayers] /\ ze[Whole] = e
        /\ \A p \in Regions : ze[p] = u.outs[p]
    BY <2>3 DEF ze
  <2> HIDE DEF x, y, z
  <2>8. /\ t \in SessionType /\ t.input = u.input /\ t.tokens = u.tokens /\ t.at = xd /\ t.ver = yy
        /\ t.outs = ze /\ t.inc = u.inc /\ t.kv = u.kv
        /\ t.output = u.output /\ t.active = u.active /\ t.final = u.final
    BY <2>4, <2>5, <2>6, <2>7 DEF SessionType
  <2>9. QED
    BY <2>5, <2>6, <2>7, <2>8
<1>3. CASE GlobalMode = "approx"
  <2>1. t = GlobalExact(u, hi)
    BY <1>3 DEF GlobalInPass
  <2>2. t = [u EXCEPT !.at = x(hi), !.ver = y, !.outs = z(hi)]
    BY <2>1 DEF GlobalExact
  <2>3. QED
    BY <1>2, <1>3, <2>2
<1>4. CASE GlobalMode = "final_correct"
  <2> DEFINE e == IF lo = 0 THEN 0 ELSE u.outs[Whole]
  <2>1. e \in 0 .. TotalLayers
    BY <1>0, <1>1
  <2>2. t = [u EXCEPT !.at = x(0), !.ver = y, !.outs = z(e)]
    BY <1>4 DEF GlobalInPass
  <2> HIDE DEF e
  <2>3. QED
    BY <1>0, <1>2, <1>4, <2>1, <2>2
<1>5. CASE GlobalMode \notin {"approx", "final_correct"}
  BY <1>5 DEF GlobalInPass
<1>6. QED
  BY <1>3, <1>4, <1>5

(* APPROX_FORWARD: the layers behind the ones cached, for the groups        *)
(* corrected so far.                                                        *)
LEMMA ApproxKeeps ==
    ASSUME config \in Configs, NEW a \in Stages, NEW s \in SessionType, State(s, a),
           NEW instr, ApproxAllowed(a, instr), ~instr.global, NEW t, t = ApproxForward(s, instr),
           NEW b, b = Approximating(a, instr.hi)
    PROVE  t \in SessionType /\ State(t, b) /\ t.active = s.active /\ t.final = s.final
<1> DEFINE hi == instr.hi
           r == Restarted(FirstFeature(s), instr.lo)
           u == Advance(r, instr.lo, hi)
           w == IF ~Detecting \/ GlobalMode = "final_correct" THEN FALSE
                ELSE IF GlobalMode = "approx" THEN hi = TotalLayers ELSE a.whole
<1>0. /\ TotalLayers \in Nat \ {0} /\ NumGroups \in Nat \ {0} /\ Versions = 0 .. NumGroups
      /\ None = -1 /\ Regions = 1 .. NumGroups /\ Parts = 0 .. NumGroups /\ Whole = 0
      /\ Whole \in Parts /\ Whole \notin Regions /\ Regions \subseteq Parts /\ 1 \in Regions
      /\ Layers = 0 .. TotalLayers - 1
      /\ Detecting <=> GlobalMode # "none"
  BY Sizes
<1>1. /\ Prepared(s) /\ s.tokens \in [Parts -> Versions]
      /\ \A p \in Parts : p <= a.in => s.tokens[p] >= p
  BY FirstIs DEF ApproxAllowed
<1>2. /\ instr.lo = a.l /\ hi \in a.l .. TotalLayers /\ a.l \in 0 .. TotalLayers
      /\ a.fresh \in Versions /\ (a.fresh <= a.in \/ a.fresh = 0) /\ a.made # None
      /\ a.in \in Versions
  BY <1>0, StageFields DEF ApproxAllowed, Ready
<1>3. t = GlobalInPass(u, instr.lo, hi)
  BY <1>1 DEF ApproxForward
<1>4. /\ u \in SessionType /\ u.input = s.input /\ u.tokens = s.tokens
      /\ u.output = s.output /\ u.active = s.active /\ u.final = s.final
      /\ \A p \in Regions : u.at[p] = hi /\ u.outs[p] = hi /\ u.ver[p] \in Versions
      /\ a.l = 0 => \A p \in Regions : u.ver[p] = s.tokens[p]
      /\ a.l > 0 => \A p \in Regions : u.ver[p] = s.ver[p]
      /\ \A p \in Regions, l \in Layers :
            /\ u.inc[p][l] = IF l >= a.l /\ l < hi THEN u.ver[p] ELSE s.inc[p][l]
            /\ u.kv[p][l] = IF l >= a.l /\ l < hi THEN u.ver[p] ELSE s.kv[p][l]
      /\ a.whole => u.at[Whole] = s.at[Whole] /\ u.outs[Whole] = s.outs[Whole]
  BY AdvanceIs
<1>5. /\ b.in = a.in /\ b.made = a.made /\ b.l = hi /\ b.reset = FALSE /\ b.whole = w
      /\ b.out = a.out /\ b.fresh = a.fresh
  BY DEF Stages, StageType, Approximating
<1>6. /\ s.input = a.in /\ TokensOK(s, a) /\ CachesOK(s, a) /\ FreshOK(s, a)
      /\ WholeOK(s, a) /\ OutOK(s, a)
  BY DEF State
<1> HIDE DEF hi, r, u, w
<1>7. /\ t \in SessionType /\ t.input = u.input /\ t.tokens = u.tokens
      /\ t.inc = u.inc /\ t.kv = u.kv
      /\ t.output = u.output /\ t.active = u.active /\ t.final = u.final
      /\ \A p \in Regions : t.at[p] = u.at[p] /\ t.ver[p] = u.ver[p] /\ t.outs[p] = u.outs[p]
      /\ GlobalMode = "approx" => t.at[Whole] = hi /\ t.outs[Whole] = hi
      /\ GlobalMode \notin {"approx", "final_correct"} => t = u
  <2>1. \A p \in Parts : u.tokens[p] \in Versions
    BY <1>1, <1>4
  <2>2. hi \in 0 .. TotalLayers
    BY <1>0, <1>2
  <2>3. QED
    BY <1>3, <1>4, <2>1, <2>2, GlobalInPassIs
<1>8. TokensOK(t, b) /\ OutOK(t, b)
  BY <1>4, <1>5, <1>6, <1>7 DEF TokensOK, OutOK
<1>9. CachesOK(t, b)
  <2> SUFFICES ASSUME NEW p \in Regions
               PROVE  /\ t.outs[p] = hi
                      /\ \A l \in Layers : IF l < hi
                                           THEN t.kv[p][l] \in Versions /\ t.inc[p][l] \in Versions
                                           ELSE t.kv[p][l] = None
    BY <1>5 DEF CachesOK
  <2>1. t.outs[p] = hi /\ u.ver[p] \in Versions
    BY <1>4, <1>7
  <2>2. ASSUME NEW l \in Layers
        PROVE  IF l < hi THEN t.kv[p][l] \in Versions /\ t.inc[p][l] \in Versions
                         ELSE t.kv[p][l] = None
    <3>1. /\ t.inc[p][l] = IF l >= a.l /\ l < hi THEN u.ver[p] ELSE s.inc[p][l]
          /\ t.kv[p][l] = IF l >= a.l /\ l < hi THEN u.ver[p] ELSE s.kv[p][l]
      BY <1>4, <1>7
    <3>2. IF l < a.l THEN s.kv[p][l] \in Versions /\ s.inc[p][l] \in Versions
                     ELSE s.kv[p][l] = None
      BY <1>6 DEF CachesOK
    <3>3. QED
      BY <1>0, <1>2, <2>1, <3>1, <3>2
  <2>3. QED
    BY <2>1, <2>2
<1>10. DepthOK(t, b)
  <2>1. \A p \in Regions : t.at[p] = hi /\ t.ver[p] \in Versions
    BY <1>4, <1>7
  <2>2. hi = 0 => \A p \in Regions : t.ver[p] = t.tokens[p]
    BY <1>2, <1>4, <1>7
  <2>3. QED
    BY <1>5, <2>1, <2>2 DEF DepthOK
<1>11. FreshOK(t, b)
  <2> SUFFICES ASSUME hi > 0, ExecutorName \notin Forgetful, NEW p \in Regions, p <= a.fresh
               PROVE  /\ t.ver[p] >= p
                      /\ \A l \in Layers : l < hi => t.kv[p][l] >= p /\ t.inc[p][l] >= p
    BY <1>5 DEF FreshOK
  <2>1. s.tokens[p] >= p
    BY <1>0, <1>1, <1>2
  <2>2. t.ver[p] >= p /\ u.ver[p] >= p
    <3>1. CASE a.l = 0
      BY <1>4, <1>7, <2>1, <3>1
    <3>2. CASE a.l > 0
      <4>1. s.ver[p] >= p
        BY <1>6, <3>2 DEF FreshOK
      <4>2. QED
        BY <1>4, <1>7, <3>2, <4>1
    <3>3. QED
      BY <1>2, <3>1, <3>2
  <2>3. ASSUME NEW l \in Layers, l < hi PROVE t.kv[p][l] >= p /\ t.inc[p][l] >= p
    <3>1. /\ t.inc[p][l] = IF l >= a.l /\ l < hi THEN u.ver[p] ELSE s.inc[p][l]
          /\ t.kv[p][l] = IF l >= a.l /\ l < hi THEN u.ver[p] ELSE s.kv[p][l]
      BY <1>4, <1>7
    <3>2. l < a.l => s.kv[p][l] >= p /\ s.inc[p][l] >= p
      <4>1. l < a.l => a.l > 0
        BY <1>0, <1>2
      <4>2. QED
        BY <1>6, <4>1 DEF FreshOK
    <3>3. QED
      BY <1>0, <1>2, <2>2, <2>3, <3>1, <3>2
  <2>4. QED
    BY <2>2, <2>3
<1>12. WholeOK(t, b)
  <2> SUFFICES ASSUME w
               PROVE  t.at[Whole] = TotalLayers /\ t.outs[Whole] = TotalLayers /\ t.at[1] # None
    BY <1>5 DEF WholeOK
  <2>1. t.at[1] # None
    BY <1>0, <1>2, <1>4, <1>7
  <2>2. CASE GlobalMode = "approx"
    BY <1>0, <1>7, <2>1, <2>2 DEF w
  <2>3. CASE GlobalMode # "approx"
    <3>1. a.whole /\ GlobalMode # "final_correct"
      BY <2>3 DEF w
    <3>2. t = u
      BY <1>7, <2>3, <3>1
    <3>3. QED
      BY <1>4, <1>6, <2>1, <3>1, <3>2 DEF WholeOK
  <2>4. QED
    BY <2>2, <2>3
<1>13. QED
  BY <1>4, <1>5, <1>6, <1>7, <1>8, <1>9, <1>10, <1>11, <1>12 DEF State

-----------------------------------------------------------------------------
(* A correction recomputes the group loaded last, with others or alone.     *)
LEMMA TargetsAre ==
    ASSUME config \in Configs, NEW a \in Stages, NEW s \in SessionType, State(s, a),
           NEW instr, CorrectAllowed(a, instr)
    PROVE  a.in \in Targets(s, instr.gid) /\ Targets(s, instr.gid) \subseteq Regions
<1>1. s.input = a.in /\ a.in \in Regions
  BY DEF State, CorrectAllowed
<1>2. instr.gid = a.in \/ (instr.gid = 0 /\ ExecutorName \in Denses \cup {"vggt"})
  BY DEF CorrectAllowed
<1>3. 0 \notin Regions
  BY Sizes
<1>4. CASE ExecutorName = "vggt"
  BY <1>1, <1>4 DEF Targets
<1>5. CASE ExecutorName \in Denses /\ instr.gid \notin Regions
  BY <1>1, <1>5 DEF Targets, Denses
<1>6. CASE ~(ExecutorName = "vggt" \/ (ExecutorName \in Denses /\ instr.gid \notin Regions))
  <2>1. instr.gid = a.in
    BY <1>2, <1>3, <1>6
  <2>2. Targets(s, instr.gid) = {instr.gid} \cap Regions
    BY <1>6 DEF Targets, Denses
  <2>3. QED
    BY <1>1, <2>1, <2>2
<1>7. QED
  BY <1>4, <1>5, <1>6

(* A feature put together from increments is as old as the oldest of them.  *)
LEMMA ReplayedIs ==
    ASSUME config \in Configs, NEW s, NEW p, NEW hi \in 0 .. TotalLayers,
           s.tokens[p] \in Versions, \A l \in Layers : l < hi => s.inc[p][l] \in Versions,
           NEW low \in Int, s.tokens[p] >= low, \A l \in Layers : l < hi => s.inc[p][l] >= low
    PROVE  Replayed(s, p, hi) \in Versions /\ Replayed(s, p, hi) >= low
<1> DEFINE S == {s.tokens[p]} \cup {s.inc[p][l] : l \in 0 .. hi - 1}
<1>0. TotalLayers \in Nat /\ Layers = 0 .. TotalLayers - 1 /\ Versions = 0 .. NumGroups
      /\ NumGroups \in Nat
  BY Sizes
<1>1. \A l \in 0 .. hi - 1 : l \in Layers /\ l < hi
  BY <1>0
<1>2. \A x \in S : x \in Versions /\ x >= low
  BY <1>1
<1>3. S \in SUBSET Nat /\ s.tokens[p] \in S
  BY <1>0, <1>2
<1>4. Replayed(s, p, hi) = Min(S)
  BY DEF Replayed
<1> HIDE DEF S
<1>5. PICK k \in S : \A m \in S : k <= m
  BY <1>3, LeastMember
<1>6. Min(S) \in S
  BY <1>5 DEF Min
<1>7. QED
  BY <1>2, <1>4, <1>6

(* The feature a correction leaves.                                         *)
CorrectedAt(s, rebuilt, hi) ==
    [p \in Parts |-> IF p \in rebuilt THEN (IF ExecutorName = "vggt" THEN s.at[p] ELSE 0) + hi
                     ELSE s.at[p]]
CorrectedVer(s, targets, rebuilt, hi) ==
    [p \in Parts |-> CASE p \in targets -> s.tokens[p]
                       [] p \in rebuilt \ targets -> Replayed(s, p, hi)
                       [] OTHER -> s.ver[p]]
CorrectedOuts(s, rebuilt, hi) ==
    [p \in Parts |-> IF p \notin rebuilt THEN s.outs[p]
                     ELSE IF ExecutorName = "detector" \/ (ExecutorName = "m2f" /\ ~Merges(s, hi))
                          THEN hi ELSE Max({s.outs[p], hi})]

LEMMA CorrectIs ==
    ASSUME config \in Configs, NEW a \in Stages, NEW s \in SessionType, State(s, a),
           NEW instr, CorrectAllowed(a, instr), NEW t, t = CorrectForward(s, instr),
           NEW targets, targets = Targets(s, instr.gid),
           NEW rebuilt, rebuilt = Rebuilt(s, targets, a.l)
    PROVE  t = [s EXCEPT !.at = CorrectedAt(s, rebuilt, a.l),
                         !.ver = CorrectedVer(s, targets, rebuilt, a.l),
                         !.outs = CorrectedOuts(s, rebuilt, a.l),
                         !.inc = Persist(s, targets, a.l),
                         !.kv = Scattered(s.kv, s, targets, a.l)]
<1>1. instr.hi = a.l /\ Ready(a)
  BY DEF CorrectAllowed
<1>2. Prepared(s) /\ targets # {}
  BY <1>1, FirstIs, TargetsAre
<1>3. QED
  BY <1>1, <1>2 DEF CorrectForward, CorrectedAt, CorrectedVer, CorrectedOuts

CacheType == [Regions -> [Layers -> {None} \cup Versions]]

(* What a correction writes to a cache.                                     *)
LEMMA ScatteredIs ==
    ASSUME NEW s, NEW targets \in SUBSET Regions, NEW hi,
           \A p \in Regions : s.tokens[p] \in Versions, NEW cache \in CacheType
    PROVE  /\ Scattered(cache, s, targets, hi) \in CacheType
           /\ \A p \in Regions, l \in Layers :
                 Scattered(cache, s, targets, hi)[p][l] =
                    IF p \in targets /\ l < hi THEN s.tokens[p] ELSE cache[p][l]
  BY DEF Scattered, CacheType

(* What is in a cache after a correction is there from the correction or    *)
(* from before.                                                             *)
LEMMA PersistIs ==
    ASSUME NEW s, NEW targets \in SUBSET Regions, NEW hi,
           \A p \in Regions : s.tokens[p] \in Versions, s.inc \in CacheType
    PROVE  /\ Persist(s, targets, hi) \in CacheType
           /\ \A p \in Regions, l \in Layers :
                 Persist(s, targets, hi)[p][l] =
                    IF p \in targets /\ l < hi /\ ExecutorName \notin Forgetful
                    THEN s.tokens[p] ELSE s.inc[p][l]
<1>1. CASE ExecutorName \in Forgetful
  BY <1>1 DEF Persist
<1>2. CASE ExecutorName \notin Forgetful
  <2> DEFINE inc == s.inc
  <2>1. Persist(s, targets, hi) = Scattered(inc, s, targets, hi) /\ inc \in CacheType
    BY <1>2 DEF Persist
  <2> HIDE DEF inc
  <2>2. /\ Scattered(inc, s, targets, hi) \in CacheType
        /\ \A p \in Regions, l \in Layers :
              Scattered(inc, s, targets, hi)[p][l] =
                 IF p \in targets /\ l < hi THEN s.tokens[p] ELSE inc[p][l]
    BY <2>1, ScatteredIs
  <2>3. QED
    BY <1>2, <2>1, <2>2 DEF inc
<1>3. QED
  BY <1>1, <1>2

(* CORRECT_FORWARD brings the features and the caches to the groups         *)
(* loaded.                                                                  *)
LEMMA CorrectKeeps ==
    ASSUME config \in Configs, NEW a \in Stages, NEW s \in SessionType, State(s, a),
           NEW instr, CorrectAllowed(a, instr), NEW t, t = CorrectForward(s, instr),
           NEW b, b = Correcting(a)
    PROVE  t \in SessionType /\ State(t, b) /\ t.active = s.active /\ t.final = s.final
<1> DEFINE hi == a.l
           targets == Targets(s, instr.gid)
           rebuilt == Rebuilt(s, targets, hi)
           at == CorrectedAt(s, rebuilt, hi)
           ver == CorrectedVer(s, targets, rebuilt, hi)
           outs == CorrectedOuts(s, rebuilt, hi)
           inc == Persist(s, targets, hi)
           kv == Scattered(s.kv, s, targets, hi)
<1>0. /\ TotalLayers \in Nat \ {0} /\ NumGroups \in Nat \ {0} /\ Versions = 0 .. NumGroups
      /\ None = -1 /\ Regions = 1 .. NumGroups /\ Parts = 0 .. NumGroups /\ Whole = 0
      /\ Whole \in Parts /\ Whole \notin Regions /\ Regions \subseteq Parts /\ 1 \in Regions
      /\ Layers = 0 .. TotalLayers - 1
  BY Sizes
<1>1. /\ s.tokens \in [Parts -> Versions]
      /\ \A p \in Parts : p <= a.in => s.tokens[p] >= p
  BY FirstIs DEF CorrectAllowed
<1>2. /\ hi \in 0 .. TotalLayers /\ hi > 0 /\ a.in \in Regions /\ a.made = a.in
      /\ a.fresh >= a.in - 1 /\ a.fresh \in Versions /\ a.reset
  BY <1>0, StageFields DEF CorrectAllowed, Ready
<1>3. a.in \in targets /\ targets \subseteq Regions
  BY TargetsAre
<1>4. t = [s EXCEPT !.at = at, !.ver = ver, !.outs = outs, !.inc = inc, !.kv = kv]
  BY CorrectIs
<1>5. /\ s.input = a.in /\ TokensOK(s, a) /\ CachesOK(s, a) /\ DepthOK(s, a) /\ FreshOK(s, a)
      /\ WholeOK(s, a) /\ OutOK(s, a)
  BY DEF State
<1>6. /\ b.in = a.in /\ b.made = a.made /\ b.l = hi /\ b.reset = FALSE /\ b.whole = a.whole
      /\ b.out = a.out /\ b.fresh = a.in
  BY DEF Stages, StageType, Correcting
<1>7. /\ s.at \in [Parts -> 0 .. TotalLayers \cup {None}] /\ s.outs \in [Parts -> 0 .. TotalLayers]
      /\ s.ver \in [Parts -> {None} \cup Versions]
      /\ s.kv \in [Regions -> [Layers -> {None} \cup Versions]]
  BY DEF SessionType
<1>8. /\ \A p \in Regions : s.tokens[p] \in Versions
      /\ \A p \in Regions : s.outs[p] = hi /\ s.ver[p] \in Versions
      /\ \A p \in Regions, l \in Layers :
            IF l < hi THEN s.kv[p][l] \in Versions /\ s.inc[p][l] \in Versions
                      ELSE s.kv[p][l] = None
  BY <1>0, <1>1, <1>2, <1>5 DEF CachesOK, DepthOK
<1>9. /\ rebuilt \in {targets, Regions}
      /\ rebuilt = targets => ExecutorName \in {"detector", "m2f"} \/ rebuilt = Regions
  <2>1. Windows => ExecutorName = "detector"
    BY Sizes DEF Detecting
  <2>2. QED
    BY <2>1 DEF Rebuilt, Merges
<1> HIDE DEF hi, targets, rebuilt
<1>10. /\ at \in [Parts -> 0 .. TotalLayers \cup {None}] /\ at[Whole] = s.at[Whole]
       /\ \A p \in Regions : at[p] = hi
  <2>1. ASSUME NEW p \in Regions PROVE at[p] = hi
    <3>1. at[p] = IF p \in rebuilt THEN (IF ExecutorName = "vggt" THEN s.at[p] ELSE 0) + hi
                  ELSE s.at[p]
      BY <1>0 DEF CorrectedAt
    <3>2. ExecutorName = "vggt" => s.at[p] = 0
      BY <1>0, <1>2, <1>5 DEF DepthOK
    <3>3. p \notin rebuilt => s.at[p] = hi
      BY <1>2, <1>5, <1>9 DEF DepthOK, Restless, hi
    <3>4. QED
      BY <1>2, <3>1, <3>2, <3>3
  <2>2. at[Whole] = s.at[Whole]
    BY <1>0, <1>3, <1>9 DEF CorrectedAt
  <2>3. at = [p \in Parts |-> at[p]] /\ \A p \in Parts : p = Whole \/ p \in Regions
    BY <1>0 DEF CorrectedAt
  <2> HIDE DEF at
  <2>4. \A p \in Parts : at[p] \in 0 .. TotalLayers \cup {None}
    BY <1>0, <1>2, <1>7, <2>1, <2>2, <2>3
  <2>5. QED
    BY <2>1, <2>2, <2>3, <2>4
<1>11. /\ outs \in [Parts -> 0 .. TotalLayers] /\ outs[Whole] = s.outs[Whole]
       /\ \A p \in Regions : outs[p] = hi
  <2>1. ASSUME NEW p \in Regions PROVE outs[p] = hi
    <3>1. outs[p] \in {s.outs[p], hi, Max({s.outs[p], hi})}
      BY <1>0 DEF CorrectedOuts
    <3>2. s.outs[p] = hi /\ hi \in Int
      BY <1>0, <1>2, <1>8
    <3>3. Max({hi, hi}) = hi
      BY <3>2, MaxPair
    <3>4. QED
      BY <3>1, <3>2, <3>3
  <2>2. outs[Whole] = s.outs[Whole]
    BY <1>0, <1>3, <1>9 DEF CorrectedOuts
  <2>3. outs = [p \in Parts |-> outs[p]] /\ \A p \in Parts : p = Whole \/ p \in Regions
    BY <1>0 DEF CorrectedOuts
  <2> HIDE DEF outs
  <2>4. \A p \in Parts : outs[p] \in 0 .. TotalLayers
    BY <1>0, <1>2, <1>7, <2>1, <2>2, <2>3
  <2>5. QED
    BY <2>1, <2>2, <2>3, <2>4
<1>12. /\ inc \in CacheType
       /\ \A p \in Regions, l \in Layers :
             inc[p][l] = IF p \in targets /\ l < hi /\ ExecutorName \notin Forgetful
                         THEN s.tokens[p] ELSE s.inc[p][l]
  <2>1. targets \in SUBSET Regions /\ s.inc \in CacheType
    BY <1>3 DEF SessionType, CacheType
  <2>2. QED
    BY <1>8, <2>1, PersistIs
<1>13. /\ kv \in CacheType
       /\ \A p \in Regions, l \in Layers :
             kv[p][l] = IF p \in targets /\ l < hi THEN s.tokens[p] ELSE s.kv[p][l]
  <2>1. targets \in SUBSET Regions /\ s.kv \in CacheType
    BY <1>3, <1>7 DEF CacheType
  <2>2. QED
    BY <1>8, <2>1, ScatteredIs
<1>14. ASSUME NEW p \in Regions, NEW low \in Int, s.tokens[p] >= low,
              p \notin targets => s.ver[p] >= low /\ \A l \in Layers : l < hi => s.inc[p][l] >= low
       PROVE  ver[p] \in Versions /\ ver[p] >= low
  <2>1. p \in Parts
    BY <1>0
  <2>2. CASE p \in targets
    BY <1>8, <1>14, <2>1, <2>2 DEF CorrectedVer
  <2>3. CASE p \in rebuilt \ targets
    <3>1. ver[p] = Replayed(s, p, hi)
      BY <2>1, <2>3 DEF CorrectedVer
    <3>2. /\ s.tokens[p] \in Versions /\ s.tokens[p] >= low
          /\ \A l \in Layers : l < hi => s.inc[p][l] \in Versions /\ s.inc[p][l] >= low
      BY <1>8, <1>14, <2>3
    <3>3. QED
      BY <1>2, <3>1, <3>2, ReplayedIs
  <2>4. CASE p \notin targets /\ p \notin rebuilt
    <3>1. ver[p] = s.ver[p]
      BY <2>1, <2>4 DEF CorrectedVer
    <3>2. QED
      BY <1>8, <1>14, <2>4, <3>1
  <2>5. QED
    BY <2>2, <2>3, <2>4
<1>15. \A p \in Regions : ver[p] \in Versions
  <2> SUFFICES ASSUME NEW p \in Regions PROVE ver[p] \in Versions
    OBVIOUS
  <2>1. /\ 0 \in Int /\ s.tokens[p] >= 0 /\ s.ver[p] >= 0
        /\ \A l \in Layers : l < hi => s.inc[p][l] >= 0
    BY <1>0, <1>8
  <2>2. QED
    BY <1>14, <2>1
<1>16. ver \in [Parts -> {None} \cup Versions]
  <2>1. ver[Whole] = s.ver[Whole]
    BY <1>0, <1>3, <1>9 DEF CorrectedVer
  <2>2. ver = [p \in Parts |-> ver[p]] /\ \A p \in Parts : p = Whole \/ p \in Regions
    BY <1>0 DEF CorrectedVer
  <2> HIDE DEF ver
  <2>3. QED
    BY <1>0, <1>7, <1>15, <2>1, <2>2
<1> HIDE DEF at, ver, outs, inc, kv
<1>17. /\ t \in SessionType /\ t.input = s.input /\ t.tokens = s.tokens /\ t.at = at
       /\ t.ver = ver /\ t.outs = outs /\ t.inc = inc /\ t.kv = kv
       /\ t.output = s.output /\ t.active = s.active /\ t.final = s.final
  BY <1>4, <1>10, <1>11, <1>12, <1>13, <1>16 DEF SessionType, CacheType
<1>18. TokensOK(t, b) /\ OutOK(t, b)
  BY <1>5, <1>6, <1>17 DEF TokensOK, OutOK
<1>19. CachesOK(t, b)
  <2> SUFFICES ASSUME NEW p \in Regions, NEW l \in Layers
               PROVE  /\ outs[p] = hi
                      /\ IF l < hi THEN kv[p][l] \in Versions /\ inc[p][l] \in Versions
                                   ELSE kv[p][l] = None
    BY <1>6, <1>11, <1>17 DEF CachesOK
  <2>1. /\ inc[p][l] \in {s.tokens[p], s.inc[p][l]}
        /\ kv[p][l] \in {s.tokens[p], s.kv[p][l]}
        /\ ~(l < hi) => kv[p][l] = s.kv[p][l]
    BY <1>12, <1>13
  <2>2. QED
    BY <1>8, <1>11, <2>1
<1>20. DepthOK(t, b)
  BY <1>2, <1>6, <1>10, <1>15, <1>17 DEF DepthOK
<1>21. WholeOK(t, b)
  BY <1>0, <1>2, <1>5, <1>6, <1>10, <1>11, <1>17 DEF WholeOK
<1>22. FreshOK(t, b)
  <2> SUFFICES ASSUME ExecutorName \notin Forgetful, NEW p \in Regions, p <= a.in
               PROVE  /\ ver[p] >= p
                      /\ \A l \in Layers : l < hi => kv[p][l] >= p /\ inc[p][l] >= p
    BY <1>6, <1>17 DEF FreshOK
  <2>1. p \in Int /\ s.tokens[p] >= p
    BY <1>0, <1>1
  <2>2. p \notin targets =>
           s.ver[p] >= p /\ \A l \in Layers : l < hi => s.kv[p][l] >= p /\ s.inc[p][l] >= p
    <3>1. p \notin targets => p <= a.fresh
      BY <1>0, <1>2, <1>3
    <3>2. QED
      BY <1>2, <1>5, <3>1 DEF FreshOK, hi
  <2>3. ver[p] >= p
    BY <1>14, <2>1, <2>2
  <2>4. ASSUME NEW l \in Layers, l < hi PROVE kv[p][l] >= p /\ inc[p][l] >= p
    BY <1>12, <1>13, <2>1, <2>2, <2>4
  <2>5. QED
    BY <2>3, <2>4
<1>23. QED
  BY <1>5, <1>6, <1>17, <1>18, <1>19, <1>20, <1>21, <1>22 DEF State

-----------------------------------------------------------------------------
(* The heads.                                                               *)
Produced(s, o) == [s EXCEPT !.output = o]

(* An output made at a stage is of the groups loaded.                       *)
LEMMA OutputKeeps ==
    ASSUME config \in Configs, NEW a \in Stages, NEW s \in SessionType, State(s, a),
           NEW o \in OutcomeType, NEW d, o.depth = d, o.ver = a.in, Good(o),
           NEW t, t = Produced(s, o), NEW b, b = Producing(a, d)
    PROVE  t \in SessionType /\ State(t, b) /\ t.active = s.active /\ t.final = s.final
<1>1. /\ t \in SessionType /\ t.input = s.input /\ t.tokens = s.tokens /\ t.at = s.at
      /\ t.ver = s.ver /\ t.outs = s.outs /\ t.inc = s.inc /\ t.kv = s.kv /\ t.output = o
      /\ t.active = s.active /\ t.final = s.final
  BY DEF SessionType, Produced
<1>2. /\ b.in = a.in /\ b.made = a.made /\ b.l = a.l /\ b.reset = a.reset /\ b.whole = a.whole
      /\ b.out = d /\ b.fresh = a.fresh
  BY DEF Stages, StageType, Producing
<1>3. TokensOK(t, b) /\ CachesOK(t, b) /\ DepthOK(t, b) /\ WholeOK(t, b) /\ OutOK(t, b)
  BY <1>1, <1>2 DEF State, TokensOK, CachesOK, DepthOK, WholeOK, OutOK
<1>4. FreshOK(t, b)
  BY <1>1, <1>2 DEF State, FreshOK
<1>5. QED
  BY <1>1, <1>2, <1>3, <1>4 DEF State

(* What a head finds: every feature at the depth of the caches, nothing     *)
(* stale.                                                                   *)
LEMMA HeadFinds ==
    ASSUME config \in Configs, NEW a \in Stages, NEW s \in SessionType, State(s, a), HeadAllowed(a)
    PROVE  /\ \A p \in Used : s.at[p] = a.l /\ (ExecutorName \in MultiLevel => s.outs[p] = a.l)
           /\ a.l \in 1 .. TotalLayers /\ (ExecutorName \in MultiLevel => a.l = TotalLayers)
           /\ 1 \in Used
           /\ ExecutorName \notin Forgetful => Stale(s) = {}
<1>0. /\ TotalLayers \in Nat \ {0} /\ NumGroups \in Nat \ {0} /\ Versions = 0 .. NumGroups
      /\ None = -1 /\ Regions = 1 .. NumGroups /\ Parts = {Whole} \cup Regions
      /\ 1 \in Regions
  BY Sizes DEF Parts
<1>1. /\ a.l > 0 /\ ~a.reset /\ a.fresh = a.in /\ a.l \in 0 .. TotalLayers
      /\ ExecutorName \in MultiLevel => a.l = TotalLayers
      /\ Detecting => a.whole
      /\ a.in \in Versions
  BY <1>0, StageFields DEF HeadAllowed, Ready
<1>2. /\ s.input = a.in /\ CachesOK(s, a) /\ DepthOK(s, a) /\ FreshOK(s, a) /\ WholeOK(s, a)
  BY DEF State
<1>3. \A p \in Regions : s.at[p] = a.l /\ s.outs[p] = a.l
  BY <1>1, <1>2 DEF DepthOK, CachesOK
<1>4. \A p \in Used : s.at[p] = a.l /\ (ExecutorName \in MultiLevel => s.outs[p] = a.l)
  <2>1. CASE ExecutorName = "detector"
    <3>1. s.at[Whole] = TotalLayers /\ s.outs[Whole] = TotalLayers /\ a.l = TotalLayers
      BY <1>1, <1>2, <2>1 DEF WholeOK, Detecting, MultiLevel
    <3>2. Used = {Whole} \cup Regions
      BY <1>0, <2>1 DEF Used
    <3>3. QED
      BY <1>3, <3>1, <3>2
  <2>2. CASE ExecutorName # "detector"
    <3>1. Used = Regions
      BY <2>2 DEF Used
    <3>2. QED
      BY <1>3, <3>1
  <2>3. QED
    BY <2>1, <2>2
<1>5. ASSUME ExecutorName \notin Forgetful PROVE Stale(s) = {}
  <2> SUFFICES ASSUME NEW g \in Regions \cap 1 .. s.input
               PROVE  ~(s.ver[g] < g) /\ \A l \in Cached(s, g) : ~(s.kv[g][l] < g)
    BY DEF Stale
  <2>1. g \in Regions /\ g <= a.fresh
    BY <1>0, <1>1, <1>2
  <2>2. s.ver[g] >= g /\ \A l \in Layers : l < a.l => s.kv[g][l] >= g
    BY <1>1, <1>2, <1>5, <2>1 DEF FreshOK
  <2>3. s.ver[g] \in Versions
    BY <1>1, <1>2, <2>1 DEF DepthOK
  <2>4. ASSUME NEW l \in Cached(s, g) PROVE s.kv[g][l] >= g /\ s.kv[g][l] \in Versions
    <3>1. l \in Layers /\ s.kv[g][l] # None
      BY DEF Cached
    <3>2. l < a.l /\ s.kv[g][l] \in Versions
      BY <1>2, <2>1, <3>1 DEF CachesOK
    <3>3. QED
      BY <2>2, <3>1, <3>2
  <2>5. QED
    BY <1>0, <2>1, <2>2, <2>3, <2>4
<1>6. QED
  BY <1>0, <1>1, <1>4, <1>5 DEF Used

(* HEAD_INFERENCE after the last layer.                                     *)
LEMMA HeadKeeps ==
    ASSUME config \in Configs, NEW a \in Stages, NEW s \in SessionType, State(s, a), HeadAllowed(a),
           NEW t, t = HeadInference(s), NEW b, b = Producing(a, a.l)
    PROVE  t \in SessionType /\ State(t, b) /\ t.active = s.active /\ t.final = s.final
<1> DEFINE o == Outcome(IF \A p \in Used : s.at[p] = s.at[1] THEN s.at[1] ELSE None,
                        s.input, Stale(s))
<1>1. /\ \A p \in Used : s.at[p] = a.l /\ (ExecutorName \in MultiLevel => s.outs[p] = a.l)
      /\ a.l \in 1 .. TotalLayers /\ 1 \in Used
      /\ ExecutorName \notin Forgetful => Stale(s) = {}
  BY HeadFinds
<1>2. s.at[1] = a.l /\ \A p \in Used : s.at[p] = s.at[1]
  BY <1>1
<1>3. o = [depth |-> a.l, ver |-> s.input, stale |-> Stale(s)]
  BY <1>2 DEF Outcome
<1>4. /\ s.input = a.in /\ a.in \in Int /\ a.l \in Int /\ a.l # None /\ Regions \subseteq Int
  BY <1>1, Sizes, StageFields DEF State
<1>5. Stale(s) \subseteq Int
  BY <1>4 DEF Stale
<1> HIDE DEF o
<1>6. o \in OutcomeType /\ o.depth = a.l /\ o.ver = a.in /\ o.stale = Stale(s)
  BY <1>3, <1>4, <1>5 DEF OutcomeType
<1>7. Good(o)
  BY <1>1, <1>4, <1>6 DEF Good
<1>8. t = Produced(s, o)
  BY DEF HeadInference, Produced, o
<1>9. QED
  BY <1>6, <1>7, <1>8, OutputKeeps

LEMMA FullKeeps ==
    ASSUME config \in Configs, NEW a \in Stages, NEW s \in SessionType, State(s, a),
           NEW t, t = FullInference(s), NEW b, b = Producing(a, TotalLayers)
    PROVE  t \in SessionType /\ State(t, b) /\ t.active = s.active /\ t.final = s.final
<1> DEFINE o == Outcome(TotalLayers, s.input, {})
<1>1. s.input = a.in /\ a.in \in Int /\ TotalLayers \in Int /\ TotalLayers # None
  BY Sizes, StageFields DEF State
<1>2. o \in OutcomeType /\ o.depth = TotalLayers /\ o.ver = a.in /\ o.stale = {}
  BY <1>1 DEF OutcomeType, Outcome
<1> HIDE DEF o
<1>3. Good(o)
  BY <1>1, <1>2 DEF Good
<1>4. t = Produced(s, o)
  BY DEF FullInference, Produced, o
<1>5. QED
  BY <1>2, <1>3, <1>4, OutputKeeps

-----------------------------------------------------------------------------
(* Results and images that leave.                                           *)
Alike(a, b) ==
    /\ b.in = a.in /\ b.made = a.made /\ b.l = a.l /\ b.reset = a.reset /\ b.whole = a.whole
    /\ b.out = a.out /\ b.fresh = a.fresh

FinalType == [Images -> OutcomeType]
Finalized(s, final, active) == [s EXCEPT !.final = final, !.active = active]

LEMMA FinalKeeps ==
    ASSUME NEW s \in SessionType, NEW final \in FinalType,
           NEW active, active \subseteq Images,
           NEW t, t = Finalized(s, final, active), NEW a, NEW b, Alike(a, b)
    PROVE  t \in SessionType /\ (State(s, a) => State(t, b)) /\ t.final = final /\ t.active = active
<1>1. /\ t \in SessionType /\ t.input = s.input /\ t.tokens = s.tokens /\ t.at = s.at
      /\ t.ver = s.ver /\ t.outs = s.outs /\ t.inc = s.inc /\ t.kv = s.kv /\ t.output = s.output
      /\ t.active = active /\ t.final = final
  BY DEF SessionType, FinalType, Finalized
<1> SUFFICES ASSUME State(s, a) PROVE State(t, b)
  BY <1>1
<1>2. TokensOK(t, b) /\ CachesOK(t, b) /\ DepthOK(t, b) /\ WholeOK(t, b) /\ OutOK(t, b)
  BY <1>1 DEF State, TokensOK, CachesOK, DepthOK, WholeOK, OutOK, Alike
<1>3. FreshOK(t, b)
  BY <1>1 DEF State, FreshOK, Alike
<1>4. QED
  BY <1>1, <1>2, <1>3 DEF State, Alike

(* What SEND_RESPONSE collects is complete for every image.                 *)
LEMMA CollectIs ==
    ASSUME config \in Configs, NEW a \in Stages, NEW s \in SessionType, Match(s, a),
           a.out = TotalLayers
    PROVE  /\ Collect(s) \in [Images -> OutcomeType]
           /\ \A i \in Images : Complete(Collect(s)[i], a.in)
<1>1. /\ s.final \in [Images -> OutcomeType] /\ s.output \in OutcomeType /\ s.active \subseteq Images
  BY DEF SessionType
<1>2. TotalLayers # None
  BY Sizes
<1>3. Collect(s) \in [Images -> OutcomeType]
  BY <1>1 DEF Collect
<1>4. ASSUME NEW i \in Images PROVE Complete(Collect(s)[i], a.in)
  <2>1. CASE i \in s.active
    <3>1. s.output.depth = TotalLayers /\ s.output.ver = a.in /\ Good(s.output)
      BY <1>2, <2>1 DEF Match, State, OutOK
    <3>2. s.output # NoOutcome
      BY <1>2, <3>1 DEF NoOutcome, Outcome
    <3>3. Collect(s)[i] = s.output
      BY <2>1, <3>2 DEF Collect
    <3>4. QED
      BY <3>1, <3>3 DEF Complete
  <2>2. CASE i \notin s.active
    <3>1. Collect(s)[i] = s.final[i]
      BY <1>1, <2>2 DEF Collect
    <3>2. Good(s.final[i])
      BY <2>2 DEF Match
    <3>3. ~EarlyExit => a.ans
      BY <2>2 DEF Match
    <3>4. a.ans => Complete(s.final[i], a.in)
      BY DEF Match
    <3>5. QED
      BY <3>1, <3>2, <3>3, <3>4 DEF Complete
  <2>3. QED
    BY <2>1, <2>2
<1>5. QED
  BY <1>3, <1>4

(* An answer leaves the session at its stage.                               *)
LEMMA AnswerKeeps ==
    ASSUME config \in Configs, NEW a \in Stages, NEW s \in SessionType, Match(s, a),
           a.out = TotalLayers, NEW active \in {{}, s.active},
           NEW t, t = Finalized(s, Collect(s), active),
           NEW b, b = Delivering(a)
    PROVE  t \in SessionType /\ Match(t, b)
<1>1. /\ Collect(s) \in [Images -> OutcomeType]
      /\ \A i \in Images : Complete(Collect(s)[i], a.in)
  BY CollectIs
<1>2. Alike(a, b) /\ b.in = a.in /\ b.ans = TRUE
  BY DEF Stages, StageType, Alike, Delivering
<1>3. active \subseteq Images
  BY DEF SessionType
<1> DEFINE final == Collect(s)
           u == Finalized(s, final, active)
<1>4. u \in SessionType /\ (State(s, a) => State(u, b)) /\ u.final = final /\ u.active = active
  <2>1. final \in FinalType /\ Alike(a, b)
    BY <1>1, <1>2 DEF FinalType
  <2> HIDE DEF final, u
  <2>2. u = Finalized(s, final, active)
    BY DEF u
  <2>3. QED
    BY <1>3, <2>1, <2>2, FinalKeeps
<1>5. t = u
  BY DEF u
<1> HIDE DEF u
<1>6. QED
  BY <1>1, <1>2, <1>4, <1>5 DEF Match, Complete

(* The images that meet the criterion leave with the output as it is.       *)
LEMMA DecideKeeps ==
    ASSUME config \in Configs, NEW a \in Stages, NEW s \in SessionType, Match(s, a),
           s.active # {}, EarlyExit, a.out # None, NEW exits \in SUBSET s.active,
           NEW t, t = DecideExit(s, exits)
    PROVE  t \in SessionType /\ Match(t, a)
<1> DEFINE final == [i \in Images |-> IF i \in exits THEN s.output ELSE s.final[i]]
           left == s.active \ exits
           u == [s EXCEPT !.final = final, !.active = left]
<1>1. /\ s.final \in [Images -> OutcomeType] /\ s.output \in OutcomeType /\ s.active \subseteq Images
  BY DEF SessionType
<1>2. Good(s.output) /\ State(s, a)
  BY DEF Match, State, OutOK
<1>3. final \in FinalType /\ left \subseteq Images
  BY <1>1 DEF FinalType
<1>4. /\ \A i \in Images \ left : Good(final[i])
      /\ a.ans => \A i \in Images : Complete(final[i], a.in)
  BY <1>1, <1>2 DEF Match, Complete
<1>5. t = IF left # {} THEN u
          ELSE [DropFeature(u) EXCEPT !.tokens = [p \in Parts |-> None]]
  BY DEF DecideExit
<1> HIDE DEF final, left, u
<1>6. u \in SessionType /\ State(u, a) /\ u.final = final /\ u.active = left
  <2>1. u = Finalized(s, final, left)
    BY DEF u, Finalized
  <2>2. Alike(a, a)
    BY DEF Alike
  <2>3. QED
    BY <1>2, <1>3, <2>1, <2>2, FinalKeeps
<1>7. CASE left # {}
  BY <1>4, <1>5, <1>6, <1>7 DEF Match
<1>8. CASE left = {}
  <2> DEFINE x == [p \in Parts |-> None]
  <2>1. t = [[u EXCEPT !.at = x] EXCEPT !.tokens = x]
    BY <1>5, <1>8 DEF DropFeature
  <2>2. /\ x \in [Parts -> 0 .. TotalLayers \cup {None}]
        /\ x \in [Parts -> {None} \cup Versions]
    OBVIOUS
  <2> HIDE DEF x
  <2>3. t \in SessionType /\ t.active = {} /\ t.final = final
    BY <1>6, <1>8, <2>1, <2>2 DEF SessionType
  <2>4. QED
    BY <1>4, <1>8, <2>3 DEF Match
<1>9. QED
  BY <1>7, <1>8

-----------------------------------------------------------------------------
(* What an instruction makes of a session matches what it makes of the      *)
(* stage.                                                                   *)
LEMMA MatchMoves ==
    ASSUME NEW s, NEW a, Match(s, a), NEW t, NEW b,
           t.active = s.active, t.final = s.final, s.active # {} => State(t, b),
           b.ans = a.ans, b.ans => b.in = a.in
    PROVE  Match(t, b)
  BY DEF Match

(* No instruction but the answer makes a stage answered.                    *)
LEMMA AfterKeeps ==
    ASSUME config \in Configs, NEW a \in Stages, NEW instr, instr.op \in Skippable, NEW v,
           Allowed(a, instr, v), NEW b, b = After(a, instr, v)
    PROVE  b.ans = a.ans /\ (b.ans => b.in = a.in)
<1>0. a \in StageType
  BY DEF Stages
<1>1. CASE instr.op = "LOAD_INPUT"
  <2>1. b = [a EXCEPT !.in = v, !.fresh = IF a.l = 0 THEN v ELSE a.fresh, !.out = None]
    BY <1>1 DEF After, Loading, Preparing, Covering, Approximating, Correcting,
                      Producing, Delivering
  <2>2. ~a.ans
    BY <1>1 DEF Allowed, LoadAllowed
  <2>3. QED
    BY <1>0, <2>1, <2>2 DEF StageType
<1>2. CASE instr.op = "PREPARE_TOKENS"
  <2>1. b = [a EXCEPT !.made = a.in, !.reset = TRUE]
    BY <1>2 DEF After, Loading, Preparing, Covering, Approximating, Correcting,
                      Producing, Delivering
  <2>2. QED
    BY <1>0, <2>1 DEF StageType
<1>3. CASE instr.op = "APPROX_FORWARD" /\ instr.global
  <2>1. b = [a EXCEPT !.whole = TRUE]
    BY <1>3 DEF After, Loading, Preparing, Covering, Approximating, Correcting,
                      Producing, Delivering
  <2>2. QED
    BY <1>0, <2>1 DEF StageType
<1>4. CASE instr.op = "APPROX_FORWARD" /\ ~instr.global
  <2>1. PICK w : b = [a EXCEPT !.l = instr.hi, !.reset = FALSE, !.whole = w]
    BY <1>4 DEF After, Loading, Preparing, Covering, Approximating, Correcting,
                      Producing, Delivering
  <2>2. QED
    BY <1>0, <2>1 DEF StageType
<1>5. CASE instr.op = "CORRECT_FORWARD"
  <2>1. b = [a EXCEPT !.fresh = a.in, !.reset = FALSE]
    BY <1>5 DEF After, Loading, Preparing, Covering, Approximating, Correcting,
                      Producing, Delivering
  <2>2. QED
    BY <1>0, <2>1 DEF StageType
<1>6. CASE instr.op \in {"HEAD_INFERENCE", "FULL_INFERENCE"}
  <2>1. PICK d : b = [a EXCEPT !.out = d]
    BY <1>6 DEF After, Loading, Preparing, Covering, Approximating, Correcting,
                      Producing, Delivering
  <2>2. QED
    BY <1>0, <2>1 DEF StageType
<1>7. CASE instr.op = "DECIDE_EXIT"
  BY <1>7 DEF After, Loading, Preparing, Covering, Approximating, Correcting,
                      Producing, Delivering
<1>8. QED
  BY <1>1, <1>2, <1>3, <1>4, <1>5, <1>6, <1>7 DEF Skippable

(* An instruction no image is left for changes nothing.                     *)
LEMMA SkippedIs ==
    ASSUME NEW s, NEW instr, NEW v, NEW exits, Skipped(s, instr)
    PROVE  Dispatch(s, instr, v, exits) = s
<1>1. instr.op \notin {"EXIT_ALL", "SEND_RESPONSE"}
  BY DEF Skipped, Skippable
<1>2. QED
  BY <1>1 DEF Dispatch

(* The handler of each instruction.                                         *)
LEMMA DispatchIs ==
    ASSUME NEW s \in SessionType, NEW instr, NEW v, NEW exits, ~Skipped(s, instr),
           NEW t, t = Dispatch(s, instr, v, exits)
    PROVE  /\ instr.op = "LOAD_INPUT" => t = Loaded(s, v)
           /\ instr.op = "PREPARE_TOKENS" => t = PrepareTokens(s)
           /\ instr.op = "APPROX_FORWARD" => t = ApproxForward(s, instr)
           /\ instr.op = "CORRECT_FORWARD" => t = CorrectForward(s, instr)
           /\ instr.op = "HEAD_INFERENCE" => t = HeadInference(s)
           /\ instr.op = "FULL_INFERENCE" => t = FullInference(s)
           /\ instr.op = "DECIDE_EXIT" => t = DecideExit(s, exits)
           /\ instr.op = "EXIT_ALL" => t = Finalized(s, Collect(s), {})
           /\ instr.op = "SEND_RESPONSE" => t = Finalized(s, Collect(s), s.active)
           /\ instr.op = "FREE_SESSION" => t = s
<1>1. /\ instr.op = "PREPARE_TOKENS" => t = PrepareTokens(s)
      /\ instr.op = "APPROX_FORWARD" => t = ApproxForward(s, instr)
      /\ instr.op = "CORRECT_FORWARD" => t = CorrectForward(s, instr)
      /\ instr.op = "HEAD_INFERENCE" => t = HeadInference(s)
      /\ instr.op = "FULL_INFERENCE" => t = FullInference(s)
      /\ instr.op = "DECIDE_EXIT" => t = DecideExit(s, exits)
      /\ instr.op = "FREE_SESSION" => t = s
  BY DEF Dispatch
<1>2. instr.op = "LOAD_INPUT" => t = Loaded(s, v)
  BY DEF Dispatch, Loaded
<1>3. instr.op = "EXIT_ALL" => t = Finalized(s, Collect(s), {})
  BY DEF Dispatch, Finalized
<1>4. instr.op = "SEND_RESPONSE" => t = Finalized(s, Collect(s), s.active)
  <2> SUFFICES ASSUME instr.op = "SEND_RESPONSE" PROVE t = Finalized(s, Collect(s), s.active)
    OBVIOUS
  <2>1. t = [s EXCEPT !.final = Collect(s)]
    BY DEF Dispatch
  <2>2. QED
    BY <2>1 DEF SessionType, Finalized
<1>5. QED
  BY <1>1, <1>2, <1>3, <1>4

(* Any allowed instruction takes a session that matches a stage to one      *)
(* that matches the next.                                                   *)
LEMMA MatchKeeps ==
    ASSUME config \in Configs, NEW a \in Stages, NEW s \in SessionType, Match(s, a),
           NEW instr, NEW v, Allowed(a, instr, v), NEW exits \in Exits(s, instr),
           NEW t, t = Dispatch(s, instr, v, exits), NEW b, b = After(a, instr, v)
    PROVE  t \in SessionType /\ Match(t, b)
<1>1. CASE Skipped(s, instr)
  <2>1. t = s /\ s.active = {} /\ instr.op \in Skippable
    BY <1>1, SkippedIs DEF Skipped
  <2>2. b.ans = a.ans /\ (b.ans => b.in = a.in)
    BY <2>1, AfterKeeps
  <2>3. QED
    BY <2>1, <2>2, MatchMoves
<1>2. CASE ~Skipped(s, instr) /\ instr.op \in Skippable \ {"DECIDE_EXIT"}
  <2>1. State(s, a)
    BY <1>2 DEF Match, Skipped
  <2>2. b.ans = a.ans /\ (b.ans => b.in = a.in)
    BY <1>2, AfterKeeps
  <2>3. t \in SessionType /\ State(t, b) /\ t.active = s.active /\ t.final = s.final
    <3>1. CASE instr.op = "LOAD_INPUT"
      <4>1. t = Loaded(s, v)
        BY <1>2, <3>1, DispatchIs
      <4>2. b = Loading(a, v)
        BY <3>1 DEF After
      <4>3. LoadAllowed(a, v)
        BY <3>1 DEF Allowed
      <4>4. t \in SessionType /\ State(t, b) /\ t.active = s.active /\ t.final = s.final
        BY <2>1, <4>1, <4>2, <4>3, LoadKeeps
      <4>5. QED
        BY <4>4
    <3>2. CASE instr.op = "PREPARE_TOKENS"
      <4>1. t = PrepareTokens(s) /\ b = Preparing(a)
            /\ PrepareAllowed(a)
        BY <1>2, <3>2, DispatchIs DEF After, Allowed
      <4>2. QED
        BY <2>1, <4>1, PrepareKeeps
    <3>3. CASE instr.op = "APPROX_FORWARD" /\ instr.global
      <4>1. t = ApproxForward(s, instr) /\ b = Covering(a)
            /\ GlobalAllowed(a, instr)
        BY <1>2, <3>3, DispatchIs DEF After, Allowed
      <4>2. QED
        BY <2>1, <3>3, <4>1, GlobalKeeps
    <3>4. CASE instr.op = "APPROX_FORWARD" /\ ~instr.global
      <4>1. t = ApproxForward(s, instr) /\ ApproxAllowed(a, instr)
        BY <1>2, <3>4, DispatchIs DEF Allowed
      <4>2. b = Approximating(a, instr.hi)
        BY <3>4 DEF After
      <4>3. QED
        BY <2>1, <3>4, <4>1, <4>2, ApproxKeeps
    <3>5. CASE instr.op = "CORRECT_FORWARD"
      <4>1. t = CorrectForward(s, instr) /\ b = Correcting(a)
            /\ CorrectAllowed(a, instr)
        BY <1>2, <3>5, DispatchIs DEF After, Allowed
      <4>2. QED
        BY <2>1, <4>1, CorrectKeeps
    <3>6. CASE instr.op = "HEAD_INFERENCE"
      <4>1. t = HeadInference(s) /\ b = Producing(a, a.l) /\ HeadAllowed(a)
        BY <1>2, <3>6, DispatchIs DEF After, Allowed
      <4>2. QED
        BY <2>1, <4>1, HeadKeeps
    <3>7. CASE instr.op = "FULL_INFERENCE"
      <4>1. t = FullInference(s) /\ b = Producing(a, TotalLayers)
        BY <1>2, <3>7, DispatchIs DEF After
      <4>2. QED
        BY <2>1, <4>1, FullKeeps
    <3>8. QED
      BY <1>2, <3>1, <3>2, <3>3, <3>4, <3>5, <3>6, <3>7 DEF Skippable
  <2>4. QED
    BY <2>2, <2>3, MatchMoves
<1>3. CASE ~Skipped(s, instr) /\ instr.op = "DECIDE_EXIT"
  <2>1. t = DecideExit(s, exits) /\ b = a
    BY <1>3, DispatchIs DEF After
  <2>2. EarlyExit /\ a.out # None
    BY <1>3 DEF Allowed
  <2>3. s.active # {}
    BY <1>3 DEF Skipped, Skippable
  <2>4. exits \in SUBSET s.active
    BY DEF Exits
  <2>5. QED
    BY <2>1, <2>2, <2>3, <2>4, DecideKeeps
<1>4. CASE instr.op \in {"EXIT_ALL", "SEND_RESPONSE"}
  <2>1. ~Skipped(s, instr)
    BY <1>4 DEF Skipped, Skippable
  <2>2. PICK active \in {{}, s.active} : t = Finalized(s, Collect(s), active)
    BY <1>4, <2>1, DispatchIs
  <2>3. b = Delivering(a) /\ a.out = TotalLayers
    BY <1>4 DEF After, Allowed
  <2>4. QED
    BY <2>2, <2>3, AnswerKeeps
<1>5. CASE instr.op = "FREE_SESSION"
  <2>1. ~Skipped(s, instr)
    BY <1>5 DEF Skipped, Skippable
  <2>2. t = s /\ b = a
    BY <1>5, <2>1, DispatchIs DEF After
  <2>3. QED
    BY <2>2
<1>6. instr.op \in Skippable \cup {"EXIT_ALL", "SEND_RESPONSE", "FREE_SESSION"}
  BY DEF Allowed, Skippable
<1>7. QED
  BY <1>1, <1>2, <1>3, <1>4, <1>5, <1>6

(* A new session stands at the start.                                       *)
LEMMA StartMatches ==
    ASSUME config \in Configs
    PROVE  Start \in Stages /\ NewSession \in SessionType /\ Match(NewSession, Start)
<1>0. /\ TotalLayers \in Nat \ {0} /\ NumGroups \in Nat \ {0} /\ Versions = 0 .. NumGroups
      /\ None = -1 /\ Regions = 1 .. NumGroups /\ Parts = 0 .. NumGroups
      /\ Layers = 0 .. TotalLayers - 1 /\ Images # {}
  BY Sizes
<1>1. Start \in Stages
  BY <1>0 DEF Start, Stages, StageType
<1>2. NewSession \in SessionType
  BY <1>0 DEF NewSession, SessionType, NoOutcome, Outcome, OutcomeType
<1>3. State(NewSession, Start)
  BY <1>0 DEF NewSession, Start, State, TokensOK, CachesOK, DepthOK, FreshOK, WholeOK, OutOK
<1>4. QED
  BY <1>1, <1>2, <1>3 DEF Match, NewSession, Start

(* An instruction that may come does not raise and finds what it relies on: *)
(* every feature at the depth it goes on from and no layer done twice, a    *)
(* correction with tokens to recompute, every level a head reads.           *)
Finds(s, instr) ==
    /\ ~Raises(s, instr)
    /\ instr.op = "APPROX_FORWARD" /\ ~instr.global =>
          /\ Prepared(s)
          /\ instr.lo > 0 \/ ExecutorName = "vggt" => \A p \in Regions : s.at[p] = instr.lo
          /\ \A p \in Regions : Cached(s, p) \cap (instr.lo .. instr.hi - 1) = {}
    /\ instr.op = "CORRECT_FORWARD" =>
          /\ Targets(s, instr.gid) # {}
          /\ ExecutorName = "vggt" => \A p \in Regions : s.at[p] = 0
    /\ instr.op = "HEAD_INFERENCE" =>
          (ExecutorName \in MultiLevel => \A p \in Used : s.outs[p] = TotalLayers)

(* An allowed instruction finds in the session what it reads.               *)
LEMMA MatchSound ==
    ASSUME config \in Configs, NEW a \in Stages, NEW s \in SessionType, Match(s, a),
           NEW instr, NEW v, Allowed(a, instr, v), ~Skipped(s, instr)
    PROVE  Finds(s, instr)
<1>0. /\ TotalLayers \in Nat \ {0} /\ NumGroups \in Nat \ {0} /\ Versions = 0 .. NumGroups
      /\ None = -1 /\ Regions = 1 .. NumGroups /\ Parts = 0 .. NumGroups
      /\ Layers = 0 .. TotalLayers - 1 /\ 1 \in Regions /\ 1 \in Parts
      /\ a.l \in 0 .. TotalLayers
  BY Sizes, StageFields
<1>1. CASE instr.op = "PREPARE_TOKENS"
  <2>1. s.input = a.in /\ a.in # None
    BY <1>1 DEF Match, Skipped, Skippable, State, Allowed, PrepareAllowed
  <2>2. QED
    BY <1>1, <2>1 DEF Finds, Raises
<1>2. CASE instr.op = "APPROX_FORWARD"
  <2>0. ~Raises(s, instr)
    BY <1>2 DEF Raises
  <2>1. CASE instr.global
    BY <1>2, <2>0, <2>1 DEF Finds
  <2>2. CASE ~instr.global
    <3>1. State(s, a) /\ ApproxAllowed(a, instr)
      BY <1>2, <2>2 DEF Match, Skipped, Skippable, Allowed
    <3>2. /\ TokensOK(s, a) /\ CachesOK(s, a) /\ DepthOK(s, a)
          /\ a.made # None /\ instr.lo = a.l /\ (a.l > 0 => ~a.reset)
      BY <3>1 DEF State, ApproxAllowed, Ready
    <3>3. Prepared(s)
      BY <1>0, <3>2 DEF TokensOK, Prepared
    <3>4. ASSUME instr.lo > 0 \/ ExecutorName = "vggt", NEW p \in Regions
          PROVE  s.at[p] = instr.lo
      BY <1>0, <3>2, <3>4 DEF DepthOK
    <3>5. ASSUME NEW p \in Regions PROVE Cached(s, p) \cap (instr.lo .. instr.hi - 1) = {}
      BY <1>0, <3>2 DEF CachesOK, Cached
    <3>6. QED
      BY <1>2, <2>0, <3>3, <3>4, <3>5 DEF Finds
  <2>3. QED
    BY <2>1, <2>2
<1>3. CASE instr.op = "CORRECT_FORWARD"
  <2>1. State(s, a) /\ CorrectAllowed(a, instr)
    BY <1>3 DEF Match, Skipped, Skippable, Allowed
  <2>2. /\ CachesOK(s, a) /\ DepthOK(s, a) /\ a.made # None /\ instr.hi = a.l /\ a.reset
    BY <2>1 DEF State, CorrectAllowed, Ready
  <2>3. a.in \in Targets(s, instr.gid) /\ Targets(s, instr.gid) \subseteq Regions
    BY <2>1, TargetsAre
  <2>4. ASSUME NEW p \in Regions PROVE 0 .. instr.hi - 1 \subseteq Cached(s, p)
    <3> SUFFICES ASSUME NEW l \in 0 .. a.l - 1 PROVE l \in Cached(s, p)
      BY <2>2
    <3>1. l \in Layers /\ l < a.l
      BY <1>0
    <3>2. s.kv[p][l] \in Versions
      BY <2>2, <3>1 DEF CachesOK
    <3>3. QED
      BY <1>0, <3>1, <3>2 DEF Cached
  <2>5. ~Raises(s, instr)
    BY <1>3, <2>3, <2>4 DEF Raises
  <2>6. ExecutorName = "vggt" => \A p \in Regions : s.at[p] = 0
    BY <2>2 DEF DepthOK
  <2>7. QED
    BY <1>3, <2>3, <2>5, <2>6 DEF Finds
<1>4. CASE instr.op = "HEAD_INFERENCE"
  <2>1. State(s, a) /\ HeadAllowed(a)
    BY <1>4 DEF Match, Skipped, Skippable, Allowed
  <2>2. /\ \A p \in Used : s.at[p] = a.l /\ (ExecutorName \in MultiLevel => s.outs[p] = a.l)
        /\ a.l \in 1 .. TotalLayers
        /\ ExecutorName \in MultiLevel => a.l = TotalLayers
    BY <2>1, HeadFinds
  <2>3. Regions \subseteq Used
    BY <1>0 DEF Used, Parts
  <2>4. ASSUME ExecutorName = "vggt" PROVE \A p \in Regions : ~(s.outs[p] < TotalLayers)
    <3>1. ExecutorName \in MultiLevel
      BY <2>4 DEF MultiLevel
    <3>2. QED
      BY <1>0, <2>2, <2>3, <3>1
  <2>5. \A p \in Used : s.at[p] # None
    BY <1>0, <2>2
  <2>6. ~Raises(s, instr)
    BY <1>4, <2>1, <2>4, <2>5 DEF Raises, HeadAllowed
  <2>7. ExecutorName \in MultiLevel => \A p \in Used : s.outs[p] = TotalLayers
    BY <2>2
  <2>8. QED
    BY <1>4, <2>6, <2>7 DEF Finds
<1>5. CASE instr.op = "FULL_INFERENCE"
  BY <1>5 DEF Allowed, Finds, Raises
<1>6. CASE instr.op \notin {"PREPARE_TOKENS", "APPROX_FORWARD", "CORRECT_FORWARD",
                            "HEAD_INFERENCE", "FULL_INFERENCE"}
  BY <1>6 DEF Finds, Raises
<1>7. QED
  BY <1>1, <1>2, <1>3, <1>4, <1>5, <1>6

-----------------------------------------------------------------------------
(* The course of a request: one instruction after the other, each of which  *)
(* may come when it does.                                                   *)
Instrs(s) == s \in Seq(InstrOf(config))
Passes(f, a, s, v, b) ==
    /\ f \in [0 .. Len(s) -> Stages] /\ f[0] = a /\ f[Len(s)] = b
    /\ \A i \in 1 .. Len(s) : Allowed(f[i - 1], s[i], v) /\ f[i] = After(f[i - 1], s[i], v)
Runs(a, s, v, b) == Instrs(s) /\ \E f : Passes(f, a, s, v, b)

(* Runs of instructions: nothing, one, one after the other, and the first   *)
(* of many.                                                                 *)
LEMMA RunEnds ==
    ASSUME NEW a, NEW s, NEW v, NEW b, Runs(a, s, v, b)
    PROVE  a \in Stages /\ b \in Stages /\ Instrs(s)
<1>1. PICK f : Passes(f, a, s, v, b)
  BY DEF Runs
<1> DEFINE I == InstrOf(config)
<1>2. s \in Seq(I)
  BY DEF Runs, Instrs
<1> HIDE DEF I
<1>3. 0 \in 0 .. Len(s) /\ Len(s) \in 0 .. Len(s)
  BY <1>2
<1>4. a \in Stages /\ b \in Stages
  BY <1>1, <1>3 DEF Passes
<1>5. QED
  BY <1>4 DEF Runs

LEMMA RunNil ==
    ASSUME NEW v
    PROVE  /\ \A a \in Stages : Runs(a, << >>, v, a)
           /\ \A a, b : Runs(a, << >>, v, b) => b = a
<1>1. Instrs(<< >>)
  BY DEF Instrs
<1>2. ASSUME NEW a \in Stages PROVE Runs(a, << >>, v, a)
  <2> DEFINE f == [i \in 0 .. 0 |-> a]
  <2>1. f \in [0 .. 0 -> Stages] /\ f[0] = a
    OBVIOUS
  <2> HIDE DEF f
  <2>2. Passes(f, a, << >>, v, a)
    BY <2>1 DEF Passes
  <2>3. QED
    BY <1>1, <2>2 DEF Runs
<1>3. ASSUME NEW a, NEW b, Runs(a, << >>, v, b) PROVE b = a
  <2>1. PICK f : Passes(f, a, << >>, v, b)
    BY <1>3 DEF Runs
  <2>2. QED
    BY <2>1 DEF Passes
<1>4. QED
  BY <1>2, <1>3

LEMMA RunOne ==
    ASSUME config \in Configs, NEW a \in Stages, NEW x \in InstrOf(config), NEW v,
           Allowed(a, x, v), NEW b, b = After(a, x, v)
    PROVE  Runs(a, << x >>, v, b)
<1>1. b \in Stages
  BY AfterType
<1> DEFINE f == [i \in 0 .. 1 |-> IF i = 0 THEN a ELSE b]
           s == << x >>
           I == InstrOf(config)
<1>2. f \in [0 .. 1 -> Stages] /\ f[0] = a /\ f[1] = b
  BY <1>1
<1>3. s \in Seq(I) /\ Len(s) = 1 /\ s[1] = x
  OBVIOUS
<1> HIDE DEF f, s, I
<1>4. Passes(f, a, s, v, b)
  <2> SUFFICES ASSUME NEW i \in 1 .. Len(s)
               PROVE  Allowed(f[i - 1], s[i], v) /\ f[i] = After(f[i - 1], s[i], v)
    BY <1>2, <1>3 DEF Passes
  <2>1. i = 1 /\ i - 1 = 0
    BY <1>3
  <2>2. QED
    BY <1>2, <1>3, <2>1
<1>5. Runs(a, s, v, b)
  BY <1>3, <1>4 DEF Runs, Instrs, I
<1>6. QED
  BY <1>5 DEF s

LEMMA RunConcat ==
    ASSUME NEW a, NEW b, NEW d, NEW s, NEW t, NEW v, Runs(a, s, v, b), Runs(b, t, v, d)
    PROVE  Runs(a, s \o t, v, d)
<1> DEFINE I == InstrOf(config)
           n == Len(s)
           m == Len(t)
           u == s \o t
<1>1. s \in Seq(I) /\ t \in Seq(I)
  BY DEF Runs, Instrs
<1>2. PICK f : Passes(f, a, s, v, b)
  BY DEF Runs
<1>3. PICK g : Passes(g, b, t, v, d)
  BY DEF Runs
<1> DEFINE h == [i \in 0 .. n + m |-> IF i <= n THEN f[i] ELSE g[i - n]]
<1> HIDE DEF I
<1>4. /\ u \in Seq(I) /\ Len(u) = n + m /\ n \in Nat /\ m \in Nat
      /\ \A i \in 1 .. n : u[i] = s[i]
      /\ \A i \in 1 .. m : u[n + i] = t[i]
  BY <1>1
<1>5. /\ f \in [0 .. n -> Stages] /\ f[0] = a /\ f[n] = b
      /\ \A i \in 1 .. n : Allowed(f[i - 1], s[i], v) /\ f[i] = After(f[i - 1], s[i], v)
  BY <1>2 DEF Passes
<1>6. /\ g \in [0 .. m -> Stages] /\ g[0] = b /\ g[m] = d
      /\ \A i \in 1 .. m : Allowed(g[i - 1], t[i], v) /\ g[i] = After(g[i - 1], t[i], v)
  BY <1>3 DEF Passes
<1> HIDE DEF n, m, u
<1>7. /\ \A i \in 0 .. n : h[i] = f[i]
      /\ \A i \in 0 .. m : h[n + i] = g[i]
  <2>1. ASSUME NEW i \in 0 .. n PROVE h[i] = f[i]
    BY <1>4
  <2>2. ASSUME NEW i \in 0 .. m PROVE h[n + i] = g[i]
    <3>1. n + i \in 0 .. n + m /\ (n + i) - n = i
      BY <1>4
    <3>2. CASE i = 0
      BY <1>4, <1>5, <1>6, <3>1, <3>2
    <3>3. CASE i # 0
      <4>1. ~(n + i <= n)
        BY <1>4, <3>3
      <4>2. QED
        BY <3>1, <4>1
    <3>4. QED
      BY <3>2, <3>3
  <2>3. QED
    BY <2>1, <2>2
<1>8. h \in [0 .. n + m -> Stages]
  <2>1. ASSUME NEW i \in 0 .. n + m PROVE (IF i <= n THEN f[i] ELSE g[i - n]) \in Stages
    <3>1. CASE i <= n
      <4>1. i \in 0 .. n
        BY <1>4, <3>1
      <4>2. QED
        BY <1>5, <3>1, <4>1
    <3>2. CASE ~(i <= n)
      <4>1. i - n \in 0 .. m
        BY <1>4, <3>2
      <4>2. QED
        BY <1>6, <3>2, <4>1
    <3>3. QED
      BY <3>1, <3>2
  <2>2. QED
    BY <2>1
<1> HIDE DEF h
<1>9. ASSUME NEW i \in 1 .. n + m
      PROVE  Allowed(h[i - 1], u[i], v) /\ h[i] = After(h[i - 1], u[i], v)
  <2>1. CASE i <= n
    <3>1. i \in 1 .. n /\ i \in 0 .. n /\ i - 1 \in 0 .. n
      BY <1>4, <2>1
    <3>2. h[i] = f[i] /\ h[i - 1] = f[i - 1] /\ u[i] = s[i]
      BY <1>4, <1>7, <3>1
    <3>3. QED
      BY <1>5, <3>1, <3>2
  <2>2. CASE ~(i <= n)
    <3> DEFINE j == i - n
    <3>1. j \in 1 .. m /\ j \in 0 .. m /\ j - 1 \in 0 .. m /\ n + j = i /\ n + (j - 1) = i - 1
      BY <1>4, <2>2
    <3>2. h[i] = g[j] /\ h[i - 1] = g[j - 1] /\ u[i] = t[j]
      <4> HIDE DEF j
      <4>1. QED
        BY <1>4, <1>7, <3>1
    <3>3. QED
      BY <1>6, <3>1, <3>2
  <2>3. QED
    BY <2>1, <2>2
<1>10. h[0] = a /\ h[n + m] = d
  BY <1>4, <1>5, <1>6, <1>7
<1>11. Passes(h, a, u, v, d)
  BY <1>4, <1>8, <1>9, <1>10 DEF Passes
<1>12. Runs(a, u, v, d)
  BY <1>4, <1>11 DEF Runs, Instrs, I
<1>13. QED
  BY <1>12 DEF u

LEMMA RunHead ==
    ASSUME NEW a, NEW s, NEW v, NEW b, Runs(a, s, v, b), s # << >>
    PROVE  /\ a \in Stages /\ Head(s) \in InstrOf(config)
           /\ Allowed(a, Head(s), v)
           /\ Runs(After(a, Head(s), v), Tail(s), v, b)
<1> DEFINE I == InstrOf(config)
           n == Len(s)
           t == Tail(s)
           x == Head(s)
<1>1. s \in Seq(I)
  BY DEF Runs, Instrs
<1>2. PICK f : Passes(f, a, s, v, b)
  BY DEF Runs
<1> DEFINE g == [i \in 0 .. n - 1 |-> f[i + 1]]
<1> HIDE DEF I
<1>3. /\ t \in Seq(I) /\ Len(t) = n - 1 /\ n \in Nat /\ n >= 1 /\ x = s[1] /\ x \in I
      /\ \A i \in 1 .. n - 1 : t[i] = s[i + 1]
  BY <1>1
<1>4. /\ f \in [0 .. n -> Stages] /\ f[0] = a /\ f[n] = b
      /\ \A i \in 1 .. n : Allowed(f[i - 1], s[i], v) /\ f[i] = After(f[i - 1], s[i], v)
  BY <1>2 DEF Passes
<1> HIDE DEF n, t, x
<1>5. Allowed(a, x, v) /\ f[1] = After(a, x, v) /\ a \in Stages
  <2>1. 1 \in 1 .. n /\ 0 \in 0 .. n /\ 1 - 1 = 0
    BY <1>3
  <2>2. QED
    BY <1>3, <1>4, <2>1
<1>6. /\ g \in [0 .. n - 1 -> Stages] /\ g[0] = f[1] /\ g[n - 1] = b
      /\ \A i \in 0 .. n - 1 : g[i] = f[i + 1]
  BY <1>3, <1>4
<1> HIDE DEF g
<1>7. ASSUME NEW i \in 1 .. n - 1
      PROVE  Allowed(g[i - 1], t[i], v) /\ g[i] = After(g[i - 1], t[i], v)
  <2>1. i \in 0 .. n - 1 /\ i - 1 \in 0 .. n - 1 /\ i + 1 \in 1 .. n /\ (i + 1) - 1 = i
        /\ (i - 1) + 1 = i
    BY <1>3
  <2>2. g[i] = f[i + 1] /\ g[i - 1] = f[i] /\ t[i] = s[i + 1]
    BY <1>3, <1>6, <2>1
  <2>3. Allowed(f[(i + 1) - 1], s[i + 1], v) /\ f[i + 1] = After(f[(i + 1) - 1], s[i + 1], v)
    BY <1>4, <2>1
  <2>4. QED
    BY <2>1, <2>2, <2>3
<1>8. Passes(g, f[1], t, v, b)
  BY <1>3, <1>6, <1>7 DEF Passes
<1>9. Runs(After(a, x, v), t, v, b)
  BY <1>3, <1>5, <1>8 DEF Runs, Instrs, I
<1>10. QED
  BY <1>3, <1>5, <1>9 DEF t, x, I

-----------------------------------------------------------------------------
(* What the parts of a plan do.  Between two tasks of a request the group   *)
(* k is in every feature and cache, and the first l layers are done.        *)
WholeFits(b) ==
    /\ GlobalMode = "global_first" => b.whole
    /\ GlobalMode = "approx" /\ b.l = TotalLayers => b.whole
Between(b, k, l) ==
    /\ b \in Stages /\ b.in = k /\ b.made = k /\ b.fresh = k /\ b.l = l /\ ~b.ans
    /\ l > 0 => ~b.reset
    /\ WholeFits(b)

(* The fields of the stage each instruction leads to.                       *)
LEMMA StageMoves ==
    ASSUME NEW a \in Stages
    PROVE  /\ \A v : /\ Loading(a, v).in = v /\ Loading(a, v).out = None
                     /\ Loading(a, v).fresh = IF a.l = 0 THEN v ELSE a.fresh
                     /\ Loading(a, v).made = a.made /\ Loading(a, v).l = a.l
                     /\ Loading(a, v).reset = a.reset /\ Loading(a, v).whole = a.whole
                     /\ Loading(a, v).ans = a.ans
           /\ Preparing(a).in = a.in /\ Preparing(a).made = a.in /\ Preparing(a).reset = TRUE
           /\ Preparing(a).fresh = a.fresh /\ Preparing(a).l = a.l
           /\ Preparing(a).whole = a.whole /\ Preparing(a).ans = a.ans
           /\ Covering(a).in = a.in /\ Covering(a).made = a.made /\ Covering(a).fresh = a.fresh
           /\ Covering(a).l = a.l /\ Covering(a).reset = a.reset /\ Covering(a).ans = a.ans
           /\ Covering(a).whole = TRUE
           /\ \A hi : /\ Approximating(a, hi).in = a.in /\ Approximating(a, hi).made = a.made
                      /\ Approximating(a, hi).fresh = a.fresh /\ Approximating(a, hi).l = hi
                      /\ Approximating(a, hi).reset = FALSE /\ Approximating(a, hi).ans = a.ans
                      /\ Approximating(a, hi).whole =
                            IF ~Detecting \/ GlobalMode = "final_correct" THEN FALSE
                            ELSE IF GlobalMode = "approx" THEN hi = TotalLayers ELSE a.whole
           /\ Correcting(a).in = a.in /\ Correcting(a).made = a.made /\ Correcting(a).fresh = a.in
           /\ Correcting(a).l = a.l /\ Correcting(a).reset = FALSE /\ Correcting(a).ans = a.ans
           /\ Correcting(a).whole = a.whole
           /\ \A d : /\ Producing(a, d).in = a.in /\ Producing(a, d).made = a.made
                     /\ Producing(a, d).fresh = a.fresh /\ Producing(a, d).l = a.l
                     /\ Producing(a, d).reset = a.reset /\ Producing(a, d).ans = a.ans
                     /\ Producing(a, d).whole = a.whole /\ Producing(a, d).out = d
           /\ Delivering(a).in = a.in /\ Delivering(a).ans = TRUE /\ Delivering(a).out = a.out
  BY DEF Stages, StageType, Loading, Preparing, Covering, Approximating, Correcting, Producing,
     Delivering

(* Where each instruction is allowed, and where it leads.                   *)
LEMMA Moves ==
    ASSUME NEW a, NEW v, NEW lo, NEW hi, NEW gid
    PROVE  /\ After(a, Do("LOAD_INPUT"), v) = Loading(a, v)
           /\ Allowed(a, Do("LOAD_INPUT"), v) <=> LoadAllowed(a, v)
           /\ After(a, Do("PREPARE_TOKENS"), v) = Preparing(a)
           /\ Allowed(a, Do("PREPARE_TOKENS"), v) <=> PrepareAllowed(a)
           /\ After(a, GlobalApprox, v) = Covering(a)
           /\ Allowed(a, GlobalApprox, v) <=> GlobalAllowed(a, GlobalApprox)
           /\ GlobalApprox.hi = TotalLayers
           /\ After(a, Approx(lo, hi), v) = Approximating(a, hi)
           /\ Allowed(a, Approx(lo, hi), v) <=> ApproxAllowed(a, Approx(lo, hi))
           /\ Approx(lo, hi).lo = lo /\ Approx(lo, hi).hi = hi
           /\ After(a, Correct(hi, gid), v) = Correcting(a)
           /\ Allowed(a, Correct(hi, gid), v) <=> CorrectAllowed(a, Correct(hi, gid))
           /\ Correct(hi, gid).hi = hi /\ Correct(hi, gid).gid = gid
           /\ After(a, Do("HEAD_INFERENCE"), v) = Producing(a, a.l)
           /\ Allowed(a, Do("HEAD_INFERENCE"), v) <=> HeadAllowed(a)
           /\ After(a, Do("FULL_INFERENCE"), v) = Producing(a, TotalLayers)
           /\ Allowed(a, Do("FULL_INFERENCE"), v) <=> a.in # None /\ ExecutorName # "sam3"
           /\ After(a, Do("DECIDE_EXIT"), v) = a
           /\ Allowed(a, Do("DECIDE_EXIT"), v) <=> EarlyExit /\ a.out # None
           /\ After(a, Do("EXIT_ALL"), v) = Delivering(a)
           /\ Allowed(a, Do("EXIT_ALL"), v) <=> a.out = TotalLayers
           /\ After(a, Do("SEND_RESPONSE"), v) = Delivering(a)
           /\ Allowed(a, Do("SEND_RESPONSE"), v) <=> a.out = TotalLayers
           /\ After(a, Do("FREE_SESSION"), v) = a
           /\ Allowed(a, Do("FREE_SESSION"), v) <=> a.ans
<1>1. /\ After(a, Do("LOAD_INPUT"), v) = Loading(a, v)
      /\ Allowed(a, Do("LOAD_INPUT"), v) <=> LoadAllowed(a, v)
      /\ After(a, Do("PREPARE_TOKENS"), v) = Preparing(a)
      /\ Allowed(a, Do("PREPARE_TOKENS"), v) <=> PrepareAllowed(a)
  BY DEF Do, Instr, After, Allowed
<1>2. /\ After(a, GlobalApprox, v) = Covering(a)
      /\ Allowed(a, GlobalApprox, v) <=> GlobalAllowed(a, GlobalApprox)
      /\ GlobalApprox.hi = TotalLayers
  BY DEF GlobalApprox, Instr, After, Allowed
<1>3. /\ After(a, Approx(lo, hi), v) = Approximating(a, hi)
      /\ Allowed(a, Approx(lo, hi), v) <=> ApproxAllowed(a, Approx(lo, hi))
      /\ Approx(lo, hi).lo = lo /\ Approx(lo, hi).hi = hi
  BY DEF Approx, Instr, After, Allowed
<1>4. /\ After(a, Correct(hi, gid), v) = Correcting(a)
      /\ Allowed(a, Correct(hi, gid), v) <=> CorrectAllowed(a, Correct(hi, gid))
      /\ Correct(hi, gid).hi = hi /\ Correct(hi, gid).gid = gid
  BY DEF Correct, Instr, After, Allowed
<1>5. /\ After(a, Do("HEAD_INFERENCE"), v) = Producing(a, a.l)
      /\ Allowed(a, Do("HEAD_INFERENCE"), v) <=> HeadAllowed(a)
      /\ After(a, Do("FULL_INFERENCE"), v) = Producing(a, TotalLayers)
      /\ Allowed(a, Do("FULL_INFERENCE"), v) <=> a.in # None /\ ExecutorName # "sam3"
  BY DEF Do, Instr, After, Allowed
<1>6. /\ After(a, Do("DECIDE_EXIT"), v) = a
      /\ Allowed(a, Do("DECIDE_EXIT"), v) <=> EarlyExit /\ a.out # None
      /\ After(a, Do("EXIT_ALL"), v) = Delivering(a)
      /\ Allowed(a, Do("EXIT_ALL"), v) <=> a.out = TotalLayers
  BY DEF Do, Instr, After, Allowed
<1>7. /\ After(a, Do("SEND_RESPONSE"), v) = Delivering(a)
      /\ Allowed(a, Do("SEND_RESPONSE"), v) <=> a.out = TotalLayers
      /\ After(a, Do("FREE_SESSION"), v) = a
      /\ Allowed(a, Do("FREE_SESSION"), v) <=> a.ans
  BY DEF Do, Instr, After, Allowed
<1>8. QED
  BY <1>1, <1>2, <1>3, <1>4, <1>5, <1>6, <1>7

LEMMA PairConcat ==
    ASSUME NEW S, NEW x \in S, NEW y \in S
    PROVE  << x >> \o << y >> = << x, y >>
<1> DEFINE s == << x >>
           t == << y >>
           u == << x, y >>
<1>1. s \in Seq(S) /\ t \in Seq(S) /\ Len(s) = 1 /\ Len(t) = 1 /\ s[1] = x /\ t[1] = y
  OBVIOUS
<1>2. u \in Seq(S) /\ Len(u) = 2 /\ u[1] = x /\ u[2] = y
  OBVIOUS
<1> HIDE DEF s, t, u
<1>3. s \o t \in Seq(S) /\ Len(s \o t) = 2 /\ (s \o t)[1] = s[1] /\ (s \o t)[2] = t[1]
  <2>0. s \in Seq(S) /\ t \in Seq(S)
    BY <1>1
  <2>1. /\ s \o t \in Seq(S) /\ Len(s \o t) = Len(s) + Len(t)
        /\ \A i \in 1 .. Len(s) : (s \o t)[i] = s[i]
        /\ \A i \in 1 .. Len(t) : (s \o t)[Len(s) + i] = t[i]
    BY <2>0
  <2>2. 1 \in 1 .. Len(s) /\ 1 \in 1 .. Len(t) /\ Len(s) + 1 = 2 /\ Len(s) + Len(t) = 2
    BY <1>1
  <2>3. QED
    BY <2>1, <2>2
<1>4. \A i \in 1 .. 2 : (s \o t)[i] = u[i]
  <2>1. \A i \in 1 .. 2 : i = 1 \/ i = 2
    OBVIOUS
  <2>2. QED
    BY <1>1, <1>2, <1>3, <2>1
<1>5. s \o t = u
  BY <1>2, <1>3, <1>4, SeqEqual
<1>6. QED
  BY <1>5 DEF s, t, u

(* The two instructions a plan begins with.                                 *)
Fed(c, k, l) ==
    /\ c \in Stages /\ c.in = k /\ c.made = k /\ c.l = l /\ c.reset /\ ~c.ans /\ c.out = None
    /\ c.fresh = IF l = 0 THEN k ELSE k - 1

(* Loading group k and making its tokens, at the start and behind group k   *)
(* - 1.                                                                     *)
LEMMA InputsMove ==
    ASSUME config \in Configs, NEW b \in Stages, NEW k \in Versions,
           LoadAllowed(b, k), b.made = b.in, b.in # None \/ b.l = 0,
           b.in # None => b.fresh = b.in, b.in # None => b.in = k - 1
    PROVE  \E c : Runs(b, Inputs, k, c) /\ Fed(c, k, b.l) /\ c.whole = b.whole
<1> DEFINE x == Do("LOAD_INPUT")
           y == Do("PREPARE_TOKENS")
           m == Loading(b, k)
           c == Preparing(m)
<1>1. {"LOAD_INPUT", "PREPARE_TOKENS"} \subseteq Opcodes
  BY DEF Opcodes, Skippable
<1>2. x \in InstrOf(config) /\ y \in InstrOf(config)
  BY <1>1, InstrType
<1>3. m = After(b, x, k) /\ Allowed(b, x, k) /\ c = After(m, y, k)
  BY Moves
<1>4. m \in Stages
  BY <1>2, <1>3, AfterType
<1>5. /\ m.in = k /\ m.made = b.made /\ m.l = b.l /\ m.ans = b.ans /\ m.out = None
      /\ m.whole = b.whole /\ m.fresh = (IF b.l = 0 THEN k ELSE b.fresh)
  BY DEF Loading, Stages, StageType
<1>6. /\ k \in Nat /\ b.in \in Int /\ None = -1 /\ b.ans \in BOOLEAN /\ ~b.ans
      /\ b.in = None \/ k = b.in + 1
  BY Sizes, StageFields DEF LoadAllowed
<1>7. Allowed(m, y, k)
  <2>1. PrepareAllowed(m)
    BY <1>5, <1>6 DEF PrepareAllowed
  <2>2. QED
    BY <2>1, Moves
<1>8. c \in Stages
  BY <1>2, <1>3, <1>4, <1>7, AfterType
<1>9. /\ c.in = k /\ c.made = k /\ c.reset = TRUE /\ c.l = b.l /\ c.whole = b.whole
      /\ c.ans = b.ans /\ c.fresh = m.fresh /\ c.out = None
  <2>1. c.out = m.out
    BY <1>4 DEF Stages, StageType, Preparing
  <2> HIDE DEF m
  <2>2. QED
    BY <1>4, <1>5, <2>1, StageMoves
<1>10. Fed(c, k, b.l)
  <2>1. c.fresh = IF b.l = 0 THEN k ELSE k - 1
    BY <1>5, <1>6, <1>9
  <2> HIDE DEF c, m
  <2>2. QED
    BY <1>6, <1>8, <1>9, <2>1 DEF Fed
<1>11. Runs(b, << x >>, k, m) /\ Runs(m, << y >>, k, c)
  <2> HIDE DEF x, y, m, c
  <2>1. QED
    BY <1>2, <1>3, <1>4, <1>7, RunOne
<1>12. Runs(b, << x >> \o << y >>, k, c)
  <2> HIDE DEF x, y, m, c
  <2>1. QED
    BY <1>11, RunConcat
<1>13. << x >> \o << y >> = Inputs
  <2> HIDE DEF x, y
  <2>1. << x >> \o << y >> = << x, y >>
    BY <1>2, PairConcat
  <2>2. QED
    BY <2>1 DEF Inputs, x, y
<1>14. QED
  BY <1>9, <1>10, <1>12, <1>13

LEMMA InputsRun ==
    ASSUME config \in Configs, NEW b, NEW k \in Regions, NEW l, Between(b, k - 1, l)
    PROVE  \E c : Runs(b, Inputs, k, c) /\ Fed(c, k, l) /\ WholeFits(c)
<1>1. /\ k \in Versions /\ k \in 1 .. NumGroups /\ None = -1 /\ NumGroups \in Nat
  BY Sizes
<1>2. /\ b \in Stages /\ b.in = k - 1 /\ b.made = k - 1 /\ b.fresh = k - 1 /\ b.l = l /\ ~b.ans
      /\ WholeFits(b)
  BY DEF Between
<1>3. b.in # None /\ LoadAllowed(b, k)
  BY <1>1, <1>2 DEF LoadAllowed
<1>4. PICK c : Runs(b, Inputs, k, c) /\ Fed(c, k, b.l) /\ c.whole = b.whole
  BY <1>1, <1>2, <1>3, InputsMove
<1>5. WholeFits(c)
  BY <1>2, <1>4 DEF WholeFits, Fed
<1>6. QED
  BY <1>2, <1>4, <1>5

LEMMA InputsStart ==
    ASSUME config \in Configs
    PROVE  \E c : Runs(Start, Inputs, 0, c) /\ Fed(c, 0, 0)
<1>1. Start \in Stages
  BY StartMatches
<1>2. /\ Start.in = None /\ Start.made = None /\ Start.l = 0 /\ ~Start.ans
  BY DEF Start
<1>3. 0 \in Versions
  BY Sizes
<1>4. LoadAllowed(Start, 0)
  BY <1>2, <1>3 DEF LoadAllowed
<1>5. \E c : Runs(Start, Inputs, 0, c) /\ Fed(c, 0, Start.l) /\ c.whole = Start.whole
  BY <1>1, <1>2, <1>3, <1>4, InputsMove
<1>6. QED
  BY <1>2, <1>5

LEMMA RunTwo ==
    ASSUME config \in Configs, NEW a \in Stages, NEW v,
           NEW x \in InstrOf(config), Allowed(a, x, v), NEW m, m = After(a, x, v),
           NEW y \in InstrOf(config), Allowed(m, y, v), NEW b, b = After(m, y, v)
    PROVE  Runs(a, << x, y >>, v, b)
<1>1. m \in Stages
  BY AfterType
<1>2. Runs(a, << x >>, v, m) /\ Runs(m, << y >>, v, b)
  BY <1>1, RunOne
<1>3. Runs(a, << x >> \o << y >>, v, b)
  BY <1>2, RunConcat
<1>4. QED
  BY <1>3, PairConcat

(* A correction brings the new group into all there is so far.              *)
Corrigible(gid, k) ==
    k \in Regions /\ (gid = k \/ (gid = 0 /\ ExecutorName \in Denses \cup {"vggt"}))

(* Correcting for group k, where any layer has been run.                    *)
LEMMA CorrectRun ==
    ASSUME config \in Configs, NEW c, NEW k, NEW l, NEW gid,
           Fed(c, k, l), WholeFits(c), Corrigible(gid, k), l > 0
    PROVE  \E d : Runs(c, << Correct(l, gid) >>, k, d) /\ Between(d, k, l)
<1> DEFINE x == Correct(l, gid)
           d == Correcting(c)
<1>1. /\ c \in Stages /\ c.in = k /\ c.made = k /\ c.l = l /\ c.reset /\ ~c.ans
      /\ c.fresh = (IF l = 0 THEN k ELSE k - 1)
  BY DEF Fed
<1>2. /\ l \in 0 .. TotalLayers /\ TotalLayers \in Nat /\ k \in 1 .. NumGroups /\ None = -1
      /\ c.reset \in BOOLEAN /\ gid \in Int /\ k \in Regions /\ NumGroups \in Nat
  BY <1>1, Sizes, StageFields DEF Corrigible
<1>3. x \in InstrOf(config) /\ x.hi = l /\ x.gid = gid /\ d = After(c, x, k)
      /\ (Allowed(c, x, k) <=> CorrectAllowed(c, x))
  <2>1. x \in InstrOf(config)
    BY <1>2, InstrType
  <2>2. QED
    BY <2>1, Moves
<1> HIDE DEF x
<1>4. CorrectAllowed(c, x)
  <2>1. Ready(c)
    BY <1>1, <1>2 DEF Ready
  <2>2. c.fresh >= c.in - 1
    BY <1>1, <1>2
  <2>3. x.gid = c.in \/ (x.gid = 0 /\ ExecutorName \in Denses \cup {"vggt"})
    BY <1>1, <1>3 DEF Corrigible
  <2>4. QED
    BY <1>1, <1>2, <1>3, <2>1, <2>2, <2>3 DEF CorrectAllowed
<1>5. Runs(c, << x >>, k, d) /\ d \in Stages
  <2> HIDE DEF d
  <2>1. QED
    BY <1>1, <1>3, <1>4, RunOne, AfterType
<1>6. /\ d.in = k /\ d.made = k /\ d.fresh = k /\ d.l = l /\ d.reset = FALSE /\ d.ans = c.ans
      /\ d.whole = c.whole
  BY <1>1, StageMoves
<1>7. Between(d, k, l)
  <2> HIDE DEF d
  <2>1. WholeFits(d)
    BY <1>1, <1>6 DEF WholeFits
  <2>2. QED
    BY <1>1, <1>5, <1>6, <2>1 DEF Between
<1>8. QED
  BY <1>5, <1>7 DEF x

LEMMA CorrectWhen ==
    ASSUME config \in Configs, NEW c, NEW k, NEW l, NEW gid,
           Fed(c, k, l), WholeFits(c), Corrigible(gid, k)
    PROVE  \E d : Runs(c, When(l > 0, << Correct(l, gid) >>), k, d) /\ Between(d, k, l)
<1>1. CASE l > 0
  BY <1>1, CorrectRun DEF When
<1>2. CASE ~(l > 0)
  <2>1. When(l > 0, << Correct(l, gid) >>) = << >>
    BY <1>2 DEF When
  <2>2. c \in Stages /\ c.l = l /\ l \in Nat
    BY StageFields, Sizes DEF Fed
  <2>3. l = 0 /\ Between(c, k, l)
    BY <1>2, <2>2 DEF Fed, Between
  <2>4. QED
    BY <2>1, <2>2, <2>3, RunNil
<1>3. QED
  BY <1>1, <1>2

(* The rest of the layers, or some of them.                                 *)
LEMMA GoOn ==
    ASSUME config \in Configs, NEW c, NEW k, NEW l, NEW hi, NEW v,
           Between(c, k, l), k # None, hi \in l .. TotalLayers, hi \in Nat
    PROVE  \E d : Runs(c, << Approx(l, hi) >>, v, d) /\ Between(d, k, hi)
<1> DEFINE x == Approx(l, hi)
           d == Approximating(c, hi)
<1>1. /\ c \in Stages /\ c.in = k /\ c.made = k /\ c.fresh = k /\ c.l = l /\ ~c.ans
      /\ (l > 0 => ~c.reset) /\ WholeFits(c)
  BY DEF Between
<1>2. l \in 0 .. TotalLayers /\ TotalLayers \in Nat /\ hi \in 0 .. TotalLayers
  BY <1>1, Sizes, StageFields
<1>3. x \in InstrOf(config) /\ x.lo = l /\ x.hi = hi /\ d = After(c, x, v)
      /\ (Allowed(c, x, v) <=> ApproxAllowed(c, x))
  <2>1. x \in InstrOf(config)
    BY <1>2, InstrType
  <2>2. QED
    BY <2>1, Moves
<1> HIDE DEF x
<1>4. ApproxAllowed(c, x)
  BY <1>1, <1>2, <1>3 DEF ApproxAllowed, Ready
<1>5. Runs(c, << x >>, v, d) /\ d \in Stages
  <2> HIDE DEF d
  <2>1. QED
    BY <1>1, <1>3, <1>4, RunOne, AfterType
<1>6. /\ d.in = k /\ d.made = k /\ d.fresh = k /\ d.l = hi /\ d.reset = FALSE /\ d.ans = c.ans
      /\ d.whole = IF ~Detecting \/ GlobalMode = "final_correct" THEN FALSE
                   ELSE IF GlobalMode = "approx" THEN hi = TotalLayers ELSE c.whole
  BY <1>1 DEF Approximating, Stages, StageType
<1>7. Between(d, k, hi)
  <2> HIDE DEF d
  <2>1. WholeFits(d)
    BY <1>1, <1>6, Sizes DEF WholeFits
  <2>2. QED
    BY <1>1, <1>5, <1>6, <2>1 DEF Between
<1>8. QED
  BY <1>5, <1>7 DEF x

(* Going on to a later layer, where it is later.                            *)
LEMMA GoOnWhen ==
    ASSUME config \in Configs, NEW c, NEW k, NEW l, NEW hi, NEW v,
           Between(c, k, l), k # None, hi \in l .. TotalLayers, hi \in Nat
    PROVE  \E d : Runs(c, When(l < hi, << Approx(l, hi) >>), v, d) /\ Between(d, k, hi)
<1>1. CASE l < hi
  BY <1>1, GoOn DEF When
<1>2. CASE ~(l < hi)
  <2>1. When(l < hi, << Approx(l, hi) >>) = << >>
    BY <1>2 DEF When
  <2>2. c \in Stages /\ c.l = l
    BY DEF Between
  <2>3. l \in Nat
    BY <2>2, StageFields, Sizes
  <2>4. hi = l
    BY <1>2, <2>3
  <2>5. QED
    BY <2>1, <2>2, <2>4, RunNil
<1>3. QED
  BY <1>1, <1>2

(* Layers one by one.                                                       *)
LEMMA SinglesGrow ==
    ASSUME config \in Configs, NEW l \in Nat, NEW j \in Nat, l + j < TotalLayers
    PROVE  SingleLayers(l, j + 1) = SingleLayers(l, j) \o << Approx(l + j, l + (j + 1)) >>
<1> DEFINE I == InstrOf(config)
           s == SingleLayers(l, j)
           t == SingleLayers(l, j + 1)
           x == Approx(l + j, l + (j + 1))
           u == << x >>
<1>1. TotalLayers \in Nat
  BY Sizes
<1>2. l \in 0 .. TotalLayers /\ j \in 0 .. TotalLayers - l /\ j + 1 \in 0 .. TotalLayers - l
      /\ l + j \in 0 .. TotalLayers /\ l + (j + 1) \in 0 .. TotalLayers
  BY <1>1
<1>3. s \in Seq(I) /\ Len(s) = j /\ t \in Seq(I) /\ Len(t) = j + 1
  <2>1. Steps(s) /\ Len(s) = j
    BY <1>2, SingleLayersSteps
  <2>2. Steps(t) /\ Len(t) = j + 1
    BY <1>2, SingleLayersSteps
  <2> HIDE DEF s, t
  <2>3. QED
    BY <2>1, <2>2 DEF Steps, Quiescent
<1>4. x \in I
  BY <1>2, InstrType
<1>5. /\ \A i \in 1 .. j : s[i] = Approx(l + i - 1, l + i)
      /\ \A i \in 1 .. j + 1 : t[i] = Approx(l + i - 1, l + i)
  BY DEF SingleLayers
<1>6. t[j + 1] = x
  <2>1. j + 1 \in 1 .. j + 1 /\ l + (j + 1) - 1 = l + j
    BY <1>1
  <2> HIDE DEF t
  <2>2. t[j + 1] = Approx(l + (j + 1) - 1, l + (j + 1))
    BY <1>5, <2>1
  <2>3. QED
    BY <2>1, <2>2
<1> HIDE DEF I, s, t, x
<1>7. u \in Seq(I) /\ Len(u) = 1 /\ u[1] = x
  BY <1>4
<1> HIDE DEF u
<1>8. /\ s \o u \in Seq(I) /\ Len(s \o u) = j + 1
      /\ \A i \in 1 .. j + 1 : (s \o u)[i] = IF i <= j THEN s[i] ELSE u[i - j]
  <2>1. /\ s \o u \in Seq(I) /\ Len(s \o u) = Len(s) + Len(u)
        /\ \A i \in 1 .. Len(s) + Len(u) :
               (s \o u)[i] = IF i <= Len(s) THEN s[i] ELSE u[i - Len(s)]
    BY <1>3, <1>7, ConcatProperties
  <2>2. QED
    BY <1>3, <1>7, <2>1
<1>9. \A i \in 1 .. j + 1 : (s \o u)[i] = t[i]
  <2> SUFFICES ASSUME NEW i \in 1 .. j + 1 PROVE (s \o u)[i] = t[i]
    OBVIOUS
  <2>1. CASE i <= j
    BY <1>5, <1>8, <2>1
  <2>2. CASE ~(i <= j)
    <3>1. i = j + 1 /\ i - j = 1
      BY <2>2
    <3>2. QED
      BY <1>6, <1>7, <1>8, <2>2, <3>1
  <2>3. QED
    BY <2>1, <2>2
<1>10. s \o u = t
  BY <1>3, <1>8, <1>9, SeqEqual
<1>11. QED
  BY <1>10 DEF s, t, u, x

LEMMA SinglesRun ==
    ASSUME config \in Configs, NEW c, NEW k, NEW l, NEW v, Between(c, k, l), k # None,
           NEW j \in 0 .. TotalLayers - l
    PROVE  \E d : Runs(c, SingleLayers(l, j), v, d) /\ Between(d, k, l + j)
<1> DEFINE Goes(i) == \E d : Runs(c, SingleLayers(l, i), v, d) /\ Between(d, k, l + i)
           T == {i \in Nat : l + i <= TotalLayers => Goes(i)}
<1>1. c \in Stages /\ c.l = l
  BY DEF Between
<1>2. TotalLayers \in Nat /\ l \in 0 .. TotalLayers /\ l \in Nat
  BY <1>1, Sizes, StageFields
<1>3. 0 \in T
  <2>1. SingleLayers(l, 0) = << >>
    BY DEF SingleLayers
  <2>2. l + 0 = l
    BY <1>2
  <2>3. Goes(0)
    BY <1>1, <2>1, <2>2, RunNil
  <2>4. QED
    BY <2>3
<1>4. ASSUME NEW i \in Nat, i \in T PROVE i + 1 \in T
  <2> SUFFICES ASSUME l + (i + 1) <= TotalLayers PROVE Goes(i + 1)
    OBVIOUS
  <2>1. l + i < TotalLayers /\ l + (i + 1) \in l + i .. TotalLayers /\ l + (i + 1) \in Nat
    BY <1>2
  <2>2. PICK d : Runs(c, SingleLayers(l, i), v, d) /\ Between(d, k, l + i)
    BY <1>2, <1>4, <2>1
  <2>3. PICK e : Runs(d, << Approx(l + i, l + (i + 1)) >>, v, e) /\ Between(e, k, l + (i + 1))
    BY <2>1, <2>2, GoOn
  <2>4. SingleLayers(l, i + 1) = SingleLayers(l, i) \o << Approx(l + i, l + (i + 1)) >>
    BY <1>2, <2>1, SinglesGrow
  <2>5. QED
    BY <2>2, <2>3, <2>4, RunConcat
<1>5. Nat \subseteq T
  <2> HIDE DEF T
  <2>1. QED
    BY <1>3, <1>4, SetInduction
<1>6. j \in Nat /\ l + j <= TotalLayers
  BY <1>2
<1>7. Goes(j)
  BY <1>5, <1>6
<1>8. QED
  BY <1>7

(* The global source is run first, or last.                                 *)
LEMMA CoverRun ==
    ASSUME config \in Configs, NEW c \in Stages, Ready(c), Detecting, NEW v
    PROVE  Runs(c, << GlobalApprox >>, v, Covering(c)) /\ Covering(c) \in Stages
<1>1. GlobalApprox \in InstrOf(config) /\ Allowed(c, GlobalApprox, v)
      /\ Covering(c) = After(c, GlobalApprox, v)
  BY InstrType, Moves DEF GlobalAllowed
<1>2. QED
  BY <1>1, RunOne, AfterType

(* The global source, in front of all groups or behind them.                *)
LEMMA CoverFirst ==
    ASSUME config \in Configs, NEW c, NEW v, Fed(c, 0, 0),
           NEW cond \in BOOLEAN, cond <=> (GlobalMode = "global_first")
    PROVE  \E d : Runs(c, When(cond, << GlobalApprox >>), v, d) /\ Between(d, 0, 0)
<1>1. /\ c \in Stages /\ c.in = 0 /\ c.made = 0 /\ c.l = 0 /\ ~c.ans /\ c.fresh = 0
      /\ TotalLayers > 0 /\ None = -1
  BY Sizes DEF Fed
<1>2. CASE cond
  <2> DEFINE d == Covering(c)
  <2>1. Ready(c) /\ Detecting
    BY <1>1, <1>2, Sizes DEF Ready
  <2>2. Runs(c, << GlobalApprox >>, v, d) /\ d \in Stages
    BY <1>1, <2>1, CoverRun
  <2>3. /\ d.in = 0 /\ d.made = 0 /\ d.fresh = 0 /\ d.l = 0 /\ d.ans = c.ans /\ d.whole = TRUE
    BY <1>1, StageMoves
  <2>4. Between(d, 0, 0)
    <3> HIDE DEF d
    <3>1. QED
      BY <1>1, <2>2, <2>3 DEF Between, WholeFits
  <2>5. When(cond, << GlobalApprox >>) = << GlobalApprox >>
    BY <1>2 DEF When
  <2>6. QED
    BY <2>2, <2>4, <2>5
<1>3. CASE ~cond
  <2>1. Between(c, 0, 0)
    BY <1>1, <1>3 DEF Between, WholeFits
  <2>2. When(cond, << GlobalApprox >>) = << >>
    BY <1>3 DEF When
  <2>3. QED
    BY <1>1, <2>1, <2>2, RunNil
<1>4. QED
  BY <1>2, <1>3

Headable(c, k) ==
    /\ c \in Stages /\ c.in = k /\ c.made = k /\ c.fresh = k /\ c.l = TotalLayers
    /\ ~c.reset /\ k # None
    /\ Detecting => c.whole

LEMMA CoverLast ==
    ASSUME config \in Configs, NEW c, NEW k, NEW v, Between(c, k, TotalLayers), k # None,
           NEW cond \in BOOLEAN, GlobalMode = "final_correct" => cond, cond => Detecting
    PROVE  \E d : Runs(c, When(cond, << GlobalApprox >>), v, d) /\ Headable(d, k)
<1>1. /\ c \in Stages /\ c.in = k /\ c.made = k /\ c.l = TotalLayers /\ ~c.ans /\ c.fresh = k
      /\ ~c.reset /\ TotalLayers > 0 /\ WholeFits(c)
  BY Sizes DEF Between
<1>2. CASE cond
  <2> DEFINE d == Covering(c)
  <2>1. Ready(c) /\ Detecting
    BY <1>1, <1>2 DEF Ready
  <2>2. Runs(c, << GlobalApprox >>, v, d) /\ d \in Stages
    BY <1>1, <2>1, CoverRun
  <2>3. /\ d.in = k /\ d.made = k /\ d.fresh = k /\ d.l = TotalLayers /\ d.reset = c.reset
        /\ d.whole = TRUE
    BY <1>1, StageMoves
  <2>4. Headable(d, k)
    <3> HIDE DEF d
    <3>1. QED
      BY <1>1, <2>2, <2>3 DEF Headable
  <2>5. When(cond, << GlobalApprox >>) = << GlobalApprox >>
    BY <1>2 DEF When
  <2>6. QED
    BY <2>2, <2>4, <2>5
<1>3. CASE ~cond
  <2>1. Detecting => c.whole
    BY <1>1, <1>3, Sizes DEF WholeFits
  <2>2. Headable(c, k)
    BY <1>1, <2>1 DEF Headable
  <2>3. When(cond, << GlobalApprox >>) = << >>
    BY <1>3 DEF When
  <2>4. QED
    BY <1>1, <2>2, <2>3, RunNil
<1>4. QED
  BY <1>2, <1>3

(* What answers a request.                                                  *)
Served(d, k) == d \in Stages /\ d.ans /\ d.in = k

(* The answer from a complete output.                                       *)
LEMMA RespondRun ==
    ASSUME config \in Configs, NEW c \in Stages, c.out = TotalLayers, NEW v
    PROVE  \E d : Runs(c, Respond, v, d) /\ Served(d, c.in)
<1> DEFINE x == Do("SEND_RESPONSE")
           y == Do("FREE_SESSION")
           d == Delivering(c)
<1>1. x \in InstrOf(config) /\ y \in InstrOf(config)
  BY InstrType DEF Opcodes
<1>2. Allowed(c, x, v) /\ d = After(c, x, v)
  BY Moves
<1>3. d \in Stages
  BY <1>1, <1>2, AfterType
<1>4. d.in = c.in /\ d.ans = TRUE
  BY StageMoves
<1>5. Allowed(d, y, v) /\ d = After(d, y, v)
  <2> HIDE DEF d
  <2>1. QED
    BY <1>3, <1>4, Moves
<1>6. Runs(c, << x, y >>, v, d)
  <2> HIDE DEF d, x, y
  <2>1. QED
    BY <1>1, <1>2, <1>3, <1>5, RunTwo
<1>7. QED
  BY <1>3, <1>4, <1>6 DEF Respond, Served

(* The head behind the last layer, and the answer after it.                 *)
LEMMA HeadStage ==
    ASSUME config \in Configs, ExecutorName # "sam3", NEW c, NEW k, Headable(c, k), NEW v
    PROVE  /\ c \in Stages /\ c.in = k
           /\ Do("HEAD_INFERENCE") \in InstrOf(config)
           /\ Allowed(c, Do("HEAD_INFERENCE"), v)
           /\ Producing(c, TotalLayers) = After(c, Do("HEAD_INFERENCE"), v)
           /\ Producing(c, TotalLayers) \in Stages
           /\ Producing(c, TotalLayers).in = k /\ Producing(c, TotalLayers).out = TotalLayers
<1>1. c \in Stages /\ c.in = k /\ c.l = TotalLayers
  BY DEF Headable
<1>2. Do("HEAD_INFERENCE") \in InstrOf(config)
  BY InstrType DEF Opcodes, Skippable
<1>3. HeadAllowed(c)
  BY Sizes DEF Headable, HeadAllowed, Ready
<1>4. /\ Allowed(c, Do("HEAD_INFERENCE"), v)
      /\ Producing(c, TotalLayers) = After(c, Do("HEAD_INFERENCE"), v)
  BY <1>1, <1>3, Moves
<1>5. Producing(c, TotalLayers) \in Stages
  BY <1>1, <1>2, <1>4, AfterType
<1>6. Producing(c, TotalLayers).in = k /\ Producing(c, TotalLayers).out = TotalLayers
  BY <1>1 DEF Producing, Stages, StageType
<1>7. QED
  BY <1>1, <1>2, <1>4, <1>5, <1>6

LEMMA FinishRun ==
    ASSUME config \in Configs, ExecutorName # "sam3", NEW c, NEW k, Headable(c, k), NEW v
    PROVE  \E d : Runs(c, Finish, v, d) /\ Served(d, k)
<1> DEFINE x == Do("HEAD_INFERENCE")
           y == Do("EXIT_ALL")
           m == Producing(c, TotalLayers)
           e == Delivering(m)
<1>1. /\ c \in Stages /\ x \in InstrOf(config) /\ Allowed(c, x, v) /\ m = After(c, x, v)
      /\ m \in Stages /\ m.in = k /\ m.out = TotalLayers
  BY HeadStage
<1>2. y \in InstrOf(config)
  BY InstrType DEF Opcodes
<1>3. Allowed(m, y, v) /\ e = After(m, y, v)
  <2> HIDE DEF m
  <2>1. QED
    BY <1>1, Moves
<1>4. Runs(c, << x, y >>, v, e)
  <2> HIDE DEF x, y, m, e
  <2>1. QED
    BY <1>1, <1>2, <1>3, RunTwo
<1>5. e \in Stages /\ e.in = k /\ e.out = TotalLayers
  <2>1. e \in Stages
    <3> HIDE DEF y, m, e
    <3>1. QED
      BY <1>1, <1>2, <1>3, AfterType
  <2>2. e.in = m.in /\ e.out = m.out
    <3> HIDE DEF m
    <3>1. QED
      BY <1>1, StageMoves
  <2>3. QED
    BY <1>1, <2>1, <2>2
<1>6. PICK d : Runs(e, Respond, v, d) /\ Served(d, e.in)
  <2> HIDE DEF e
  <2>1. QED
    BY <1>5, RespondRun
<1>7. Runs(c, << x, y >> \o Respond, v, d)
  <2> HIDE DEF x, y, e
  <2>1. QED
    BY <1>4, <1>6, RunConcat
<1>8. QED
  BY <1>5, <1>6, <1>7 DEF Finish

LEMMA HeadRun ==
    ASSUME config \in Configs, ExecutorName # "sam3", NEW c, NEW k, Headable(c, k), NEW v
    PROVE  \E d : Runs(c, << Do("HEAD_INFERENCE") >>, v, d) /\ d.out = TotalLayers /\ d.in = k
                  /\ d \in Stages
<1> DEFINE x == Do("HEAD_INFERENCE")
           m == Producing(c, TotalLayers)
<1>1. /\ c \in Stages /\ x \in InstrOf(config) /\ Allowed(c, x, v) /\ m = After(c, x, v)
      /\ m \in Stages /\ m.in = k /\ m.out = TotalLayers
  BY HeadStage
<1>2. Runs(c, << x >>, v, m)
  <2> HIDE DEF x, m
  <2>1. QED
    BY <1>1, RunOne
<1>3. QED
  BY <1>1, <1>2

LEMMA HeadRespond ==
    ASSUME config \in Configs, ExecutorName # "sam3", NEW c, NEW k, Headable(c, k), NEW v
    PROVE  \E d : Runs(c, << Do("HEAD_INFERENCE") >> \o Respond, v, d) /\ Served(d, k)
<1>1. PICK m : Runs(c, << Do("HEAD_INFERENCE") >>, v, m) /\ m.out = TotalLayers /\ m.in = k
               /\ m \in Stages
  BY HeadRun
<1>2. PICK d : Runs(m, Respond, v, d) /\ Served(d, m.in)
  BY <1>1, RespondRun
<1>3. QED
  BY <1>1, <1>2, RunConcat

(* The early-exit check leaves what it is run on as it is.                  *)
LEMMA ExitRun ==
    ASSUME config \in Configs, NEW c, NEW k, NEW l, NEW v, Between(c, k, l), k # None,
           EarlyExit => l > 0
    PROVE  \E d : Runs(c, ExitCheck, v, d) /\ Between(d, k, l)
<1>1. /\ c \in Stages /\ c.in = k /\ c.made = k /\ c.l = l /\ ~c.ans /\ c.fresh = k
      /\ (l > 0 => ~c.reset) /\ WholeFits(c)
  BY DEF Between
<1>2. CASE EarlyExit
  <2> DEFINE x == Do("HEAD_INFERENCE")
             y == Do("DECIDE_EXIT")
             d == Producing(c, l)
  <2>1. ExecutorName \in {"classifier", "linhead"} /\ l > 0
    BY <1>2, ExecutorAssumption DEF ExecutorName, EarlyExit
  <2>2. x \in InstrOf(config) /\ y \in InstrOf(config)
    BY InstrType DEF Opcodes, Skippable
  <2>3. HeadAllowed(c)
    BY <1>1, <2>1 DEF HeadAllowed, Ready, MultiLevel, Detecting
  <2>4. Allowed(c, x, v) /\ d = After(c, x, v)
    BY <1>1, <2>3, Moves
  <2>5. d \in Stages
    <3> HIDE DEF d, x
    <3>1. QED
      BY <1>1, <2>2, <2>4, AfterType
  <2>6. /\ d.in = k /\ d.made = k /\ d.fresh = k /\ d.l = l /\ d.reset = c.reset
        /\ d.ans = c.ans /\ d.whole = c.whole /\ d.out = l
    BY <1>1 DEF Producing, Stages, StageType
  <2>7. Allowed(d, y, v) /\ d = After(d, y, v)
    <3>1. l \in Nat /\ None = -1
      BY <1>1, StageFields, Sizes
    <3> HIDE DEF d
    <3>2. QED
      BY <1>2, <2>5, <2>6, <3>1, Moves
  <2>8. Runs(c, << x, y >>, v, d)
    <3> HIDE DEF x, y, d
    <3>1. QED
      BY <1>1, <2>2, <2>4, <2>5, <2>7, RunTwo
  <2>9. Between(d, k, l)
    <3> HIDE DEF d
    <3>1. WholeFits(d)
      BY <1>1, <2>6 DEF WholeFits
    <3>2. QED
      BY <1>1, <2>5, <2>6, <3>1 DEF Between
  <2>10. ExitCheck = << x, y >>
    BY <1>2 DEF ExitCheck, When
  <2>11. QED
    BY <2>8, <2>9, <2>10
<1>3. CASE ~EarlyExit
  <2>1. ExitCheck = << >>
    BY <1>3 DEF ExitCheck, When
  <2>2. QED
    BY <1>1, <2>1, RunNil
<1>4. QED
  BY <1>2, <1>3

-----------------------------------------------------------------------------
(* The plans of the policies, from one group to the next.  What schedule,   *)
(* executor and global source have to agree on: SAM 3 is not served, the    *)
(* chunks of GroupTrigger cover the layers, the policies that correct group *)
(* 0 have an executor that takes it for all groups, the global source is    *)
(* only put off or run first where the policy comes back to it or begins    *)
(* with it, and an exit check finds features.                               *)
Corrects0 == {"ADE20KApproxCorrect", "NYUApproxCorrect"}
Together == {"GroupTrigger", "DynamicGroupTrigger", "COCOWindowInterleaved", "COCOWindowDynamic"}
Suited ==
    /\ ExecutorName # "sam3"
    /\ Policy = "GroupTrigger" => TotalLayers % NumGroups = 0
    /\ Policy \in Corrects0 => ExecutorName \in Denses \cup {"vggt"}
    /\ Policy \in Corrects0 \cup {"VGGTInterleaved"} => CorrectionOn
    /\ \/ Policy = "BatchCountBased" /\ ~ApproxOnly
       \/ /\ GlobalMode = "final_correct" => Policy \in Together
          /\ GlobalMode = "global_first" =>
                Policy \in {"COCOWindowInterleaved", "COCOWindowDynamic"}
    /\ EarlyExit /\ Policy \in DynamicPolicies => AheadLayers > 0

(* The group k comes to a new request, or to one at rest.                   *)
Comes(b, k, l) ==
    (k = 0 /\ l = 0 /\ b = Start) \/ (k \in Regions /\ Between(b, k - 1, l))

LEMMA WhenSame ==
    ASSUME NEW c1, NEW c2, c1 <=> c2, NEW s
    PROVE  When(c1, s) = When(c2, s)
  BY DEF When

(* Between two groups.                                                      *)
LEMMA BetweenHeadable ==
    ASSUME config \in Configs, NEW c, NEW k, Between(c, k, TotalLayers), k # None,
           GlobalMode # "final_correct"
    PROVE  Headable(c, k)
  BY Sizes DEF Between, WholeFits, Headable

LEMMA BetweenLayers ==
    ASSUME config \in Configs, NEW b, NEW k, NEW l, Between(b, k, l)
    PROVE  l \in 0 .. TotalLayers /\ b \in Stages
  BY StageFields DEF Between

(* A group loaded, and corrected for.                                       *)
LEMMA FedRun ==
    ASSUME config \in Configs, NEW b, NEW k, NEW l, Comes(b, k, l),
           k = 0 => GlobalMode # "global_first"
    PROVE  \E c : Runs(b, Inputs, k, c) /\ Fed(c, k, l) /\ WholeFits(c)
<1>1. CASE k = 0 /\ l = 0 /\ b = Start
  <2>1. PICK c : Runs(b, Inputs, 0, c) /\ Fed(c, 0, 0)
    BY <1>1, InputsStart
  <2>2. c.l # TotalLayers
    BY <2>1, Sizes DEF Fed
  <2>3. WholeFits(c)
    BY <1>1, <2>2 DEF WholeFits
  <2>4. QED
    BY <1>1, <2>1, <2>3
<1>2. CASE k \in Regions /\ Between(b, k - 1, l)
  BY <1>2, InputsRun
<1>3. QED
  BY <1>1, <1>2 DEF Comes

LEMMA CorrectedRun ==
    ASSUME config \in Configs, NEW b, NEW k, NEW l, NEW gid, Comes(b, k, l),
           k = 0 => GlobalMode # "global_first",
           k \in Regions => Corrigible(gid, k)
    PROVE  \E c : /\ Runs(b, Inputs, k, c)
                  /\ \E d : Runs(c, When(l > 0, << Correct(l, gid) >>), k, d) /\ Between(d, k, l)
<1>1. PICK c : Runs(b, Inputs, k, c) /\ Fed(c, k, l) /\ WholeFits(c)
  BY FedRun
<1>2. CASE k \in Regions
  BY <1>1, <1>2, CorrectWhen
<1>3. CASE ~(k \in Regions)
  <2>1. k = 0 /\ l = 0
    BY <1>3 DEF Comes
  <2>2. When(l > 0, << Correct(l, gid) >>) = << >>
    BY <2>1 DEF When
  <2>3. Between(c, k, l) /\ c \in Stages
    BY <1>1, <2>1 DEF Between, Fed
  <2>4. QED
    BY <1>1, <2>2, <2>3, RunNil
<1>4. QED
  BY <1>2, <1>3

(* GroupTrigger.                                                            *)
LEMMA Chunks ==
    ASSUME config \in Configs, TotalLayers % NumGroups = 0
    PROVE  /\ TotalLayers \div NumGroups \in Nat \ {0}
           /\ NumGroups * (TotalLayers \div NumGroups) = TotalLayers
<1> DEFINE q == TotalLayers \div NumGroups
           r == TotalLayers % NumGroups
<1>1. TotalLayers \in Nat /\ TotalLayers # 0 /\ NumGroups \in Nat \ {0}
  BY Sizes
<1>2. q \in Nat /\ TotalLayers = NumGroups * q + r /\ r = 0
  BY <1>1, Division
<1> HIDE DEF q, r
<1>3. NumGroups * q = TotalLayers
  BY <1>1, <1>2
<1>4. q # 0
  BY <1>1, <1>3
<1>5. QED
  BY <1>2, <1>3, <1>4 DEF q

Modes ==
    /\ GlobalMode = "final_correct" => Policy \in Together
    /\ GlobalMode = "global_first" => Policy \in {"COCOWindowInterleaved", "COCOWindowDynamic"}

(* Outside BatchCountBased the global source runs where the plan has it.    *)
LEMMA SuitedModes ==
    ASSUME Suited, Policy # "BatchCountBased"
    PROVE  Modes
  BY DEF Suited, Modes

(* The plan of group_trigger.py: k segments are cached, then k + 1.         *)
LEMMA GroupTriggerRun ==
    ASSUME config \in Configs, Suited, Policy = "GroupTrigger", NEW k \in Versions, NEW b,
           Comes(b, k, k * (TotalLayers \div NumGroups))
    PROVE  \E d : /\ Runs(b, GroupTriggerPlan(k), k, d)
                  /\ IF k < NumGroups THEN Between(d, k, (k + 1) * (TotalLayers \div NumGroups))
                     ELSE Served(d, k)
<1> DEFINE q == TotalLayers \div NumGroups
           lo == k * q
           hi == (k + 1) * q
           tail == << Correct(TotalLayers, k) >>
                   \o When(GlobalMode = "final_correct", << GlobalApprox >>) \o Finish
           body == When(lo > 0, << Correct(lo, k) >>) \o << Approx(lo, hi) >> \o ExitCheck
<1>1. q \in Nat \ {0} /\ NumGroups * q = TotalLayers
  BY Chunks DEF Suited
<1>2. /\ k \in 0 .. NumGroups /\ NumGroups \in Nat \ {0} /\ TotalLayers \in Nat /\ TotalLayers > 0
      /\ Regions = 1 .. NumGroups /\ k # None
  BY Sizes
<1>3. GroupTriggerPlan(k) = Inputs \o (IF k < NumGroups THEN body ELSE tail)
  BY DEF GroupTriggerPlan
<1>4. k = 0 => GlobalMode # "global_first"
  BY SuitedModes DEF Modes
<1>5. k \in Regions => Corrigible(k, k)
  BY DEF Corrigible
<1>6. Comes(b, k, lo)
  OBVIOUS
<1>7. k < NumGroups => hi \in lo .. TotalLayers /\ hi \in Nat /\ hi > 0
  <2> SUFFICES ASSUME k < NumGroups PROVE hi \in lo .. TotalLayers /\ hi \in Nat /\ hi > 0
    OBVIOUS
  <2>1. lo \in 0 .. TotalLayers /\ hi \in 0 .. TotalLayers
    <3>1. k \in 0 .. NumGroups - 1
      BY <1>2
    <3>2. QED
      BY <3>1, ChunkType
  <2>2. hi = lo + q
    <3> HIDE DEF q
    <3>1. QED
      BY <1>1, <1>2
  <2> HIDE DEF lo, hi, q
  <2>3. QED
    BY <1>1, <2>1, <2>2
<1>8. k >= NumGroups => lo = TotalLayers
  BY <1>1, <1>2
<1> HIDE DEF q, lo, hi
<1>9. PICK c : /\ Runs(b, Inputs, k, c)
               /\ \E d : Runs(c, When(lo > 0, << Correct(lo, k) >>), k, d) /\ Between(d, k, lo)
  BY <1>4, <1>5, <1>6, CorrectedRun
<1>10. PICK m : Runs(c, When(lo > 0, << Correct(lo, k) >>), k, m) /\ Between(m, k, lo)
  BY <1>9
<1>11. CASE k < NumGroups
  <2>1. PICK n : Runs(m, << Approx(lo, hi) >>, k, n) /\ Between(n, k, hi)
    BY <1>2, <1>7, <1>10, <1>11, GoOn
  <2>2. PICK d : Runs(n, ExitCheck, k, d) /\ Between(d, k, hi)
    BY <1>2, <1>7, <1>11, <2>1, ExitRun
  <2>3. Runs(c, body, k, d)
    BY <1>10, <2>1, <2>2, RunConcat
  <2> HIDE DEF body
  <2>4. Runs(b, Inputs \o body, k, d)
    BY <1>9, <2>3, RunConcat
  <2>5. QED
    BY <1>3, <1>11, <2>2, <2>4 DEF hi, q
<1>12. CASE ~(k < NumGroups)
  <2>1. lo = TotalLayers
    BY <1>2, <1>8, <1>12
  <2>2. When(lo > 0, << Correct(lo, k) >>) = << Correct(TotalLayers, k) >>
    BY <1>2, <2>1 DEF When
  <2>3. PICK n : Runs(m, When(GlobalMode = "final_correct", << GlobalApprox >>), k, n)
                 /\ Headable(n, k)
    <3>1. (GlobalMode = "final_correct") => Detecting
      BY Sizes
    <3>2. QED
      BY <1>2, <1>10, <2>1, <3>1, CoverLast
  <2>4. PICK d : Runs(n, Finish, k, d) /\ Served(d, k)
    BY <2>3, FinishRun DEF Suited
  <2>5. Runs(c, tail, k, d)
    BY <1>10, <2>2, <2>3, <2>4, RunConcat
  <2> HIDE DEF tail
  <2>6. Runs(b, Inputs \o tail, k, d)
    BY <1>9, <2>5, RunConcat
  <2>7. QED
    BY <1>3, <1>12, <2>4, <2>6
<1>13. QED
  BY <1>11, <1>12

(* ADE20KWindowInterleaved.                                                 *)
LEMMA WindowRun ==
    ASSUME config \in Configs, Suited, Policy = "ADE20KWindowInterleaved",
           NEW st, st.n \in Nat \ {0}, NEW k \in Versions, k <= st.n,
           NEW b, Comes(b, k, Boundary(st.n, k))
    PROVE  \E d : /\ Runs(b, WindowPlan(st, k), k, d)
                  /\ IF k < st.n THEN Between(d, k, Boundary(st.n, k + 1)) ELSE Served(d, k)
<1> DEFINE lo == Boundary(st.n, k)
           hi == Boundary(st.n, k + 1)
           body == When(lo > 0, << Correct(lo, k) >>) \o << Approx(lo, hi) >>
           tail == << Correct(TotalLayers, k) >> \o Finish
<1>1. /\ k \in Nat /\ TotalLayers \in Nat /\ TotalLayers > 0
      /\ Regions = 1 .. NumGroups /\ k # None
  BY Sizes
<1>2. WindowPlan(st, k) = Inputs \o (IF k < st.n THEN body ELSE tail)
  BY DEF WindowPlan
<1>3. GlobalMode # "global_first" /\ GlobalMode # "final_correct"
  BY SuitedModes DEF Modes, Together
<1>4. k \in Regions => Corrigible(k, k)
  BY DEF Corrigible
<1>5. k < st.n => hi \in lo .. TotalLayers /\ hi \in Nat
  <2> SUFFICES ASSUME k < st.n PROVE hi \in lo .. TotalLayers /\ hi \in Nat
    OBVIOUS
  <2>1. k \in 0 .. st.n /\ k + 1 \in 0 .. st.n
    BY <1>1
  <2>2. lo \in 0 .. TotalLayers /\ hi \in 0 .. TotalLayers /\ lo <= hi
    BY <2>1, BoundaryType
  <2> HIDE DEF lo, hi
  <2>3. QED
    BY <1>1, <2>2
<1>6. ~(k < st.n) => lo = TotalLayers
  <2>1. ~(k < st.n) => k = st.n
    BY <1>1
  <2>2. st.n \in 0 .. st.n
    OBVIOUS
  <2>3. Boundary(st.n, st.n) = TotalLayers
    BY <2>2, BoundaryType
  <2>4. QED
    BY <2>1, <2>3
<1>7. Comes(b, k, lo)
  OBVIOUS
<1> HIDE DEF lo, hi
<1>8. PICK c : /\ Runs(b, Inputs, k, c)
               /\ \E d : Runs(c, When(lo > 0, << Correct(lo, k) >>), k, d) /\ Between(d, k, lo)
  BY <1>3, <1>4, <1>7, CorrectedRun
<1>9. PICK m : Runs(c, When(lo > 0, << Correct(lo, k) >>), k, m) /\ Between(m, k, lo)
  BY <1>8
<1>10. CASE k < st.n
  <2>1. PICK d : Runs(m, << Approx(lo, hi) >>, k, d) /\ Between(d, k, hi)
    BY <1>1, <1>5, <1>9, <1>10, GoOn
  <2>2. Runs(c, body, k, d)
    BY <1>9, <2>1, RunConcat
  <2> HIDE DEF body
  <2>3. Runs(b, Inputs \o body, k, d)
    BY <1>8, <2>2, RunConcat
  <2>4. QED
    BY <1>2, <1>10, <2>1, <2>3 DEF hi
<1>11. CASE ~(k < st.n)
  <2>1. When(lo > 0, << Correct(lo, k) >>) = << Correct(TotalLayers, k) >>
    BY <1>1, <1>6, <1>11 DEF When
  <2>2. Headable(m, k)
    BY <1>1, <1>3, <1>6, <1>9, <1>11, BetweenHeadable
  <2>3. PICK d : Runs(m, Finish, k, d) /\ Served(d, k)
    BY <2>2, FinishRun DEF Suited
  <2>4. Runs(c, tail, k, d)
    BY <1>9, <2>1, <2>3, RunConcat
  <2> HIDE DEF tail
  <2>5. Runs(b, Inputs \o tail, k, d)
    BY <1>8, <2>4, RunConcat
  <2>6. QED
    BY <1>2, <1>11, <2>3, <2>5
<1>12. QED
  BY <1>10, <1>11

(* VGGTInterleaved.                                                         *)
LEMMA VGGTRun ==
    ASSUME config \in Configs, Suited, Policy = "VGGTInterleaved", NEW k \in Versions, NEW b,
           k = 0 => Comes(b, 0, 0), k > 0 => Comes(b, k, VGGTBound(k))
    PROVE  \E d : /\ Runs(b, VGGTPlan(k), k, d)
                  /\ IF k < NumGroups THEN Between(d, k, VGGTBound(k + 1)) ELSE Served(d, k)
<1> DEFINE prev == VGGTBound(k)
           here == VGGTBound(IF k < NumGroups THEN k + 1 ELSE NumGroups)
           first == << Approx(0, VGGTBound(1)) >>
           body == When(CorrectionOn /\ prev > 0, << Correct(prev, k) >>)
                   \o When(here > prev, << Approx(prev, here) >>)
           answer == When(CorrectionOn /\ prev < TotalLayers, << Correct(TotalLayers, k) >>)
                     \o << Do("HEAD_INFERENCE") >> \o Respond
           tail == When(k >= NumGroups, answer)
<1>1. /\ k \in 0 .. NumGroups /\ NumGroups \in Nat \ {0} /\ TotalLayers \in Nat /\ TotalLayers > 0
      /\ Regions = 1 .. NumGroups /\ k # None
  BY Sizes
<1>2. VGGTPlan(k) = Inputs \o (IF k = 0 THEN first ELSE body \o tail)
  BY DEF VGGTPlan
<1>3. GlobalMode # "global_first" /\ GlobalMode # "final_correct"
  BY SuitedModes DEF Modes, Together
<1>4. CASE k = 0
  <2>1. 1 \in 1 .. NumGroups /\ k < NumGroups /\ k + 1 = 1
    BY <1>1, <1>4
  <2>2. VGGTBound(1) \in 0 .. TotalLayers
    BY <2>1, VGGTBoundType
  <2>3. PICK c : Runs(b, Inputs, 0, c) /\ Fed(c, 0, 0) /\ WholeFits(c)
    BY <1>3, <1>4, FedRun
  <2>4. Between(c, 0, 0)
    BY <2>3 DEF Between, Fed
  <2>5. 0 # None
    BY <1>1, <1>4
  <2>6. PICK d : Runs(c, first, 0, d) /\ Between(d, 0, VGGTBound(1))
    BY <2>2, <2>4, <2>5, GoOn
  <2> HIDE DEF first
  <2>7. Runs(b, Inputs \o first, 0, d)
    BY <2>3, <2>6, RunConcat
  <2>8. QED
    BY <1>2, <1>4, <2>1, <2>6, <2>7
<1>5. CASE k # 0
  <2>1. k \in 1 .. NumGroups /\ k > 0
    BY <1>1, <1>5
  <2>2. /\ prev \in 0 .. TotalLayers /\ here \in prev .. TotalLayers /\ here \in Nat
        /\ k >= NumGroups => prev = TotalLayers /\ here = TotalLayers
        /\ k < NumGroups => here = VGGTBound(k + 1)
    <3>1. /\ VGGTBound(k) \in 0 .. TotalLayers /\ VGGTBound(NumGroups) = TotalLayers
          /\ k < NumGroups => VGGTBound(k) <= VGGTBound(k + 1)
      BY <2>1, VGGTBoundType
    <3>2. CASE k < NumGroups
      <4>1. k + 1 \in 1 .. NumGroups
        BY <1>1, <3>2
      <4>2. VGGTBound(k + 1) \in 0 .. TotalLayers
        BY <4>1, VGGTBoundType
      <4>3. here = VGGTBound(k + 1)
        BY <3>2
      <4> HIDE DEF here
      <4>4. QED
        BY <1>1, <3>1, <3>2, <4>2, <4>3
    <3>3. CASE ~(k < NumGroups)
      <4>1. k = NumGroups
        BY <1>1, <3>3
      <4>2. here = VGGTBound(NumGroups)
        BY <3>3
      <4> HIDE DEF here
      <4>3. QED
        BY <1>1, <3>1, <3>3, <4>1, <4>2
    <3>4. QED
      BY <3>2, <3>3
  <2>3. Comes(b, k, prev)
    BY <2>1
  <2>4. VGGTPlan(k) = Inputs \o (body \o tail)
    BY <1>2, <1>5
  <2> HIDE DEF prev, here
  <2>5. Corrigible(k, k)
    BY <1>1, <2>1 DEF Corrigible
  <2>6. PICK c : /\ Runs(b, Inputs, k, c)
                 /\ \E d : Runs(c, When(prev > 0, << Correct(prev, k) >>), k, d) /\ Between(d, k, prev)
    BY <1>3, <2>3, <2>5, CorrectedRun
  <2>7. PICK m : Runs(c, When(prev > 0, << Correct(prev, k) >>), k, m) /\ Between(m, k, prev)
    BY <2>6
  <2>8. PICK n : Runs(m, When(prev < here, << Approx(prev, here) >>), k, n) /\ Between(n, k, here)
    BY <1>1, <2>2, <2>7, GoOnWhen
  <2>9. When(here > prev, << Approx(prev, here) >>) = When(prev < here, << Approx(prev, here) >>)
    <3>1. here > prev <=> prev < here
      BY <2>2
    <3>2. QED
      BY <3>1, WhenSame
  <2>0. When(CorrectionOn /\ prev > 0, << Correct(prev, k) >>) = When(prev > 0, << Correct(prev, k) >>)
    <3>1. CorrectionOn /\ prev > 0 <=> prev > 0
      BY DEF Suited
    <3>2. QED
      BY <3>1, WhenSame
  <2>10. Runs(c, body, k, n)
    BY <2>0, <2>7, <2>8, <2>9, RunConcat
  <2> HIDE DEF body
  <2>11. CASE k < NumGroups
    <3>1. ~(k >= NumGroups)
      BY <1>1, <2>11
    <3>2. tail = << >>
      BY <3>1 DEF When
    <3>3. n \in Stages
      BY <2>8, BetweenLayers
    <3> HIDE DEF tail
    <3>4. Runs(n, tail, k, n)
      BY <3>2, <3>3, RunNil
    <3>5. Runs(b, Inputs \o (body \o tail), k, n)
      BY <2>6, <2>10, <3>4, RunConcat
    <3>6. QED
      BY <2>2, <2>4, <2>8, <2>11, <3>5
  <2>12. CASE ~(k < NumGroups)
    <3>1. k >= NumGroups
      BY <1>1, <2>12
    <3>2. tail = answer
      BY <3>1 DEF When
    <3>3. prev = TotalLayers /\ here = TotalLayers
      BY <2>2, <3>1
    <3>4. Headable(n, k)
      BY <1>1, <1>3, <2>8, <3>3, BetweenHeadable
    <3>5. PICK e : Runs(n, << Do("HEAD_INFERENCE") >>, k, e) /\ e.out = TotalLayers /\ e.in = k
                   /\ e \in Stages
      BY <3>4, HeadRun DEF Suited
    <3>6. PICK d : Runs(e, Respond, k, d) /\ Served(d, e.in)
      BY <3>5, RespondRun
    <3>7. When(CorrectionOn /\ prev < TotalLayers, << Correct(TotalLayers, k) >>) = << >>
      BY <1>1, <3>3 DEF When
    <3>8. n \in Stages
      BY <2>8, BetweenLayers
    <3>9. Runs(n, When(CorrectionOn /\ prev < TotalLayers, << Correct(TotalLayers, k) >>), k, n)
      BY <3>7, <3>8, RunNil
    <3>10. Runs(n, answer, k, d)
      BY <3>5, <3>6, <3>9, RunConcat
    <3> HIDE DEF answer, tail
    <3>11. Runs(b, Inputs \o (body \o tail), k, d)
      BY <2>6, <2>10, <3>2, <3>10, RunConcat
    <3>12. QED
      BY <2>4, <2>12, <3>5, <3>6, <3>11
  <2>13. QED
    BY <2>11, <2>12
<1>6. QED
  BY <1>4, <1>5

(* ADE20KApproxCorrect and NYUApproxCorrect.                                *)
LEMMA ApproxCorrectRun ==
    ASSUME config \in Configs, Suited, Policy \in Corrects0, NEW k \in Versions, NEW b,
           k = 0 => Comes(b, 0, 0), k > 0 => Comes(b, k, TotalLayers)
    PROVE  \E d : /\ Runs(b, ApproxCorrectPlan(k), k, d)
                  /\ IF k = 0 THEN Between(d, k, TotalLayers) ELSE Served(d, k)
<1> DEFINE x == Correct(TotalLayers, 0)
           y == Do("HEAD_INFERENCE")
           correct == When(CorrectionOn, << x >>)
           answer == correct \o << y >> \o Respond
<1>1. /\ k \in 0 .. NumGroups /\ TotalLayers \in Nat /\ TotalLayers > 0
      /\ Regions = 1 .. NumGroups /\ k # None /\ TotalLayers \in 0 .. TotalLayers
  BY Sizes
<1>2. ApproxCorrectPlan(k) = Inputs \o (IF k = 0 THEN << Approx(0, TotalLayers) >> ELSE answer)
  BY DEF ApproxCorrectPlan
<1>3. GlobalMode # "global_first" /\ GlobalMode # "final_correct"
  BY SuitedModes DEF Modes, Together, Corrects0
<1>4. CASE k = 0
  <2>1. PICK c : Runs(b, Inputs, 0, c) /\ Fed(c, 0, 0) /\ WholeFits(c)
    BY <1>3, <1>4, FedRun
  <2>2. Between(c, 0, 0) /\ 0 # None
    BY <1>1, <1>4, <2>1 DEF Between, Fed
  <2>3. PICK d : Runs(c, << Approx(0, TotalLayers) >>, 0, d) /\ Between(d, 0, TotalLayers)
    BY <1>1, <2>2, GoOn
  <2>4. Runs(b, Inputs \o << Approx(0, TotalLayers) >>, 0, d)
    BY <2>1, <2>3, RunConcat
  <2>5. QED
    BY <1>2, <1>4, <2>3, <2>4
<1>5. CASE k # 0
  <2>1. k \in Regions /\ k > 0 /\ Corrigible(0, k)
    <3>1. k \in Regions /\ k > 0
      BY <1>1, <1>5
    <3>2. ExecutorName \in Denses \cup {"vggt"}
      BY DEF Suited
    <3>3. QED
      BY <3>1, <3>2 DEF Corrigible
  <2>2. PICK c : Runs(b, Inputs, k, c) /\ Fed(c, k, TotalLayers) /\ WholeFits(c)
    BY <1>3, <2>1, FedRun
  <2>3. PICK m : Runs(c, << x >>, k, m) /\ Between(m, k, TotalLayers)
    BY <1>1, <2>1, <2>2, CorrectRun
  <2>4. Headable(m, k)
    BY <1>1, <1>3, <2>3, BetweenHeadable
  <2>5. PICK e : Runs(m, << y >>, k, e) /\ e.out = TotalLayers /\ e.in = k /\ e \in Stages
    BY <2>4, HeadRun DEF Suited
  <2>6. PICK d : Runs(e, Respond, k, d) /\ Served(d, e.in)
    BY <2>5, RespondRun
  <2>7. correct = << x >>
    BY DEF Suited, When
  <2> HIDE DEF correct, x, y
  <2>8. Runs(c, correct \o << y >>, k, e)
    BY <2>3, <2>5, <2>7, RunConcat
  <2>9. Runs(c, answer, k, d)
    BY <2>6, <2>8, RunConcat
  <2> HIDE DEF answer
  <2>10. Runs(b, Inputs \o answer, k, d)
    BY <2>2, <2>9, RunConcat
  <2>11. QED
    BY <1>2, <1>5, <2>5, <2>6, <2>10
<1>6. QED
  BY <1>4, <1>5

(* The policies that keep a frontier.                                       *)
LEMMA FirstRun ==
    ASSUME config \in Configs, NEW st, NEW k \in Versions, NEW b, Comes(b, k, st.latest),
           NEW cond \in BOOLEAN, cond <=> (GlobalMode = "global_first")
    PROVE  \E c : /\ Runs(b, Inputs, k, c)
                  /\ \E d : /\ Runs(c, IF k = 0 THEN When(cond, << GlobalApprox >>)
                                       ELSE CorrectQueued(st, k), k, d)
                            /\ Between(d, k, st.latest)
<1>1. CASE k = 0
  <2>1. st.latest = 0 /\ b = Start
    BY <1>1, Sizes DEF Comes
  <2>2. PICK c : Runs(b, Inputs, 0, c) /\ Fed(c, 0, 0)
    BY <2>1, InputsStart
  <2>3. \E d : Runs(c, When(cond, << GlobalApprox >>), 0, d) /\ Between(d, 0, 0)
    BY <2>2, CoverFirst
  <2>4. QED
    BY <1>1, <2>1, <2>2, <2>3
<1>2. CASE k # 0
  <2>1. Corrigible(k, k)
    BY <1>2, Sizes DEF Corrigible
  <2>2. \E c : /\ Runs(b, Inputs, k, c)
               /\ \E d : Runs(c, When(st.latest > 0, << Correct(st.latest, k) >>), k, d)
                         /\ Between(d, k, st.latest)
    BY <1>2, <2>1, CorrectedRun
  <2>3. QED
    BY <1>2, <2>2 DEF CorrectQueued
<1>3. QED
  BY <1>1, <1>2

(* The layers that are left, and the answer.                                *)
LEMMA CompletionRun ==
    ASSUME config \in Configs, Suited, NEW st, NEW k \in Regions, NEW b, Comes(b, k, st.latest),
           NEW cond \in BOOLEAN, GlobalMode = "final_correct" => cond, cond => Detecting
    PROVE  \E d : /\ Runs(b, Completion(st, k) \o When(cond, << GlobalApprox >>) \o Finish, k, d)
                  /\ Served(d, k)
<1>1. k # 0 /\ k # None /\ TotalLayers \in Nat /\ Corrigible(k, k)
  BY Sizes DEF Corrigible
<1>2. PICK c : /\ Runs(b, Inputs, k, c)
               /\ \E d : Runs(c, When(st.latest > 0, << Correct(st.latest, k) >>), k, d)
                         /\ Between(d, k, st.latest)
  BY <1>1, CorrectedRun
<1>3. PICK m : Runs(c, CorrectQueued(st, k), k, m) /\ Between(m, k, st.latest)
  BY <1>2 DEF CorrectQueued
<1>4. st.latest \in 0 .. TotalLayers
  BY <1>3, BetweenLayers
<1>5. TotalLayers \in st.latest .. TotalLayers
  BY <1>1, <1>4
<1>6. PICK n : Runs(m, When(st.latest < TotalLayers, << Approx(st.latest, TotalLayers) >>), k, n)
               /\ Between(n, k, TotalLayers)
  BY <1>1, <1>3, <1>5, GoOnWhen
<1>7. PICK e : Runs(n, When(cond, << GlobalApprox >>), k, e) /\ Headable(e, k)
  BY <1>1, <1>6, CoverLast
<1>8. PICK d : Runs(e, Finish, k, d) /\ Served(d, k)
  BY <1>7, FinishRun DEF Suited
<1>9. Runs(b, Completion(st, k), k, n)
  BY <1>2, <1>3, <1>6, RunConcat DEF Completion
<1>10. QED
  BY <1>7, <1>8, <1>9, RunConcat

LEMMA GoOnMax ==
    ASSUME config \in Configs, NEW c, NEW k, NEW l, NEW hi \in 0 .. TotalLayers, NEW v,
           Between(c, k, l), k # None
    PROVE  \E d : Runs(c, When(l < hi, << Approx(l, hi) >>), v, d) /\ Between(d, k, Max({l, hi}))
<1>1. l \in 0 .. TotalLayers /\ TotalLayers \in Nat /\ c \in Stages
  BY BetweenLayers, Sizes
<1>2. Max({l, hi}) = IF l >= hi THEN l ELSE hi
  BY <1>1, MaxPair
<1>3. CASE l < hi
  <2>1. hi \in l .. TotalLayers /\ hi \in Nat /\ Max({l, hi}) = hi
    BY <1>1, <1>2, <1>3
  <2>2. QED
    BY <2>1, GoOnWhen
<1>4. CASE ~(l < hi)
  <2>1. When(l < hi, << Approx(l, hi) >>) = << >>
    BY <1>4 DEF When
  <2>2. Max({l, hi}) = l
    BY <1>1, <1>2, <1>4
  <2>3. QED
    BY <1>1, <2>1, <2>2, RunNil
<1>5. QED
  BY <1>3, <1>4

(* COCOWindowInterleaved.                                                   *)
LEMMA COCOStaticRun ==
    ASSUME config \in Configs, Suited, NEW st, NEW k \in Versions, NEW b, Comes(b, k, st.latest)
    PROVE  \E d : /\ Runs(b, COCOStaticPlan(st, k).instrs, k, d)
                  /\ IF k < NumGroups THEN Between(d, k, COCOStaticPlan(st, k).latest)
                     ELSE Served(d, k)
<1> DEFINE end == Boundary(NumGroups, IF k < NumGroups THEN k + 1 ELSE NumGroups)
           first == IF k = 0 THEN When(GlobalMode = "global_first", << GlobalApprox >>)
                             ELSE CorrectQueued(st, k)
           last == When(st.latest < end, << Approx(st.latest, end) >>)
           body == Inputs \o first \o last
           tail == Completion(st, k) \o When(GlobalMode = "final_correct", << GlobalApprox >>)
                   \o Finish
<1>1. /\ k \in 0 .. NumGroups /\ NumGroups \in Nat \ {0} /\ Regions = 1 .. NumGroups /\ k # None
  BY Sizes
<1>2. COCOStaticPlan(st, k) = IF k < NumGroups THEN Plan(body, Max({st.latest, end}))
                              ELSE Plan(tail, TotalLayers)
  BY DEF COCOStaticPlan
<1>3. CASE k < NumGroups
  <2>1. end \in 0 .. TotalLayers
    <3>1. (IF k < NumGroups THEN k + 1 ELSE NumGroups) \in 0 .. NumGroups
      BY <1>1
    <3>2. QED
      BY <1>1, <3>1, BoundaryType
  <2>2. /\ COCOStaticPlan(st, k).instrs = body
        /\ COCOStaticPlan(st, k).latest = Max({st.latest, end})
    <3> HIDE DEF body, tail, end
    <3>1. QED
      BY <1>2, <1>3 DEF Plan
  <2> HIDE DEF end
  <2>3. PICK c : /\ Runs(b, Inputs, k, c)
                 /\ \E d : Runs(c, first, k, d) /\ Between(d, k, st.latest)
    BY FirstRun
  <2>4. PICK m : Runs(c, first, k, m) /\ Between(m, k, st.latest)
    BY <2>3
  <2>5. PICK d : Runs(m, last, k, d) /\ Between(d, k, Max({st.latest, end}))
    BY <1>1, <2>1, <2>4, GoOnMax
  <2> HIDE DEF first, last
  <2>6. Runs(b, body, k, d)
    BY <2>3, <2>4, <2>5, RunConcat
  <2>7. QED
    BY <1>3, <2>2, <2>5, <2>6
<1>4. CASE ~(k < NumGroups)
  <2>1. COCOStaticPlan(st, k).instrs = tail
    BY <1>2, <1>4 DEF Plan
  <2>2. k \in Regions
    BY <1>1, <1>4
  <2>3. (GlobalMode = "final_correct") => Detecting
    BY Sizes
  <2>4. \E d : Runs(b, tail, k, d) /\ Served(d, k)
    BY <2>2, <2>3, CompletionRun
  <2>5. QED
    BY <1>4, <2>1, <2>4
<1>5. QED
  BY <1>3, <1>4

(* ADE20KInterleavedDynamic and COCOWindowDynamic.                          *)
LEMMA FeedbackRun ==
    ASSUME config \in Configs, Suited, Policy \in {"ADE20KInterleavedDynamic", "COCOWindowDynamic"},
           NEW st \in PolicyType(config), NEW k \in Versions,
           NEW done \in Int, done = None \/ done >= 0,
           NEW b, Comes(b, k, st.latest),
           k = 0 => st.group = 0, EarlyExit /\ k # 0 => st.latest > 0
    PROVE  \E d : /\ Runs(b, FeedbackPlan(st, k, done).instrs, k, d)
                  /\ IF k < st.n
                     THEN /\ Between(d, k, FeedbackPlan(st, k, done).latest)
                          /\ EarlyExit => FeedbackPlan(st, k, done).latest > 0
                     ELSE Served(d, k)
<1> DEFINE j == IF k = 0 THEN MoreApprox(st, IF done = None THEN 0 ELSE done)
                ELSE IF done = None THEN 0 ELSE MoreApprox(st, done)
           ade20k == Policy = "ADE20KInterleavedDynamic"
           early == ~ade20k /\ GlobalMode = "global_first"
           late == ~ade20k /\ GlobalMode = "final_correct"
           first == IF k = 0 THEN When(early, << GlobalApprox >>) ELSE CorrectQueued(st, k)
           body == Inputs \o first \o SingleLayers(st.latest, j) \o When(k > 0 /\ ade20k, ExitCheck)
           tail == Completion(st, k) \o When(late, << GlobalApprox >>) \o Finish
<1>1. /\ k \in 0 .. NumGroups /\ NumGroups \in Nat \ {0} /\ Regions = 1 .. NumGroups /\ k # None
      /\ TotalLayers \in Nat \ {0} /\ st.latest \in 0 .. TotalLayers /\ st.n \in Nat \ {0}
      /\ None = -1 /\ AheadLayers \in Nat
  BY Sizes, Configured DEF PolicyType, TotalLayers
<1>2. FeedbackPlan(st, k, done) = IF k < st.n THEN Plan(body, st.latest + j)
                                  ELSE Plan(tail, TotalLayers)
  BY DEF FeedbackPlan
<1>3. /\ early <=> (GlobalMode = "global_first")
      /\ late <=> (GlobalMode = "final_correct")
      /\ early \in BOOLEAN /\ late \in BOOLEAN
  BY SuitedModes DEF Modes, Together
<1>4. j \in 0 .. TotalLayers - st.latest
  <2>1. \A i \in Int : MoreApprox(st, i) \in 0 .. TotalLayers - st.latest
    BY MoreApproxType
  <2>2. 0 \in 0 .. TotalLayers - st.latest /\ (IF done = None THEN 0 ELSE done) \in Int
    BY <1>1
  <2>3. QED
    BY <2>1, <2>2
<1>5. ASSUME EarlyExit PROVE st.latest + j > 0
  <2>1. CASE k # 0
    BY <1>1, <1>4, <1>5, <2>1
  <2>2. CASE k = 0
    <3> DEFINE i == IF done = None THEN 0 ELSE done
               ahead == AheadLayers - (st.latest - i)
               left == TotalLayers - st.latest
    <3>1. st.latest = 0 /\ st.group = 0 /\ AheadLayers > 0
      BY <1>1, <1>5, <2>2 DEF Comes, Suited, DynamicPolicies
    <3>2. i \in Int /\ i >= 0
      BY <1>1
    <3>3. j = MoreApprox(st, i)
      BY <2>2
    <3>4. MoreApprox(st, i) = Max({0, Min({ahead, left})})
      BY <1>1, <3>1 DEF MoreApprox
    <3> HIDE DEF i
    <3>5. ahead \in Int /\ left \in Int /\ ahead > 0 /\ left > 0
      BY <1>1, <3>1, <3>2
    <3> HIDE DEF ahead, left, j
    <3>6. Min({ahead, left}) = IF ahead <= left THEN ahead ELSE left
      BY <3>5, MinPair
    <3>7. Min({ahead, left}) \in Int /\ Min({ahead, left}) > 0
      BY <3>5, <3>6
    <3>8. Max({0, Min({ahead, left})}) = IF 0 >= Min({ahead, left}) THEN 0 ELSE Min({ahead, left})
      <4>1. 0 \in Int
        OBVIOUS
      <4>2. QED
        BY <3>7, <4>1, MaxPair
    <3>9. j > 0
      BY <3>3, <3>4, <3>7, <3>8
    <3>10. QED
      BY <3>1, <3>9, <1>4
  <2>3. QED
    BY <2>1, <2>2
<1> HIDE DEF j
<1>6. CASE k < st.n
  <2>1. FeedbackPlan(st, k, done).instrs = body /\ FeedbackPlan(st, k, done).latest = st.latest + j
    <3> HIDE DEF body, tail
    <3>1. QED
      BY <1>2, <1>6 DEF Plan
  <2> HIDE DEF ade20k, early
  <2>2. PICK c : /\ Runs(b, Inputs, k, c)
                 /\ \E d : Runs(c, first, k, d) /\ Between(d, k, st.latest)
    BY <1>3, FirstRun
  <2>3. PICK m : Runs(c, first, k, m) /\ Between(m, k, st.latest)
    BY <2>2
  <2>4. PICK n : Runs(m, SingleLayers(st.latest, j), k, n) /\ Between(n, k, st.latest + j)
    BY <1>1, <1>4, <2>3, SinglesRun
  <2>5. PICK d : Runs(n, When(k > 0 /\ ade20k, ExitCheck), k, d) /\ Between(d, k, st.latest + j)
    <3>1. CASE k > 0 /\ ade20k
      <4>1. When(k > 0 /\ ade20k, ExitCheck) = ExitCheck
        BY <3>1 DEF When
      <4>2. QED
        BY <1>1, <1>5, <2>4, <4>1, ExitRun
    <3>2. CASE ~(k > 0 /\ ade20k)
      <4>1. When(k > 0 /\ ade20k, ExitCheck) = << >>
        BY <3>2 DEF When
      <4>2. QED
        BY <2>4, <4>1, BetweenLayers, RunNil
    <3>3. QED
      BY <3>1, <3>2
  <2> HIDE DEF first
  <2>6. Runs(b, body, k, d)
    BY <2>2, <2>3, <2>4, <2>5, RunConcat
  <2> HIDE DEF body
  <2>7. QED
    BY <1>5, <1>6, <2>1, <2>5, <2>6
<1>7. CASE ~(k < st.n)
  <2>1. FeedbackPlan(st, k, done).instrs = tail
    BY <1>2, <1>7 DEF Plan
  <2>2. k \in Regions
    BY <1>1, <1>7
  <2>3. (GlobalMode = "final_correct") => Detecting
    BY Sizes
  <2> HIDE DEF late
  <2>4. \E d : Runs(b, tail, k, d) /\ Served(d, k)
    BY <1>3, <2>2, <2>3, CompletionRun
  <2>5. QED
    BY <1>7, <2>1, <2>4
<1>8. QED
  BY <1>6, <1>7

(* DynamicGroupTrigger.                                                     *)
LEMMA DynamicRun ==
    ASSUME config \in Configs, Suited, Policy = "DynamicGroupTrigger",
           NEW st \in PolicyType(config), NEW k \in Versions, NEW b, Comes(b, k, st.latest)
    PROVE  \E d : /\ Runs(b, DynamicPlan(st, k).instrs, k, d)
                  /\ IF k < NumGroups
                     THEN /\ Between(d, k, DynamicPlan(st, k).latest)
                          /\ EarlyExit => DynamicPlan(st, k).latest > 0
                     ELSE Served(d, k)
<1> DEFINE j == IF st.latest = 0 THEN Min({AheadLayers, TotalLayers}) ELSE 0
           body == Inputs \o CorrectQueued(st, k) \o SingleLayers(st.latest, j) \o ExitCheck
           tail == Completion(st, k) \o When(GlobalMode = "final_correct", << GlobalApprox >>)
                   \o Finish
<1>1. /\ k \in 0 .. NumGroups /\ NumGroups \in Nat \ {0} /\ Regions = 1 .. NumGroups /\ k # None
      /\ TotalLayers \in Nat \ {0} /\ st.latest \in 0 .. TotalLayers
      /\ None = -1 /\ AheadLayers \in Nat
  BY Sizes, Configured DEF PolicyType, TotalLayers
<1>2. DynamicPlan(st, k) = IF k < NumGroups THEN Plan(body, st.latest + j) ELSE Plan(tail, st.latest)
  BY DEF DynamicPlan
<1>3. GlobalMode # "global_first"
  BY SuitedModes DEF Modes
<1>4. j \in 0 .. TotalLayers - st.latest
  BY <1>1, MinPair
<1>5. ASSUME EarlyExit PROVE st.latest + j > 0
  <2>1. AheadLayers > 0
    BY <1>5 DEF Suited, DynamicPolicies
  <2>2. QED
    BY <1>1, <2>1, MinPair
<1> HIDE DEF j
<1>6. k \in Regions => Corrigible(k, k)
  BY DEF Corrigible
<1>7. CASE k < NumGroups
  <2>1. DynamicPlan(st, k).instrs = body /\ DynamicPlan(st, k).latest = st.latest + j
    BY <1>2, <1>7 DEF Plan
  <2>2. PICK c : /\ Runs(b, Inputs, k, c)
                 /\ \E d : Runs(c, When(st.latest > 0, << Correct(st.latest, k) >>), k, d)
                           /\ Between(d, k, st.latest)
    BY <1>3, <1>6, CorrectedRun
  <2>3. PICK m : Runs(c, CorrectQueued(st, k), k, m) /\ Between(m, k, st.latest)
    BY <2>2 DEF CorrectQueued
  <2>4. PICK n : Runs(m, SingleLayers(st.latest, j), k, n) /\ Between(n, k, st.latest + j)
    BY <1>1, <1>4, <2>3, SinglesRun
  <2>5. PICK d : Runs(n, ExitCheck, k, d) /\ Between(d, k, st.latest + j)
    BY <1>1, <1>5, <2>4, ExitRun
  <2>6. Runs(b, body, k, d)
    BY <2>2, <2>3, <2>4, <2>5, RunConcat
  <2> HIDE DEF body
  <2>7. QED
    BY <1>5, <1>7, <2>1, <2>5, <2>6
<1>8. CASE ~(k < NumGroups)
  <2>1. DynamicPlan(st, k).instrs = tail
    BY <1>2, <1>8 DEF Plan
  <2>2. k \in Regions
    BY <1>1, <1>8
  <2>3. (GlobalMode = "final_correct") => Detecting
    BY Sizes
  <2>4. \E d : Runs(b, tail, k, d) /\ Served(d, k)
    BY <2>2, <2>3, CompletionRun
  <2>5. QED
    BY <1>8, <2>1, <2>4
<1>9. QED
  BY <1>7, <1>8

-----------------------------------------------------------------------------
(* Where a request is between two tasks, k being the last group it has      *)
(* been given: answered, or the policy's layers done.                       *)
Front(st, k) ==
    CASE Policy = "GroupTrigger" -> (k + 1) * (TotalLayers \div NumGroups)
      [] Policy = "ADE20KWindowInterleaved" -> Boundary(st.n, k + 1)
      [] Policy = "VGGTInterleaved" -> VGGTBound(k + 1)
      [] Policy \in Corrects0 -> TotalLayers
      [] OTHER -> st.latest
AtRest(st, k, b) ==
    IF Concludes(st, k) THEN Served(b, k)
    ELSE /\ Between(b, k, Front(st, k))
         /\ EarlyExit /\ Policy \in DynamicPolicies => st.latest > 0
Coming(st, k, b) ==
    \/ k = 0 /\ b = Start /\ st.latest = 0
    \/ k \in Regions /\ ~Concludes(st, k - 1) /\ AtRest(st, k - 1, b)
Ahead(st, l) == [st EXCEPT !.latest = l]

(* How far each policy is between two groups, and when it concludes.        *)
LEMMA Fronts ==
    ASSUME NEW st, NEW k
    PROVE  /\ Policy = "GroupTrigger" => Front(st, k) = (k + 1) * (TotalLayers \div NumGroups)
           /\ Policy = "ADE20KWindowInterleaved" => Front(st, k) = Boundary(st.n, k + 1)
           /\ Policy = "VGGTInterleaved" => Front(st, k) = VGGTBound(k + 1)
           /\ Policy \in Corrects0 => Front(st, k) = TotalLayers
           /\ Policy \in DynamicPolicies \cup {"COCOWindowInterleaved"} => Front(st, k) = st.latest
  BY DEF Front, Corrects0, DynamicPolicies

LEMMA Conclusions ==
    ASSUME NEW st, NEW k
    PROVE  /\ Policy \in {"GroupTrigger", "VGGTInterleaved", "COCOWindowInterleaved",
                          "DynamicGroupTrigger"} => (Concludes(st, k) <=> k >= NumGroups)
           /\ Policy \in {"ADE20KWindowInterleaved", "ADE20KInterleavedDynamic",
                          "COCOWindowDynamic"} => (Concludes(st, k) <=> k >= st.n)
           /\ Policy \in Corrects0 => (Concludes(st, k) <=> k # 0)
  BY DEF Concludes, Corrects0

LEMMA AheadFields ==
    ASSUME NEW st \in PolicyType(config), NEW l
    PROVE  /\ Ahead(st, l).latest = l /\ Ahead(st, l).n = st.n /\ Ahead(st, l).group = st.group
           /\ Ahead(st, l).req = st.req
  BY DEF Ahead, PolicyType

(* The stage at which the policy rests.                                     *)
LEMMA AtRestStage ==
    ASSUME NEW st, NEW k, NEW b, AtRest(st, k, b)
    PROVE  b \in Stages
  BY DEF AtRest, Served, Between

(* Every plan of a group-driven policy takes the request to rest.           *)
LEMMA PlanRuns ==
    ASSUME config \in Configs, Suited, Policy \notin CountPolicies,
           NEW st \in PolicyType(config), NEW k \in Versions, st.group = k,
           NEW done \in Int, done = None \/ done >= 0, NEW b, Coming(st, k, b)
    PROVE  \E d : /\ Runs(b, PlanFor(st, k, done).instrs, k, d)
                  /\ AtRest(Ahead(st, PlanFor(st, k, done).latest), k, d)
<1> DEFINE plan == PlanFor(st, k, done)
           next == Ahead(st, plan.latest)
<1>1. /\ k \in 0 .. NumGroups /\ NumGroups \in Nat \ {0} /\ Regions = 1 .. NumGroups
      /\ TotalLayers \in Nat \ {0} /\ st.n \in Nat \ {0}
      /\ Policy \in GroupPolicies \cup DynamicPolicies
  BY Sizes, Configured DEF PolicyType
<1>2. next.latest = plan.latest /\ next.n = st.n
  BY AheadFields
<1>3. \/ k = 0 /\ b = Start /\ st.latest = 0
      \/ k \in Regions /\ ~Concludes(st, k - 1) /\ Between(b, k - 1, Front(st, k - 1))
         /\ (EarlyExit /\ Policy \in DynamicPolicies => st.latest > 0)
  BY DEF Coming, AtRest
<1>4. k # 0 => k \in Regions /\ (k - 1) + 1 = k
  BY <1>1
<1>5. CASE Policy = "GroupTrigger"
  <2>1. plan.instrs = GroupTriggerPlan(k)
    BY <1>5 DEF PlanFor, Plan
  <2>2. /\ Concludes(next, k) <=> k >= NumGroups
        /\ Front(next, k) = (k + 1) * (TotalLayers \div NumGroups)
        /\ Front(st, k - 1) = ((k - 1) + 1) * (TotalLayers \div NumGroups)
    <3> HIDE DEF next
    <3>1. QED
      BY <1>5, Fronts, Conclusions
  <2>3. 0 * (TotalLayers \div NumGroups) = 0
    BY <1>1, Division
  <2>4. Comes(b, k, k * (TotalLayers \div NumGroups))
    BY <1>3, <1>4, <2>2, <2>3 DEF Comes
  <2>5. PICK d : /\ Runs(b, GroupTriggerPlan(k), k, d)
                 /\ IF k < NumGroups THEN Between(d, k, (k + 1) * (TotalLayers \div NumGroups))
                    ELSE Served(d, k)
    BY <1>5, <2>4, GroupTriggerRun
  <2> HIDE DEF plan, next
  <2>6. AtRest(next, k, d)
    BY <1>1, <1>5, <2>2, <2>5 DEF AtRest, DynamicPolicies
  <2>7. QED
    BY <2>1, <2>5, <2>6 DEF plan, next
<1>6. CASE Policy = "ADE20KWindowInterleaved"
  <2>1. plan.instrs = WindowPlan(st, k)
    BY <1>6 DEF PlanFor, Plan
  <2>2. /\ Concludes(next, k) <=> k >= st.n
        /\ Concludes(st, k - 1) <=> k - 1 >= st.n
        /\ Front(next, k) = Boundary(st.n, k + 1)
        /\ Front(st, k - 1) = Boundary(st.n, (k - 1) + 1)
    <3> HIDE DEF next
    <3>1. QED
      BY <1>2, <1>6, Fronts, Conclusions
  <2>3. Boundary(st.n, 0) = 0
    <3>1. 0 \in 0 .. st.n
      BY <1>1
    <3>2. QED
      BY <1>1, <3>1, BoundaryType
  <2>4. Comes(b, k, Boundary(st.n, k)) /\ k <= st.n
    BY <1>1, <1>3, <1>4, <2>2, <2>3 DEF Comes
  <2>5. PICK d : /\ Runs(b, WindowPlan(st, k), k, d)
                 /\ IF k < st.n THEN Between(d, k, Boundary(st.n, k + 1)) ELSE Served(d, k)
    BY <1>1, <1>6, <2>4, WindowRun
  <2> HIDE DEF plan, next
  <2>6. AtRest(next, k, d)
    BY <1>1, <1>6, <2>2, <2>5 DEF AtRest, DynamicPolicies
  <2>7. QED
    BY <2>1, <2>5, <2>6 DEF plan, next
<1>7. CASE Policy = "VGGTInterleaved"
  <2>1. plan.instrs = VGGTPlan(k)
    BY <1>7 DEF PlanFor, Plan
  <2>2. /\ Concludes(next, k) <=> k >= NumGroups
        /\ Front(next, k) = VGGTBound(k + 1)
        /\ Front(st, k - 1) = VGGTBound((k - 1) + 1)
    <3> HIDE DEF next
    <3>1. QED
      BY <1>7, Fronts, Conclusions
  <2>3. (k = 0 => Comes(b, 0, 0)) /\ (k > 0 => Comes(b, k, VGGTBound(k)))
    BY <1>1, <1>3, <1>4, <2>2 DEF Comes
  <2>4. PICK d : /\ Runs(b, VGGTPlan(k), k, d)
                 /\ IF k < NumGroups THEN Between(d, k, VGGTBound(k + 1)) ELSE Served(d, k)
    BY <1>7, <2>3, VGGTRun
  <2> HIDE DEF plan, next
  <2>5. AtRest(next, k, d)
    BY <1>1, <1>7, <2>2, <2>4 DEF AtRest, DynamicPolicies
  <2>6. QED
    BY <2>1, <2>4, <2>5 DEF plan, next
<1>8. CASE Policy \in Corrects0
  <2>1. plan.instrs = ApproxCorrectPlan(k)
    BY <1>8 DEF PlanFor, Plan, Corrects0
  <2>2. /\ Concludes(next, k) <=> k # 0
        /\ Front(next, k) = TotalLayers /\ Front(st, k - 1) = TotalLayers
    BY <1>8 DEF Concludes, Front, Corrects0
  <2>3. (k = 0 => Comes(b, 0, 0)) /\ (k > 0 => Comes(b, k, TotalLayers))
    BY <1>1, <1>3, <2>2 DEF Comes
  <2>4. PICK d : /\ Runs(b, ApproxCorrectPlan(k), k, d)
                 /\ IF k = 0 THEN Between(d, k, TotalLayers) ELSE Served(d, k)
    BY <1>8, <2>3, ApproxCorrectRun
  <2> HIDE DEF plan, next
  <2>5. AtRest(next, k, d)
    BY <1>8, <2>2, <2>4 DEF AtRest, DynamicPolicies, Corrects0
  <2>6. QED
    BY <2>1, <2>4, <2>5 DEF plan, next
<1>9. CASE Policy = "COCOWindowInterleaved"
  <2>1. plan = COCOStaticPlan(st, k)
    BY <1>9 DEF PlanFor
  <2>2. /\ Concludes(next, k) <=> k >= NumGroups
        /\ Front(next, k) = plan.latest /\ Front(st, k - 1) = st.latest
    <3> HIDE DEF next, plan
    <3>1. QED
      BY <1>2, <1>9 DEF Concludes, Front, Corrects0
  <2>3. Comes(b, k, st.latest)
    BY <1>3, <2>2 DEF Comes
  <2>4. PICK d : /\ Runs(b, COCOStaticPlan(st, k).instrs, k, d)
                 /\ IF k < NumGroups THEN Between(d, k, COCOStaticPlan(st, k).latest)
                    ELSE Served(d, k)
    BY <2>3, COCOStaticRun
  <2> HIDE DEF plan, next
  <2>5. AtRest(next, k, d)
    BY <1>1, <1>9, <2>1, <2>2, <2>4 DEF AtRest, DynamicPolicies
  <2>6. QED
    BY <2>1, <2>4, <2>5 DEF plan, next
<1>10. CASE Policy = "DynamicGroupTrigger"
  <2>1. plan = DynamicPlan(st, k)
    BY <1>10 DEF PlanFor
  <2>2. /\ Concludes(next, k) <=> k >= NumGroups
        /\ Front(next, k) = plan.latest /\ Front(st, k - 1) = st.latest
    <3> HIDE DEF next, plan
    <3>1. QED
      BY <1>2, <1>10 DEF Concludes, Front, Corrects0
  <2>3. Comes(b, k, st.latest)
    BY <1>3, <2>2 DEF Comes
  <2>4. PICK d : /\ Runs(b, DynamicPlan(st, k).instrs, k, d)
                 /\ IF k < NumGroups
                    THEN /\ Between(d, k, DynamicPlan(st, k).latest)
                         /\ EarlyExit => DynamicPlan(st, k).latest > 0
                    ELSE Served(d, k)
    BY <1>10, <2>3, DynamicRun
  <2> HIDE DEF plan, next
  <2>5. AtRest(next, k, d)
    BY <1>1, <1>2, <2>1, <2>2, <2>4 DEF AtRest
  <2>6. QED
    BY <2>1, <2>4, <2>5 DEF plan, next
<1>11. CASE Policy \in {"ADE20KInterleavedDynamic", "COCOWindowDynamic"}
  <2>1. plan = FeedbackPlan(st, k, done)
    BY <1>11 DEF PlanFor
  <2>2. /\ Concludes(next, k) <=> k >= st.n
        /\ Front(next, k) = plan.latest /\ Front(st, k - 1) = st.latest
    <3> HIDE DEF next, plan
    <3>1. QED
      BY <1>2, <1>11 DEF Concludes, Front, Corrects0
  <2>3. Comes(b, k, st.latest)
    BY <1>3, <2>2 DEF Comes
  <2>4. (k = 0 => st.group = 0) /\ (EarlyExit /\ k # 0 => st.latest > 0)
    BY <1>3, <1>11 DEF DynamicPolicies
  <2>5. PICK d : /\ Runs(b, FeedbackPlan(st, k, done).instrs, k, d)
                 /\ IF k < st.n
                    THEN /\ Between(d, k, FeedbackPlan(st, k, done).latest)
                         /\ EarlyExit => FeedbackPlan(st, k, done).latest > 0
                    ELSE Served(d, k)
    BY <1>11, <2>3, <2>4, FeedbackRun
  <2> HIDE DEF plan, next
  <2>6. AtRest(next, k, d)
    BY <1>1, <1>2, <2>1, <2>2, <2>5 DEF AtRest
  <2>7. QED
    BY <2>1, <2>5, <2>6 DEF plan, next
<1>12. QED
  BY <1>1, <1>5, <1>6, <1>7, <1>8, <1>9, <1>10, <1>11 DEF GroupPolicies, DynamicPolicies, Corrects0

(* Speculation between two groups does too.                                 *)
LEMMA SpeculationRuns ==
    ASSUME config \in Configs, Policy \in DynamicPolicies, NEW st \in PolicyType(config),
           NEW k \in Versions, NEW b, AtRest(st, k, b), ~Concludes(st, k),
           NEW j \in 0 .. TotalLayers - st.latest, NEW v
    PROVE  \E d : /\ Runs(b, SingleLayers(st.latest, j), v, d)
                  /\ AtRest(Ahead(st, st.latest + j), k, d)
<1> DEFINE next == Ahead(st, st.latest + j)
<1>1. next.latest = st.latest + j /\ next.n = st.n
  BY AheadFields
<1>2. st.latest \in 0 .. TotalLayers /\ k # None /\ TotalLayers \in Nat
  BY Sizes DEF PolicyType, TotalLayers
<1> HIDE DEF next
<1>3. Front(st, k) = st.latest /\ Front(next, k) = st.latest + j /\ ~Concludes(next, k)
  BY <1>1 DEF Front, Concludes, DynamicPolicies, Corrects0
<1>4. Between(b, k, st.latest) /\ (EarlyExit => st.latest > 0)
  BY <1>3 DEF AtRest
<1>5. PICK d : Runs(b, SingleLayers(st.latest, j), v, d) /\ Between(d, k, st.latest + j)
  BY <1>2, <1>4, SinglesRun
<1>6. EarlyExit => next.latest > 0
  BY <1>1, <1>2, <1>4
<1>7. AtRest(next, k, d)
  BY <1>3, <1>5, <1>6 DEF AtRest
<1>8. QED
  BY <1>5, <1>7 DEF next

(* The one plan of the counting policies.                                   *)
LEMMA WholeModels ==
    /\ Policy = "ADE20KSequential" =>
          WholeModel = Inputs \o << Approx(0, TotalLayers), Do("HEAD_INFERENCE") >> \o Respond
    /\ Policy = "BatchCountBased" /\ ApproxOnly =>
          WholeModel = Inputs \o << Approx(0, TotalLayers) >> \o Finish
  BY DEF WholeModel

(* The whole model over a whole request.                                    *)
LEMMA WholeModelRuns ==
    ASSUME config \in Configs, Suited, Policy \in CountPolicies, NEW k \in Versions
    PROVE  \E d : Runs(Start, WholeModel, k, d) /\ Served(d, k)
<1> DEFINE x == Do("LOAD_INPUT")
           y == Do("FULL_INFERENCE")
           h == Do("HEAD_INFERENCE")
           z == Approx(0, TotalLayers)
<1>1. Start \in Stages /\ k # None /\ k \in Nat /\ TotalLayers \in Nat /\ TotalLayers > 0
      /\ TotalLayers \in 0 .. TotalLayers /\ 0 \in 0 .. TotalLayers
  BY StartMatches, Sizes
<1>2. /\ Start.in = None /\ Start.made = None /\ Start.l = 0 /\ ~Start.ans /\ Start.fresh = 0
  BY DEF Start
<1>3. LoadAllowed(Start, k)
  BY <1>2 DEF LoadAllowed
<1>4. {x, y, h, z} \subseteq InstrOf(config)
  BY <1>1, InstrType DEF Opcodes, Skippable
<1>5. CASE Policy = "BatchCountBased" /\ ~ApproxOnly
  <2> DEFINE m == Loading(Start, k)
             e == Producing(m, TotalLayers)
  <2>1. WholeModel = << x, y >> \o Respond
    BY <1>5 DEF WholeModel
  <2>2. Allowed(Start, x, k) /\ m = After(Start, x, k)
    BY <1>3, Moves
  <2>3. m \in Stages
    <3> HIDE DEF m, x
    <3>1. QED
      BY <1>1, <1>4, <2>2, AfterType
  <2>4. m.in = k
    BY <1>1 DEF Loading, Stages, StageType
  <2>5. Allowed(m, y, k) /\ e = After(m, y, k)
    <3> HIDE DEF m
    <3>1. QED
      BY <1>1, <2>4, Moves DEF Suited
  <2>6. e \in Stages /\ e.in = k /\ e.out = TotalLayers
    <3>1. e \in Stages
      <4> HIDE DEF m, e, y
      <4>1. QED
        BY <1>4, <2>3, <2>5, AfterType
    <3>2. e.in = m.in /\ e.out = TotalLayers
      <4> HIDE DEF m
      <4>1. QED
        BY <2>3 DEF Producing, Stages, StageType
    <3>3. QED
      BY <2>4, <3>1, <3>2
  <2> HIDE DEF m, e, x, y
  <2>7. Runs(Start, << x, y >>, k, e)
    BY <1>1, <1>4, <2>2, <2>5, RunTwo
  <2>8. PICK d : Runs(e, Respond, k, d) /\ Served(d, e.in)
    BY <2>6, RespondRun
  <2>9. QED
    BY <2>1, <2>6, <2>7, <2>8, RunConcat
<1>6. CASE ~(Policy = "BatchCountBased" /\ ~ApproxOnly)
  <2>1. GlobalMode # "global_first" /\ GlobalMode # "final_correct"
    BY <1>6 DEF Suited, Together, CountPolicies
  <2>2. PICK c : Runs(Start, Inputs, k, c) /\ Fed(c, k, Start.l) /\ c.whole = Start.whole
    BY <1>1, <1>2, <1>3, InputsMove
  <2>3. Between(c, k, 0)
    <3>1. c.l # TotalLayers
      BY <1>1, <1>2, <2>2 DEF Fed
    <3>2. WholeFits(c)
      BY <2>1, <3>1 DEF WholeFits
    <3>3. QED
      BY <1>2, <2>2, <3>2 DEF Between, Fed
  <2>4. PICK m : Runs(c, << z >>, k, m) /\ Between(m, k, TotalLayers)
    BY <1>1, <2>3, GoOn
  <2>5. Headable(m, k)
    BY <1>1, <2>1, <2>4, BetweenHeadable
  <2>6. CASE Policy = "ADE20KSequential"
    <3>1. WholeModel = Inputs \o << z, h >> \o Respond
      BY <2>6, WholeModels
    <3>2. PICK e : Runs(m, << h >>, k, e) /\ e.out = TotalLayers /\ e.in = k /\ e \in Stages
      BY <2>5, HeadRun DEF Suited
    <3>3. PICK d : Runs(e, Respond, k, d) /\ Served(d, e.in)
      BY <3>2, RespondRun
    <3> HIDE DEF z, h
    <3>4. << z >> \o << h >> = << z, h >>
      BY <1>4, PairConcat
    <3>5. Runs(c, << z, h >>, k, e)
      BY <2>4, <3>2, <3>4, RunConcat
    <3>6. QED
      BY <2>2, <3>1, <3>2, <3>3, <3>5, RunConcat
  <2>7. CASE Policy # "ADE20KSequential"
    <3>1. WholeModel = Inputs \o << z >> \o Finish
      BY <1>6, <2>7, WholeModels DEF CountPolicies
    <3>2. PICK d : Runs(m, Finish, k, d) /\ Served(d, k)
      BY <2>5, FinishRun DEF Suited
    <3> HIDE DEF z
    <3>3. QED
      BY <2>2, <2>4, <3>1, <3>2, RunConcat
  <2>8. QED
    BY <2>6, <2>7
<1>7. QED
  BY <1>5, <1>6

=============================================================================
