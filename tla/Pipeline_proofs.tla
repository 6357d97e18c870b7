--------------------------- MODULE Pipeline_proofs ---------------------------
(***************************************************************************)
(* The protocol between client, scheduler and worker: one request is under *)
(* way at a time, its groups become tasks one after the other, its answer  *)
(* comes last and its session is released behind it.                       *)
(***************************************************************************)
EXTENDS Pipeline, Executor_proofs

-----------------------------------------------------------------------------
(* What client and policy have to agree on: every group has a patch, and    *)
(* the policy's last group is the request's last, or one that never comes.  *)
Agreed ==
    \A c \in Configs : \A r \in DOMAIN c.groupsOf :
        /\ \A g \in 0 .. c.groupsOf[r] : c.groupSize[g] > 0
        /\ c.policy \in CountPolicies =>
              IF c.progressive THEN ~c.ungrouped /\ c.groupsOf[r] = c.groups
                               ELSE c.groupsOf[r] = 0
        /\ c.policy \notin CountPolicies =>
              /\ ~c.ungrouped
              /\ c.groupsOf[r] <= IF c.policy \in {"ADE20KApproxCorrect", "NYUApproxCorrect"}
                                  THEN 1 ELSE c.groups

(* The patches of a request, with the configuration as a parameter.         *)
PatchRecord == [req : Nat, gid : Nat, total : Nat, n : Nat]
PatchOf(c, r, g) ==
    [req |-> r, gid |-> IF c.ungrouped THEN 0 ELSE g,
     total |-> c.groupSize[g], n |-> c.groupsOf[r]]
GroupOf(c, r, g) == [i \in 1 .. c.groupSize[g] |-> PatchOf(c, r, g)]
Joined(f, c, r, n) ==
    f = [g \in 0 .. n |-> IF g = 0 THEN GroupOf(c, r, 0) ELSE f[g - 1] \o GroupOf(c, r, g)]
UpToOf(c, r) == CHOOSE f : Joined(f, c, r, c.groupsOf[r])
PatchesOf(c, r) == UpToOf(c, r)[c.groupsOf[r]]

(* Where group k begins; the group after the last one begins at the end.    *)
Offset(c, r, k) == IF k = 0 THEN 0 ELSE Len(UpToOf(c, r)[k - 1])
Size(c, r) == Len(PatchesOf(c, r))

(* They are the patches the client sends.                                   *)
LEMMA SamePatches ==
    ASSUME NEW r
    PROVE  Patches(r) = PatchesOf(config, r) /\ \A g : Group(r, g) = GroupOf(config, r, g)
  BY DEF Patches, PatchesOf, UpTo, UpToOf, Joined, Group, GroupOf, PatchOf, GroupsOf, GroupSize,
     Ungrouped

Given(c, r) == c \in Configs /\ r \in DOMAIN c.groupsOf

LEMMA GivenType ==
    ASSUME NEW c, NEW r, Given(c, r)
    PROVE  /\ c.groupsOf[r] \in Nat /\ r \in Nat /\ c.ungrouped \in BOOLEAN
           /\ \A g \in 0 .. c.groupsOf[r] : c.groupSize[g] \in Nat
<1>1. c.groupsOf \in Seq(Nat) /\ r \in DOMAIN c.groupsOf /\ c.ungrouped \in BOOLEAN
  BY PipelineAssumption DEF Given
<1>2. c.groupsOf[r] \in Nat /\ r \in Nat
  BY <1>1
<1>3. \A g \in 0 .. c.groupsOf[r] : c.groupSize[g] \in Nat
  BY PipelineAssumption DEF Given
<1>4. QED
  BY <1>1, <1>2, <1>3

(* A group is made of patches that are all alike.                           *)
LEMMA GroupOfType ==
    ASSUME NEW c, NEW r, Given(c, r), NEW g \in 0 .. c.groupsOf[r]
    PROVE  /\ GroupOf(c, r, g) \in Seq(PatchRecord) /\ Len(GroupOf(c, r, g)) = c.groupSize[g]
           /\ \A i \in 1 .. c.groupSize[g] : GroupOf(c, r, g)[i] = PatchOf(c, r, g)
           /\ PatchOf(c, r, g) \in PatchRecord
<1>1. /\ c.groupsOf[r] \in Nat /\ r \in Nat /\ c.ungrouped \in BOOLEAN
      /\ c.groupSize[g] \in Nat /\ g \in Nat
  BY GivenType
<1>2. PatchOf(c, r, g) \in PatchRecord
  BY <1>1 DEF PatchOf, PatchRecord
<1>3. QED
  BY <1>1, <1>2 DEF GroupOf

(* The groups can be put one behind the other.                              *)
Joins(f, c, r, n) ==
    /\ f \in [0 .. n -> Seq(PatchRecord)] /\ f[0] = GroupOf(c, r, 0)
    /\ \A g \in 1 .. n : f[g] = f[g - 1] \o GroupOf(c, r, g)

LEMMA JoinsNext ==
    ASSUME NEW c, NEW r, Given(c, r), NEW n \in Nat, n + 1 <= c.groupsOf[r],
           NEW f, Joins(f, c, r, n)
    PROVE  \E h : Joins(h, c, r, n + 1)
<1> DEFINE S == Seq(PatchRecord)
           d == GroupOf(c, r, n + 1)
           h == [g \in 0 .. n + 1 |-> IF g = n + 1 THEN f[n] \o d ELSE f[g]]
<1>1. f \in [0 .. n -> S] /\ f[0] = GroupOf(c, r, 0)
      /\ \A g \in 1 .. n : f[g] = f[g - 1] \o GroupOf(c, r, g)
  BY DEF Joins
<1>2. n + 1 \in 0 .. c.groupsOf[r]
  BY GivenType
<1>3. d \in S /\ f[n] \in S
  BY <1>1, <1>2, GroupOfType
<1>4. f[n] \o d \in S
  BY <1>3
<1> DEFINE e == f[n] \o d
           k == [g \in 0 .. n + 1 |-> IF g = n + 1 THEN e ELSE f[g]]
<1>k. h = k
  OBVIOUS
<1> HIDE DEF S, d, e, h
<1>5. /\ \A g \in 0 .. n + 1 : g # n + 1 => g \in 0 .. n /\ k[g] = f[g]
      /\ k[n + 1] = e /\ 0 # n + 1 /\ 0 \in 0 .. n + 1
  OBVIOUS
<1>6. h \in [0 .. n + 1 -> S] /\ h[0] = GroupOf(c, r, 0)
  BY <1>k, <1>1, <1>4, <1>5 DEF e
<1>7. ASSUME NEW g \in 1 .. n + 1 PROVE h[g] = h[g - 1] \o GroupOf(c, r, g)
  <2>1. g \in 0 .. n + 1 /\ g - 1 \in 0 .. n + 1 /\ g - 1 # n + 1
    OBVIOUS
  <2>2. h[g - 1] = f[g - 1]
    BY <1>k, <1>5, <2>1
  <2>3. CASE g = n + 1
    <3>1. h[g] = e /\ g - 1 = n
      BY <1>k, <1>5, <2>1, <2>3
    <3>2. QED
      BY <2>2, <2>3, <3>1 DEF e, d
  <2>4. CASE g # n + 1
    <3>1. h[g] = f[g] /\ g \in 1 .. n
      BY <1>k, <1>5, <2>1, <2>4
    <3>2. QED
      BY <1>1, <2>2, <3>1
  <2>5. QED
    BY <2>3, <2>4
<1> HIDE DEF k
<1>8. Joins(h, c, r, n + 1)
  BY <1>6, <1>7 DEF Joins, S
<1>9. QED
  BY <1>8

LEMMA JoinsExists ==
    ASSUME NEW c, NEW r, Given(c, r)
    PROVE  \E f : Joins(f, c, r, c.groupsOf[r])
<1> DEFINE T == {k \in Nat : k <= c.groupsOf[r] => \E f : Joins(f, c, r, k)}
<1>0. c.groupsOf[r] \in Nat
  BY GivenType
<1>1. 0 \in T
  <2> DEFINE f == [g \in 0 .. 0 |-> GroupOf(c, r, 0)]
  <2>1. GroupOf(c, r, 0) \in Seq(PatchRecord)
    BY <1>0, GroupOfType
  <2>2. f \in [0 .. 0 -> Seq(PatchRecord)] /\ f[0] = GroupOf(c, r, 0)
    BY <2>1
  <2> HIDE DEF f
  <2>3. Joins(f, c, r, 0)
    BY <2>2 DEF Joins
  <2>4. QED
    BY <2>3
<1>2. \A k \in Nat : k \in T => k + 1 \in T
  <2> SUFFICES ASSUME NEW k \in Nat, k + 1 <= c.groupsOf[r], NEW f, Joins(f, c, r, k)
               PROVE  \E h : Joins(h, c, r, k + 1)
    BY <1>0
  <2>1. QED
    BY JoinsNext
<1>3. Nat \subseteq T
  <2> HIDE DEF T
  <2>1. QED
    BY <1>1, <1>2, SetInduction
<1>4. QED
  BY <1>0, <1>3

LEMMA UpToJoins ==
    ASSUME NEW c, NEW r, Given(c, r)
    PROVE  Joins(UpToOf(c, r), c, r, c.groupsOf[r])
<1> DEFINE n == c.groupsOf[r]
           f == UpToOf(c, r)
<1>0. n \in Nat
  BY GivenType
<1>1. \E h : Joined(h, c, r, n)
  <2>1. PICK h : Joins(h, c, r, n)
    BY JoinsExists
  <2>2. \A g \in 0 .. n : h[g] = IF g = 0 THEN GroupOf(c, r, 0) ELSE h[g - 1] \o GroupOf(c, r, g)
    <3> SUFFICES ASSUME NEW g \in 0 .. n
                 PROVE  h[g] = IF g = 0 THEN GroupOf(c, r, 0) ELSE h[g - 1] \o GroupOf(c, r, g)
      OBVIOUS
    <3>1. CASE g = 0
      BY <2>1, <3>1 DEF Joins
    <3>2. CASE g # 0
      <4>1. g \in 1 .. n
        BY <1>0, <3>2
      <4>2. h[g] = h[g - 1] \o GroupOf(c, r, g)
        BY <2>1, <4>1 DEF Joins
      <4>3. QED
        BY <3>2, <4>2
    <3>3. QED
      BY <3>1, <3>2
  <2>3. h = [g \in 0 .. n |-> h[g]]
    BY <2>1 DEF Joins
  <2>4. QED
    BY <2>2, <2>3 DEF Joined
<1>2. Joined(f, c, r, n)
  BY <1>1 DEF UpToOf
<1> HIDE DEF f, n
<1>3. f[0] = GroupOf(c, r, 0) /\ DOMAIN f = 0 .. n /\ f = [g \in 0 .. n |-> f[g]]
  BY <1>0, <1>2 DEF Joined
<1>4. \A g \in 1 .. n : f[g] = f[g - 1] \o GroupOf(c, r, g)
  <2> SUFFICES ASSUME NEW g \in 1 .. n PROVE f[g] = f[g - 1] \o GroupOf(c, r, g)
    OBVIOUS
  <2>1. g \in 0 .. n /\ g # 0
    BY <1>0
  <2>2. f[g] = IF g = 0 THEN GroupOf(c, r, 0) ELSE f[g - 1] \o GroupOf(c, r, g)
    BY <1>2, <2>1 DEF Joined
  <2>3. QED
    BY <2>1, <2>2
<1> DEFINE T == {k \in Nat : k <= n => f[k] \in Seq(PatchRecord)}
<1>5. 0 \in T
  BY <1>0, <1>3, GroupOfType DEF n
<1>6. \A k \in Nat : k \in T => k + 1 \in T
  <2> SUFFICES ASSUME NEW k \in Nat, k + 1 <= n, f[k] \in Seq(PatchRecord)
               PROVE  f[k + 1] \in Seq(PatchRecord)
    BY <1>0
  <2>1. k + 1 \in 1 .. n /\ (k + 1) - 1 = k /\ k + 1 \in 0 .. c.groupsOf[r]
    BY <1>0 DEF n
  <2>2. f[k + 1] = f[k] \o GroupOf(c, r, k + 1) /\ GroupOf(c, r, k + 1) \in Seq(PatchRecord)
    BY <1>4, <2>1, GroupOfType
  <2>3. QED
    BY <2>2
<1>7. Nat \subseteq T
  <2> HIDE DEF T
  <2>1. QED
    BY <1>5, <1>6, SetInduction
<1>8. \A k \in 0 .. n : f[k] \in Seq(PatchRecord)
  BY <1>0, <1>7
<1>9. QED
  BY <1>3, <1>4, <1>8 DEF Joins, f, n

-----------------------------------------------------------------------------
(* Where the groups are.                                                    *)
LEMMA OffsetNext ==
    ASSUME NEW c, NEW r, Given(c, r), NEW k \in 0 .. c.groupsOf[r]
    PROVE  /\ Offset(c, r, k) \in Nat /\ Offset(c, r, 0) = 0
           /\ Offset(c, r, k + 1) = Offset(c, r, k) + c.groupSize[k]
           /\ Offset(c, r, k + 1) = Len(UpToOf(c, r)[k])
           /\ UpToOf(c, r)[k] \in Seq(PatchRecord)
           /\ Offset(c, r, c.groupsOf[r] + 1) = Size(c, r)
<1> DEFINE n == c.groupsOf[r]
           f == UpToOf(c, r)
<1>0. n \in Nat
  BY GivenType
<1>1. /\ f \in [0 .. n -> Seq(PatchRecord)] /\ f[0] = GroupOf(c, r, 0)
      /\ \A g \in 1 .. n : f[g] = f[g - 1] \o GroupOf(c, r, g)
  BY UpToJoins DEF Joins
<1>2. /\ Offset(c, r, k) = IF k = 0 THEN 0 ELSE Len(f[k - 1])
      /\ Offset(c, r, 0) = 0
  BY DEF Offset
<1>3. Offset(c, r, k + 1) = Len(f[k]) /\ Offset(c, r, n + 1) = Size(c, r)
  BY <1>0 DEF Offset, Size, PatchesOf
<1> HIDE DEF f
<1>4. GroupOf(c, r, k) \in Seq(PatchRecord) /\ Len(GroupOf(c, r, k)) = c.groupSize[k]
  BY GroupOfType
<1>5. CASE k = 0
  BY <1>0, <1>1, <1>2, <1>3, <1>4, <1>5, GivenType DEF f
<1>6. CASE k # 0
  <2>1. k \in 1 .. n /\ k - 1 \in 0 .. n
    BY <1>0, <1>6
  <2>2. f[k] = f[k - 1] \o GroupOf(c, r, k) /\ f[k - 1] \in Seq(PatchRecord)
        /\ f[k] \in Seq(PatchRecord)
    BY <1>1, <2>1
  <2>3. Len(f[k]) = Len(f[k - 1]) + c.groupSize[k] /\ Len(f[k - 1]) \in Nat
    <3> DEFINE a == f[k - 1]
               b == GroupOf(c, r, k)
    <3>1. a \in Seq(PatchRecord) /\ b \in Seq(PatchRecord) /\ Len(b) = c.groupSize[k]
      BY <1>4, <2>2
    <3> HIDE DEF a, b
    <3>2. Len(a \o b) = Len(a) + Len(b) /\ Len(a) \in Nat
      BY <3>1
    <3>3. QED
      BY <2>2, <3>1, <3>2 DEF a, b
  <2>4. QED
    BY <1>2, <1>3, <1>6, <2>2, <2>3 DEF f
<1>7. QED
  BY <1>5, <1>6

(* A group where it was put.                                                *)
LEMMA PatchAt ==
    ASSUME NEW c, NEW r, Given(c, r), NEW k \in 0 .. c.groupsOf[r], NEW i \in 1 .. c.groupSize[k]
    PROVE  UpToOf(c, r)[k][Offset(c, r, k) + i] = PatchOf(c, r, k)
<1> DEFINE n == c.groupsOf[r]
           f == UpToOf(c, r)
<1>0. n \in Nat /\ c.groupSize[k] \in Nat
  BY GivenType
<1>1. /\ f \in [0 .. n -> Seq(PatchRecord)] /\ f[0] = GroupOf(c, r, 0)
      /\ \A g \in 1 .. n : f[g] = f[g - 1] \o GroupOf(c, r, g)
  BY UpToJoins DEF Joins
<1>2. Offset(c, r, k) = IF k = 0 THEN 0 ELSE Len(f[k - 1])
  BY DEF Offset
<1> HIDE DEF f
<1>4. /\ GroupOf(c, r, k) \in Seq(PatchRecord) /\ Len(GroupOf(c, r, k)) = c.groupSize[k]
      /\ GroupOf(c, r, k)[i] = PatchOf(c, r, k)
  BY GroupOfType
<1>5. CASE k = 0
  BY <1>0, <1>1, <1>2, <1>4, <1>5 DEF f
<1>6. CASE k # 0
  <2>1. k \in 1 .. n /\ k - 1 \in 0 .. n
    BY <1>0, <1>6
  <2>2. f[k] = f[k - 1] \o GroupOf(c, r, k) /\ f[k - 1] \in Seq(PatchRecord)
    BY <1>1, <2>1
  <2>3. f[k][Len(f[k - 1]) + i] = GroupOf(c, r, k)[i]
    <3> DEFINE a == f[k - 1]
               b == GroupOf(c, r, k)
    <3>1. a \in Seq(PatchRecord) /\ b \in Seq(PatchRecord) /\ i \in 1 .. Len(b)
      BY <1>4, <2>2
    <3> HIDE DEF a, b
    <3>2. (a \o b)[Len(a) + i] = b[i]
      BY <3>1
    <3>3. QED
      BY <2>2, <3>2 DEF a, b
  <2>4. QED
    BY <1>2, <1>4, <1>6, <2>3 DEF f
<1>7. QED
  BY <1>5, <1>6

(* More groups do not move the ones before them.                            *)
LEMMA PrefixKept ==
    ASSUME NEW c, NEW r, Given(c, r), NEW j \in 0 .. c.groupsOf[r],
           NEW k \in 0 .. c.groupsOf[r], j <= k
    PROVE  /\ Len(UpToOf(c, r)[j]) <= Len(UpToOf(c, r)[k])
           /\ \A i \in 1 .. Len(UpToOf(c, r)[j]) : UpToOf(c, r)[k][i] = UpToOf(c, r)[j][i]
<1> DEFINE n == c.groupsOf[r]
           f == UpToOf(c, r)
<1>0. n \in Nat
  BY GivenType
<1>1. /\ f \in [0 .. n -> Seq(PatchRecord)]
      /\ \A g \in 1 .. n : f[g] = f[g - 1] \o GroupOf(c, r, g)
  BY UpToJoins DEF Joins
<1>4. \A g \in 0 .. n : GroupOf(c, r, g) \in Seq(PatchRecord)
  BY GroupOfType
<1> HIDE DEF f, n
<1> DEFINE T == {m \in Nat : j + m <= n =>
                    /\ Len(f[j]) <= Len(f[j + m])
                    /\ \A i \in 1 .. Len(f[j]) : f[j + m][i] = f[j][i]}
<1>2. j \in 0 .. n /\ k \in 0 .. n
  BY DEF n
<1>3. f[j] \in Seq(PatchRecord) /\ Len(f[j]) \in Nat
  BY <1>1, <1>2
<1>5. 0 \in T
  BY <1>2, <1>3
<1>6. \A m \in Nat : m \in T => m + 1 \in T
  <2> SUFFICES ASSUME NEW m \in Nat, j + (m + 1) <= n, Len(f[j]) <= Len(f[j + m]),
                      \A i \in 1 .. Len(f[j]) : f[j + m][i] = f[j][i]
               PROVE  /\ Len(f[j]) <= Len(f[j + (m + 1)])
                      /\ \A i \in 1 .. Len(f[j]) : f[j + (m + 1)][i] = f[j][i]
    BY <1>0, <1>2 DEF n
  <2> DEFINE a == f[j + m]
             b == GroupOf(c, r, j + (m + 1))
  <2>1. j + (m + 1) \in 1 .. n /\ (j + (m + 1)) - 1 = j + m /\ j + m \in 0 .. n
        /\ j + (m + 1) \in 0 .. n
    BY <1>0, <1>2 DEF n
  <2>2. f[j + (m + 1)] = a \o b /\ a \in Seq(PatchRecord) /\ b \in Seq(PatchRecord)
    BY <1>1, <1>4, <2>1
  <2> HIDE DEF b
  <2>3. Len(a \o b) >= Len(a) /\ \A i \in 1 .. Len(a) : (a \o b)[i] = a[i]
    BY <2>2
  <2>4. Len(a) \in Nat /\ Len(a \o b) \in Nat
    BY <2>2
  <2>5. \A i \in 1 .. Len(f[j]) : i \in 1 .. Len(a)
    BY <1>3, <2>4
  <2>6. QED
    BY <1>3, <2>2, <2>3, <2>4, <2>5
<1>7. Nat \subseteq T
  <2> HIDE DEF T
  <2>1. QED
    BY <1>5, <1>6, SetInduction
<1>8. k - j \in Nat /\ j + (k - j) = k
  BY <1>2
<1>9. k - j \in T
  BY <1>7, <1>8
<1>10. k <= n
  BY <1>0, <1>2 DEF n
<1>11. QED
  BY <1>8, <1>9, <1>10 DEF f

(* The patches of a request, group by group.                                *)
LEMMA PatchesAt ==
    ASSUME NEW c, NEW r, Given(c, r), NEW k \in 0 .. c.groupsOf[r]
    PROVE  /\ PatchesOf(c, r) \in Seq(PatchRecord) /\ Size(c, r) \in Nat
           /\ Offset(c, r, k + 1) <= Size(c, r)
           /\ \A i \in 1 .. c.groupSize[k] :
                 PatchesOf(c, r)[Offset(c, r, k) + i] = PatchOf(c, r, k)
<1> DEFINE n == c.groupsOf[r]
           f == UpToOf(c, r)
<1>0. n \in Nat /\ c.groupSize[k] \in Nat /\ n \in 0 .. n /\ k <= n
  BY GivenType
<1>1. PatchesOf(c, r) = f[n] /\ Size(c, r) = Len(f[n])
  BY DEF PatchesOf, Size
<1>2. f[n] \in Seq(PatchRecord)
  BY <1>0, OffsetNext
<1>3. /\ Offset(c, r, k) \in Nat /\ Offset(c, r, k + 1) = Offset(c, r, k) + c.groupSize[k]
      /\ Offset(c, r, k + 1) = Len(f[k])
  BY OffsetNext
<1>4. /\ Len(f[k]) <= Len(f[n])
      /\ \A i \in 1 .. Len(f[k]) : f[n][i] = f[k][i]
  BY <1>0, PrefixKept
<1>5. \A i \in 1 .. c.groupSize[k] : f[k][Offset(c, r, k) + i] = PatchOf(c, r, k)
  BY PatchAt
<1> HIDE DEF f, n
<1>6. ASSUME NEW i \in 1 .. c.groupSize[k] PROVE f[n][Offset(c, r, k) + i] = PatchOf(c, r, k)
  <2>1. Offset(c, r, k) + i \in 1 .. Len(f[k])
    BY <1>0, <1>3
  <2>2. QED
    BY <1>4, <1>5, <2>1
<1>7. Size(c, r) \in Nat
  BY <1>1, <1>2
<1>8. QED
  BY <1>1, <1>2, <1>3, <1>4, <1>6, <1>7

(* The groups are in order, each with a patch.                              *)
LEMMA OffsetOrder ==
    ASSUME Agreed, NEW c, NEW r, Given(c, r), NEW j \in 0 .. c.groupsOf[r] + 1,
           NEW k \in 0 .. c.groupsOf[r] + 1
    PROVE  /\ Offset(c, r, j) \in 0 .. Size(c, r)
           /\ j < k => Offset(c, r, j) < Offset(c, r, k)
<1> DEFINE n == c.groupsOf[r]
<1>0. n \in Nat
  BY GivenType
<1>1. /\ \A i \in 0 .. n : Offset(c, r, i) \in Nat /\ Offset(c, r, 0) = 0
                           /\ Offset(c, r, i + 1) = Offset(c, r, i) + c.groupSize[i]
      /\ Offset(c, r, n + 1) = Size(c, r)
  <2>1. 0 \in 0 .. n
    BY <1>0
  <2>2. QED
    BY <2>1, OffsetNext
<1>2. \A i \in 0 .. n : c.groupSize[i] \in Nat /\ c.groupSize[i] > 0
  BY GivenType DEF Agreed, Given
<1>3. \A i \in 0 .. n : Offset(c, r, i) < Offset(c, r, i + 1)
  BY <1>1, <1>2
<1> HIDE DEF n
<1>4. \A i \in 0 .. n + 1 : Offset(c, r, i) \in Nat
  <2> SUFFICES ASSUME NEW i \in 0 .. n + 1 PROVE Offset(c, r, i) \in Nat
    OBVIOUS
  <2>1. CASE i \in 0 .. n
    BY <1>1, <2>1
  <2>2. CASE i = n + 1
    <3>1. n \in 0 .. n /\ c.groupSize[n] \in Nat
      BY <1>0, <1>2
    <3>2. QED
      BY <1>1, <2>2, <3>1
  <2>3. QED
    BY <1>0, <2>1, <2>2
<1>5. ASSUME NEW a \in 0 .. n + 1, NEW b \in 0 .. n + 1, a < b
      PROVE  Offset(c, r, a) < Offset(c, r, b)
  <2> DEFINE T == {m \in Nat : a + 1 + m <= n + 1 => Offset(c, r, a) < Offset(c, r, a + 1 + m)}
  <2>1. 0 \in T
    <3>1. a \in 0 .. n
      BY <1>0, <1>5
    <3>2. QED
      BY <1>3, <3>1
  <2>2. \A m \in Nat : m \in T => m + 1 \in T
    <3> SUFFICES ASSUME NEW m \in Nat, a + 1 + (m + 1) <= n + 1,
                        Offset(c, r, a) < Offset(c, r, a + 1 + m)
                 PROVE  Offset(c, r, a) < Offset(c, r, a + 1 + (m + 1))
      BY <1>0
    <3>1. a + 1 + m \in 0 .. n /\ (a + 1 + m) + 1 = a + 1 + (m + 1)
      BY <1>0
    <3>2. Offset(c, r, a + 1 + m) < Offset(c, r, a + 1 + (m + 1))
      BY <1>3, <3>1
    <3>3. a + 1 + m \in 0 .. n + 1 /\ a + 1 + (m + 1) \in 0 .. n + 1
      BY <1>0, <3>1
    <3>4. QED
      BY <1>4, <3>2, <3>3
  <2>3. Nat \subseteq T
    <3> HIDE DEF T
    <3>1. QED
      BY <2>1, <2>2, SetInduction
  <2>4. b - a - 1 \in Nat /\ a + 1 + (b - a - 1) = b
    BY <1>0, <1>5
  <2>5. b - a - 1 \in T
    BY <2>3, <2>4
  <2>6. QED
    BY <1>0, <2>4, <2>5
<1>6. j \in 0 .. n + 1 /\ k \in 0 .. n + 1 /\ n + 1 \in 0 .. n + 1
  BY <1>0 DEF n
<1>7. Offset(c, r, j) <= Size(c, r)
  <2>1. CASE j = n + 1
    BY <1>1, <1>4, <1>6, <2>1
  <2>2. CASE j # n + 1
    <3>1. j < n + 1
      BY <1>0, <1>6, <2>2
    <3>2. QED
      BY <1>1, <1>4, <1>5, <1>6, <3>1
  <2>3. QED
    BY <2>1, <2>2
<1>8. Size(c, r) \in Nat
  BY <1>1, <1>4, <1>6
<1>9. QED
  BY <1>4, <1>5, <1>6, <1>7, <1>8

(* Every position is in one of the groups.                                  *)
LEMMA GroupAt ==
    ASSUME Agreed, NEW c, NEW r, Given(c, r), NEW p \in 0 .. Size(c, r) - 1
    PROVE  \E k \in 0 .. c.groupsOf[r] : Offset(c, r, k) <= p /\ p < Offset(c, r, k + 1)
<1> DEFINE n == c.groupsOf[r]
           S == {k \in 0 .. n : p < Offset(c, r, k + 1)}
<1>0. n \in Nat /\ n \in 0 .. n
  BY GivenType
<1>1. /\ \A i \in 0 .. n + 1 : Offset(c, r, i) \in Nat
      /\ Offset(c, r, n + 1) = Size(c, r) /\ Offset(c, r, 0) = 0
  <2>1. \A i \in 0 .. n + 1 : Offset(c, r, i) \in 0 .. Size(c, r)
    BY OffsetOrder
  <2>2. QED
    BY <1>0, <2>1, OffsetNext
<1>2. n \in S
  BY <1>0, <1>1
<1>3. PICK k \in S : \A m \in S : k <= m
  <2>1. S \in SUBSET Nat
    BY <1>0
  <2> HIDE DEF S
  <2>2. QED
    BY <1>2, <2>1, LeastMember
<1>4. Offset(c, r, k) <= p
  <2>1. CASE k = 0
    BY <1>1, <2>1
  <2>2. CASE k # 0
    <3>1. k - 1 \in 0 .. n /\ k - 1 \notin S /\ (k - 1) + 1 = k /\ k \in 0 .. n + 1
      BY <1>0, <1>3, <2>2
    <3>2. ~(p < Offset(c, r, k))
      BY <3>1
    <3>3. QED
      BY <1>1, <3>1, <3>2
  <2>3. QED
    BY <2>1, <2>2
<1>5. QED
  BY <1>3, <1>4

-----------------------------------------------------------------------------
(* A stretch of a request's patches: those after the first from.            *)
Carries(q, c, r, from) ==
    /\ q \in Seq(PatchRecord) /\ from \in Nat /\ from + Len(q) <= Size(c, r)
    /\ \A i \in DOMAIN q : q[i] = PatchesOf(c, r)[from + i]

(* What lies in a group is a patch of it.                                   *)
LEMMA CarriedPatch ==
    ASSUME Agreed, NEW c, NEW r, Given(c, r), NEW k \in 0 .. c.groupsOf[r], NEW p \in Nat,
           Offset(c, r, k) < p, p <= Offset(c, r, k + 1)
    PROVE  PatchesOf(c, r)[p] = PatchOf(c, r, k)
<1>1. /\ Offset(c, r, k) \in Nat /\ Offset(c, r, k + 1) = Offset(c, r, k) + c.groupSize[k]
      /\ c.groupSize[k] \in Nat
  BY OffsetNext, GivenType
<1>2. p - Offset(c, r, k) \in 1 .. c.groupSize[k] /\ Offset(c, r, k) + (p - Offset(c, r, k)) = p
  BY <1>1
<1>3. QED
  BY <1>2, PatchesAt

(* A patch says which group it is of.                                       *)
LEMMA PatchGroup ==
    ASSUME Agreed, NEW c, NEW r, Given(c, r), NEW k \in 0 .. c.groupsOf[r]
    PROVE  /\ PatchOf(c, r, k).gid = k /\ PatchOf(c, r, k).req = r
           /\ PatchOf(c, r, k).total = c.groupSize[k] /\ PatchOf(c, r, k).n = c.groupsOf[r]
<1>1. ~c.ungrouped \/ c.groupsOf[r] = 0
  BY DEF Agreed, Given
<1>2. c.groupsOf[r] = 0 => k = 0
  OBVIOUS
<1>3. QED
  BY <1>1, <1>2 DEF PatchOf

(* The group-driven policies take a whole group.                            *)
LEMMA GroupTaken ==
    ASSUME Agreed, NEW c, NEW r, Given(c, r), NEW k \in 0 .. c.groupsOf[r], NEW buf,
           Carries(buf, c, r, Offset(c, r, k)), buf # << >>
    PROVE  /\ Head(buf) = PatchOf(c, r, k)
           /\ GroupReady(buf) => /\ Payload(buf) = GroupOf(c, r, k)
                                 /\ Len(Payload(buf)) = c.groupSize[k]
                                 /\ c.groupSize[k] <= Len(buf)
<1> DEFINE all == PatchesOf(c, r)
           from == Offset(c, r, k)
           size == c.groupSize[k]
<1>1. /\ buf \in Seq(PatchRecord) /\ from \in Nat
      /\ \A i \in DOMAIN buf : buf[i] = all[from + i]
  BY DEF Carries
<1>2. \A i \in 1 .. size : all[from + i] = PatchOf(c, r, k)
  BY PatchesAt
<1>3. size \in Nat /\ size > 0
  BY GivenType DEF Agreed, Given
<1> HIDE DEF all, from, size
<1>4. 1 \in DOMAIN buf /\ Head(buf) = buf[1] /\ Len(buf) \in Nat
  BY <1>1
<1>5. Head(buf) = PatchOf(c, r, k)
  BY <1>1, <1>2, <1>3, <1>4
<1>6. ASSUME GroupReady(buf) PROVE Payload(buf) = GroupOf(c, r, k) /\ Len(Payload(buf)) = size
                                   /\ size <= Len(buf)
  <2>1. Head(buf).total = size
    BY <1>5 DEF PatchOf, size
  <2>2. size <= Len(buf)
    BY <1>3, <1>4, <1>6, <2>1 DEF GroupReady
  <2>3. Payload(buf) = SubSeq(buf, 1, size)
    BY <2>1 DEF Payload
  <2>4. /\ Payload(buf) = [i \in 1 .. size |-> buf[i]]
        /\ Len(Payload(buf)) = size
    <3>1. SubSeq(buf, 1, size) = [i \in 1 .. size |-> buf[i]] /\ Len(SubSeq(buf, 1, size)) = size
      BY <1>1, <1>3, <2>2
    <3>2. QED
      BY <2>3, <3>1
  <2>5. \A i \in 1 .. size : buf[i] = PatchOf(c, r, k)
    <3> SUFFICES ASSUME NEW i \in 1 .. size PROVE buf[i] = PatchOf(c, r, k)
      OBVIOUS
    <3>1. i \in DOMAIN buf
      BY <1>1, <1>3, <1>4, <2>2
    <3>2. QED
      BY <1>1, <1>2, <3>1
  <2>6. GroupOf(c, r, k) = [i \in 1 .. size |-> PatchOf(c, r, k)]
    BY DEF GroupOf, size
  <2>7. QED
    BY <2>2, <2>4, <2>5, <2>6
<1>7. QED
  BY <1>5, <1>6 DEF size

(* What the groups that have shown up announce, patch after patch.          *)
Terms(buf) == [i \in 1 .. Len(buf) |-> IF First(buf, i) THEN buf[i].total ELSE 0]

Announces(f, buf) ==
    f = [i \in 0 .. Len(buf) |->
            IF i = 0 THEN 0 ELSE f[i - 1] + (IF First(buf, i) THEN buf[i].total ELSE 0)]

LEMMA AnnouncedSums ==
    ASSUME NEW buf \in Seq(PatchRecord)
    PROVE  Sums(Announced(buf), Terms(buf), Len(buf))
<1> DEFINE d == Terms(buf)
           n == Len(buf)
           sum == CHOOSE f : Announces(f, buf)
<1>1. n \in Nat /\ \A i \in 1 .. n : buf[i] \in PatchRecord
  OBVIOUS
<1>2. \A i \in 1 .. n : buf[i].total \in Nat
  BY <1>1 DEF PatchRecord
<1> DEFINE total(i) == buf[i].total
           term(i) == IF First(buf, i) THEN total(i) ELSE 0
<1>3. d = [i \in 1 .. n |-> term(i)]
  BY DEF Terms
<1>4. \A i \in 1 .. n : total(i) \in Nat
  BY <1>2
<1> HIDE DEF total
<1>5. \A i \in 1 .. n : term(i) \in Nat
  BY <1>4
<1>6. \A f : Announces(f, buf) <=> f = [i \in 0 .. n |-> IF i = 0 THEN 0 ELSE f[i - 1] + term(i)]
  BY DEF Announces, total
<1> HIDE DEF term, n
<1>7. d \in [1 .. n -> Nat]
  BY <1>3, <1>5
<1>8. \A f : [i \in 0 .. n |-> IF i = 0 THEN 0 ELSE f[i - 1] + term(i)]
               = [i \in 0 .. n |-> IF i = 0 THEN 0 ELSE f[i - 1] + d[i]]
  <2> SUFFICES ASSUME NEW f, NEW i \in 0 .. n, i # 0 PROVE d[i] = term(i)
    OBVIOUS
  <2>1. i \in 1 .. n
    BY <1>1
  <2>2. QED
    BY <1>3, <2>1
<1>9. \A f : Announces(f, buf) <=> Added(f, d, n)
  BY <1>6, <1>8 DEF Added
<1>10. Announced(buf) = sum
  BY DEF Announced, Announces
<1>11. \E f : Announces(f, buf)
  BY <1>1, <1>7, <1>9, AddedExists
<1>12. Announces(sum, buf)
  BY <1>11
<1> HIDE DEF sum, d
<1>13. Sums(sum, d, n)
  BY <1>1, <1>7, <1>9, <1>12, AddedSums
<1>14. QED
  BY <1>10, <1>13 DEF d, n

(* They announce the patches of the groups that have shown up.              *)
LEMMA AnnouncedGroups ==
    ASSUME Agreed, NEW c, NEW r, Given(c, r), NEW buf, Carries(buf, c, r, 0),
           NEW k \in 0 .. c.groupsOf[r], NEW p \in Nat,
           Offset(c, r, k) < p, p <= Offset(c, r, k + 1), p <= Len(buf)
    PROVE  Announced(buf)[p] = Offset(c, r, k + 1)
<1> DEFINE n == c.groupsOf[r]
           m == Len(buf)
           f == Announced(buf)
           off(i) == Offset(c, r, i)
           T == {i \in Nat : \A g \in 0 .. n : off(g) < i /\ i <= off(g + 1) /\ i <= m
                                => f[i] = off(g + 1)}
<1>1. /\ buf \in Seq(PatchRecord) /\ n \in Nat /\ m \in Nat
      /\ \A i \in 1 .. m : buf[i] = PatchesOf(c, r)[i]
      /\ Size(c, r) \in Nat /\ m <= Size(c, r)
  <2>1. n \in Nat /\ 0 \in 0 .. n
    BY GivenType
  <2>2. QED
    BY <2>1, PatchesAt DEF Carries
<1>2. f[0] = 0 /\ \A i \in 1 .. m : f[i] = f[i - 1] + Terms(buf)[i]
  BY <1>1, AnnouncedSums DEF Sums
<1>3. /\ \A g \in 0 .. n + 1 : off(g) \in Nat
      /\ \A g \in 0 .. n : off(g + 1) = off(g) + c.groupSize[g] /\ off(g) < off(g + 1)
      /\ off(0) = 0
  <2>1. \A g \in 0 .. n + 1 : off(g) \in Nat
    BY OffsetOrder
  <2>2. 0 \in 0 .. n /\ \A g \in 0 .. n : g \in 0 .. n + 1 /\ g + 1 \in 0 .. n + 1 /\ g < g + 1
    BY <1>1
  <2>3. \A g \in 0 .. n : off(g + 1) = off(g) + c.groupSize[g]
    BY OffsetNext
  <2>4. \A g \in 0 .. n : off(g) < off(g + 1)
    BY <2>2, OffsetOrder
  <2>5. off(0) = 0
    BY <2>2, OffsetNext
  <2>6. QED
    BY <2>1, <2>3, <2>4, <2>5
<1>4. ASSUME NEW g \in 0 .. n, NEW i \in 1 .. m, off(g) < i, i <= off(g + 1)
      PROVE  buf[i].gid = g /\ buf[i].total = c.groupSize[g]
  <2>1. buf[i] = PatchOf(c, r, g)
    BY <1>1, <1>4, CarriedPatch
  <2>2. QED
    BY <2>1, PatchGroup
<1>5. ASSUME NEW g \in 0 .. n, NEW i \in 1 .. m, i <= off(g)
      PROVE  buf[i].gid # g
  <2>1. i - 1 \in 0 .. Size(c, r) - 1
    BY <1>1
  <2>2. PICK h \in 0 .. n : off(h) <= i - 1 /\ i - 1 < off(h + 1)
    BY <2>1, GroupAt
  <2>3. off(h) \in Nat /\ off(h + 1) \in Nat /\ off(g) \in Nat
    BY <1>1, <1>3, SMTT(30)
  <2>4. off(h) < i /\ i <= off(h + 1)
    BY <2>2, <2>3
  <2>5. buf[i].gid = h
    BY <1>4, <2>4
  <2>6. h # g
    BY <1>5, <2>3, <2>4
  <2>7. QED
    BY <2>5, <2>6
<1> HIDE DEF off, f, n, m
<1>6. 0 \in T
  <2>1. \A g \in 0 .. n : g \in 0 .. n + 1
    BY <1>1
  <2>2. \A g \in 0 .. n : ~(off(g) < 0)
    BY <1>3, <2>1
  <2>3. QED
    BY <2>2
<1>7. \A i \in Nat : i \in T => i + 1 \in T
  <2> SUFFICES ASSUME NEW i \in Nat, i \in T, NEW g \in 0 .. n, off(g) < i + 1,
                      i + 1 <= off(g + 1), i + 1 <= m
               PROVE  f[i + 1] = off(g + 1)
    OBVIOUS
  <2>1. i + 1 \in 1 .. m /\ (i + 1) - 1 = i /\ off(g) \in Nat /\ off(g + 1) \in Nat
        /\ c.groupSize[g] \in Nat /\ off(g + 1) = off(g) + c.groupSize[g]
    BY <1>1, <1>3, GivenType DEF n
  <2>2. f[i + 1] = f[i] + Terms(buf)[i + 1]
    BY <1>2, <2>1
  <2>3. Terms(buf)[i + 1] = IF First(buf, i + 1) THEN buf[i + 1].total ELSE 0
    BY <2>1 DEF Terms, m
  <2>4. buf[i + 1].gid = g /\ buf[i + 1].total = c.groupSize[g]
    BY <1>4, <2>1
  <2>5. CASE i = off(g)
    <3>1. First(buf, i + 1)
      <4>1. \A j \in 1 .. (i + 1) - 1 : j \in 1 .. m /\ j <= off(g)
        BY <1>1, <2>1, <2>5
      <4>2. QED
        BY <1>5, <2>4, <4>1 DEF First
    <3>2. f[i] = off(g)
      <4>1. CASE g = 0
        BY <1>2, <1>3, <2>5, <4>1
      <4>2. CASE g # 0
        <5>1. g - 1 \in 0 .. n /\ (g - 1) + 1 = g
          BY <1>1, <4>2
        <5>2. off(g - 1) < off(g)
          BY <1>3, <5>1
        <5>3. off(g - 1) < i /\ i <= off((g - 1) + 1) /\ i <= m
          BY <1>1, <2>1, <2>5, <5>1, <5>2
        <5>4. f[i] = off((g - 1) + 1)
          BY <5>1, <5>3
        <5>5. QED
          BY <5>1, <5>4
      <4>3. QED
        BY <4>1, <4>2
    <3>3. QED
      BY <2>1, <2>2, <2>3, <2>4, <3>1, <3>2
  <2>6. CASE i # off(g)
    <3>1. i \in 1 .. m /\ off(g) < i /\ i <= off(g + 1)
      BY <1>1, <2>1, <2>6
    <3>2. ~First(buf, i + 1)
      <4>1. buf[i].gid = g /\ i \in 1 .. (i + 1) - 1
        BY <1>4, <3>1
      <4>2. QED
        BY <2>4, <4>1 DEF First
    <3>3. f[i] = off(g + 1)
      BY <3>1
    <3>4. QED
      BY <2>1, <2>2, <2>3, <3>2, <3>3
  <2>7. QED
    BY <2>5, <2>6
<1>8. Nat \subseteq T
  <2> HIDE DEF T
  <2>1. QED
    BY <1>6, <1>7, SetInduction
<1>9. k \in 0 .. n /\ off(k) < p /\ p <= off(k + 1) /\ p <= m
  BY DEF n, off, m
<1>10. QED
  BY <1>8, <1>9 DEF off, f

(* The counting policies take a whole request, when all of it is there.     *)
LEMMA CountTaken ==
    ASSUME Agreed, config \in Configs, Policy \in CountPolicies, NEW r, Given(config, r),
           NEW buf, Carries(buf, config, r, 0), CountReady(buf)
    PROVE  /\ Expected(buf) = Size(config, r) /\ Len(buf) = Size(config, r)
           /\ SubSeq(buf, 1, Expected(buf)) = PatchesOf(config, r)
<1> DEFINE n == GroupsOf[r]
           m == Len(buf)
           size == Size(config, r)
<1>0. n = config.groupsOf[r]
  BY DEF GroupsOf
<1>1. /\ buf \in Seq(PatchRecord) /\ n \in Nat /\ m \in Nat /\ m <= size /\ size \in Nat
      /\ \A i \in 1 .. m : buf[i] = PatchesOf(config, r)[i]
      /\ PatchesOf(config, r) \in Seq(PatchRecord)
  <2>1. n \in Nat /\ 0 \in 0 .. n
    BY <1>0, GivenType
  <2>2. QED
    BY <1>0, <2>1, PatchesAt DEF Carries
<1>2. n = IF Progressive THEN NumGroups ELSE 0
  BY <1>0 DEF Agreed, Given, Policy, Progressive, NumGroups
<1>3. Cardinality(Groups(buf)) >= n + 1 /\ m > 0
  <2>1. m > 0
    BY <1>1 DEF CountReady
  <2>2. QED
    BY <1>2, <2>1 DEF CountReady
<1>4. \A i \in 1 .. m : \E k \in 0 .. n : /\ buf[i].gid = k
                                          /\ Offset(config, r, k) < i
                                          /\ i <= Offset(config, r, k + 1)
  <2> SUFFICES ASSUME NEW i \in 1 .. m
               PROVE  \E k \in 0 .. n : /\ buf[i].gid = k
                                        /\ Offset(config, r, k) < i
                                        /\ i <= Offset(config, r, k + 1)
    OBVIOUS
  <2>1. i - 1 \in 0 .. size - 1
    BY <1>1
  <2>2. PICK k \in 0 .. n : Offset(config, r, k) <= i - 1 /\ i - 1 < Offset(config, r, k + 1)
    BY <1>0, <2>1, GroupAt
  <2>3. Offset(config, r, k) \in Nat /\ Offset(config, r, k + 1) \in Nat
    <3>1. k \in 0 .. n + 1 /\ k + 1 \in 0 .. n + 1
      BY <1>1
    <3>2. Offset(config, r, k) \in 0 .. size /\ Offset(config, r, k + 1) \in 0 .. size
      BY <1>0, <3>1, OffsetOrder
    <3>3. QED
      BY <3>2
  <2>4. Offset(config, r, k) < i /\ i <= Offset(config, r, k + 1)
    BY <2>2, <2>3
  <2>5. buf[i].gid = k
    BY <1>0, <1>1, <2>4, CarriedPatch, PatchGroup
  <2>6. QED
    BY <2>4, <2>5
<1>5. Groups(buf) = 0 .. n
  <2>1. Groups(buf) \subseteq 0 .. n
    BY <1>4 DEF Groups
  <2>2. IsFiniteSet(0 .. n) /\ Cardinality(0 .. n) = n + 1
    <3>1. n \in Int /\ ~(0 > n) /\ n - 0 + 1 = n + 1
      BY <1>1
    <3>2. QED
      BY <3>1, 0 \in Int, FS_Interval
  <2>3. IsFiniteSet(Groups(buf)) /\ Cardinality(Groups(buf)) <= n + 1
        /\ (Cardinality(Groups(buf)) = Cardinality(0 .. n) => Groups(buf) = 0 .. n)
    BY <2>1, <2>2, FS_Subset
  <2>4. Cardinality(Groups(buf)) \in Nat
    BY <2>3, FS_CardinalityType
  <2>5. QED
    BY <1>1, <1>3, <2>2, <2>3, <2>4
<1>6. Offset(config, r, n) < m /\ m <= Offset(config, r, n + 1)
  <2>1. PICK i \in 1 .. m : buf[i].gid = n
    BY <1>1, <1>5 DEF Groups
  <2>2. Offset(config, r, n) < i
    BY <1>4, <2>1
  <2>3. Offset(config, r, n) \in 0 .. size /\ n \in 0 .. n
    BY <1>0, <1>1, OffsetOrder
  <2>4. Offset(config, r, n + 1) = size
    BY <1>0, <2>3, OffsetNext
  <2>5. QED
    BY <1>1, <2>2, <2>3, <2>4
<1>7. Announced(buf)[m] = size
  <2>1. n \in 0 .. config.groupsOf[r]
    BY <1>0, <1>1
  <2>2. Offset(config, r, n + 1) = size
    BY <1>0, <2>1, OffsetNext
  <2>3. QED
    BY <1>0, <1>1, <1>6, <2>2, <2>1, AnnouncedGroups
<1>8. Expected(buf) = size
  BY <1>1, <1>3, <1>7 DEF Expected
<1>9. m = size
  BY <1>1, <1>8 DEF CountReady
<1>10. SubSeq(buf, 1, size) = PatchesOf(config, r)
  <2>1. SubSeq(buf, 1, size) = buf
    BY <1>1, <1>9
  <2>2. Len(PatchesOf(config, r)) = size
    BY DEF Size
  <2>3. QED
    BY <1>1, <1>9, <2>1, <2>2
<1>11. QED
  BY <1>8, <1>9, <1>10

-----------------------------------------------------------------------------
(* Stretches of a request under the operations of a queue.                  *)
LEMMA CarriesTail ==
    ASSUME NEW c, NEW r, NEW q, NEW from, Carries(q, c, r, from), q # << >>, Size(c, r) \in Nat
    PROVE  /\ Carries(Tail(q), c, r, from + 1) /\ Len(Tail(q)) = Len(q) - 1
           /\ Head(q) = PatchesOf(c, r)[from + 1] /\ Head(q) \in PatchRecord /\ Len(q) > 0
<1>1. /\ q \in Seq(PatchRecord) /\ from \in Nat /\ from + Len(q) <= Size(c, r)
      /\ \A i \in DOMAIN q : q[i] = PatchesOf(c, r)[from + i]
  BY DEF Carries
<1>2. /\ Tail(q) \in Seq(PatchRecord) /\ Len(Tail(q)) = Len(q) - 1 /\ Len(q) \in Nat /\ Len(q) > 0
      /\ Head(q) = q[1] /\ 1 \in DOMAIN q /\ q[1] \in PatchRecord
  BY <1>1
<1>3. ASSUME NEW i \in DOMAIN Tail(q) PROVE Tail(q)[i] = PatchesOf(c, r)[(from + 1) + i]
  <2>1. i \in Nat /\ i + 1 \in DOMAIN q /\ Tail(q)[i] = q[i + 1] /\ from + (i + 1) = (from + 1) + i
    BY <1>1, <1>2
  <2>2. QED
    BY <1>1, <2>1
<1>4. QED
  BY <1>1, <1>2, <1>3 DEF Carries

LEMMA CarriesAppend ==
    ASSUME NEW c, NEW r, NEW q, NEW from, Carries(q, c, r, from), Size(c, r) \in Nat,
           from + Len(q) + 1 <= Size(c, r), NEW x \in PatchRecord,
           x = PatchesOf(c, r)[from + Len(q) + 1]
    PROVE  Carries(Append(q, x), c, r, from) /\ Len(Append(q, x)) = Len(q) + 1
<1>1. /\ q \in Seq(PatchRecord) /\ from \in Nat
      /\ \A i \in DOMAIN q : q[i] = PatchesOf(c, r)[from + i]
  BY DEF Carries
<1>2. /\ Append(q, x) \in Seq(PatchRecord) /\ Len(Append(q, x)) = Len(q) + 1 /\ Len(q) \in Nat
  BY <1>1
<1>3. ASSUME NEW i \in DOMAIN Append(q, x) PROVE Append(q, x)[i] = PatchesOf(c, r)[from + i]
  <2>1. CASE i = Len(q) + 1
    <3>1. Append(q, x)[i] = x /\ from + i = from + Len(q) + 1
      BY <1>1, <1>2, <2>1
    <3>2. QED
      BY <3>1
  <2>2. CASE i # Len(q) + 1
    <3>1. i \in DOMAIN q /\ Append(q, x)[i] = q[i]
      BY <1>1, <1>2, <2>2
    <3>2. QED
      BY <1>1, <3>1
  <2>3. QED
    BY <2>1, <2>2
<1>4. from + Len(Append(q, x)) <= Size(c, r)
  BY <1>1, <1>2
<1>5. QED
  BY <1>1, <1>2, <1>3, <1>4 DEF Carries

LEMMA CarriesCut ==
    ASSUME NEW c, NEW r, NEW q, NEW from, Carries(q, c, r, from), Size(c, r) \in Nat,
           NEW n \in 0 .. Len(q)
    PROVE  /\ Carries(SubSeq(q, 1, n), c, r, from) /\ Len(SubSeq(q, 1, n)) = n
           /\ Carries(SubSeq(q, n + 1, Len(q)), c, r, from + n)
           /\ Len(SubSeq(q, n + 1, Len(q))) = Len(q) - n
<1>1. /\ q \in Seq(PatchRecord) /\ from \in Nat /\ from + Len(q) <= Size(c, r)
      /\ \A i \in DOMAIN q : q[i] = PatchesOf(c, r)[from + i]
  BY DEF Carries
<1> DEFINE a == SubSeq(q, 1, n)
           b == SubSeq(q, n + 1, Len(q))
<1>2. Len(q) \in Nat /\ n \in Nat /\ DOMAIN q = 1 .. Len(q)
  BY <1>1
<1>3. a \in Seq(PatchRecord) /\ Len(a) = n /\ \A i \in 1 .. n : a[i] = q[i]
  BY <1>1, <1>2
<1>4. b \in Seq(PatchRecord) /\ Len(b) = Len(q) - n
  <2>1. n + 1 \in Int /\ Len(q) \in Int /\ \A i \in n + 1 .. Len(q) : q[i] \in PatchRecord
    BY <1>1, <1>2
  <2>2. b \in Seq(PatchRecord)
    BY <2>1
  <2>3. Len(b) = IF n + 1 <= Len(q) THEN Len(q) - (n + 1) + 1 ELSE 0
    BY <1>2, <2>1
  <2> HIDE DEF b
  <2> DEFINE m == Len(q)
  <2>a. m \in Nat /\ n <= m
    BY <1>2
  <2>b. Len(b) = IF n + 1 <= m THEN m - (n + 1) + 1 ELSE 0
    BY <2>3
  <2> HIDE DEF m
  <2>4. m \in Nat /\ n <= m /\ Len(b) = IF n + 1 <= m THEN m - (n + 1) + 1 ELSE 0
    BY <2>a, <2>b
  <2>5. Len(b) = m - n
    BY <1>2, <2>4
  <2>6. QED
    BY <2>2, <2>5 DEF m
<1>5. \A i \in 1 .. Len(q) - n : b[i] = q[n + i]
  <2> SUFFICES ASSUME NEW i \in 1 .. Len(q) - n PROVE b[i] = q[n + i]
    OBVIOUS
  <2>1. i \in 1 .. Len(q) - (n + 1) + 1 /\ (n + 1) + i - 1 = n + i
    BY <1>2
  <2>2. b[i] = q[(n + 1) + i - 1]
    BY <1>1, <1>2, <2>1
  <2>3. QED
    BY <2>1, <2>2
<1> HIDE DEF a, b
<1>6. ASSUME NEW i \in DOMAIN a PROVE a[i] = PatchesOf(c, r)[from + i]
  <2>1. i \in 1 .. n /\ i \in DOMAIN q
    BY <1>2, <1>3
  <2>2. QED
    BY <1>1, <1>3, <2>1
<1>7. ASSUME NEW i \in DOMAIN b PROVE b[i] = PatchesOf(c, r)[(from + n) + i]
  <2>1. i \in 1 .. Len(q) - n
    BY <1>4
  <2>2. n + i \in DOMAIN q /\ from + (n + i) = (from + n) + i
    BY <1>1, <1>2, <2>1
  <2>3. QED
    BY <1>1, <1>5, <2>1, <2>2
<1>8. from + n <= Size(c, r) /\ (from + n) + (Len(q) - n) <= Size(c, r) /\ from + n \in Nat
  BY <1>1, <1>2
<1>9. Carries(a, c, r, from)
  BY <1>1, <1>3, <1>6, <1>8 DEF Carries
<1>10. Carries(b, c, r, from + n)
  BY <1>4, <1>7, <1>8 DEF Carries
<1>11. QED
  BY <1>3, <1>4, <1>9, <1>10 DEF a, b

LEMMA CarriesJoin ==
    ASSUME NEW c, NEW r, NEW q, NEW p, NEW from, Carries(q, c, r, from),
           Carries(p, c, r, from + Len(q)), Size(c, r) \in Nat
    PROVE  Carries(q \o p, c, r, from) /\ Len(q \o p) = Len(q) + Len(p)
<1>1. /\ q \in Seq(PatchRecord) /\ from \in Nat
      /\ \A i \in DOMAIN q : q[i] = PatchesOf(c, r)[from + i]
  BY DEF Carries
<1>2. /\ p \in Seq(PatchRecord) /\ from + Len(q) + Len(p) <= Size(c, r)
      /\ \A i \in DOMAIN p : p[i] = PatchesOf(c, r)[from + Len(q) + i]
  BY DEF Carries
<1>3. /\ q \o p \in Seq(PatchRecord) /\ Len(q \o p) = Len(q) + Len(p)
      /\ Len(q) \in Nat /\ Len(p) \in Nat
  BY <1>1, <1>2
<1>4. ASSUME NEW i \in DOMAIN (q \o p) PROVE (q \o p)[i] = PatchesOf(c, r)[from + i]
  <2>1. i \in 1 .. Len(q) + Len(p)
    BY <1>3
  <2>2. CASE i <= Len(q)
    <3>1. i \in DOMAIN q /\ (q \o p)[i] = q[i]
      BY <1>1, <1>2, <1>3, <2>1, <2>2
    <3>2. QED
      BY <1>1, <3>1
  <2>3. CASE i > Len(q)
    <3>1. i - Len(q) \in DOMAIN p /\ (q \o p)[i] = p[i - Len(q)]
          /\ from + Len(q) + (i - Len(q)) = from + i
      BY <1>1, <1>2, <1>3, <2>1, <2>3
    <3>2. p[i - Len(q)] = PatchesOf(c, r)[from + Len(q) + (i - Len(q))]
      BY <1>2, <3>1
    <3>3. QED
      BY <3>1, <3>2
  <2>4. QED
    BY <1>3, <2>1, <2>2, <2>3
<1>5. from + Len(q \o p) <= Size(c, r)
  BY <1>1, <1>2, <1>3
<1>6. QED
  BY <1>1, <1>3, <1>4, <1>5 DEF Carries

LEMMA CarriesAll ==
    ASSUME NEW c, NEW r, Given(c, r)
    PROVE  /\ Carries(PatchesOf(c, r), c, r, 0) /\ Carries(<< >>, c, r, 0)
           /\ Carries(<< >>, c, r, Size(c, r))
<1>1. 0 \in 0 .. c.groupsOf[r]
  BY GivenType
<1>2. PatchesOf(c, r) \in Seq(PatchRecord) /\ Size(c, r) \in Nat
  BY <1>1, PatchesAt
<1>3. Len(PatchesOf(c, r)) = Size(c, r)
  BY DEF Size
<1>4. QED
  BY <1>2, <1>3 DEF Carries

-----------------------------------------------------------------------------
(* Tasks, messages and jobs.                                                *)
TaskOf(c) == [id : Int, req : Int, payload : Seq(PatchRecord), instrs : Seq(InstrOf(c))]
MessageOf(c) == [type : {"CONFIG", "TIME_SYNC", "STOP", "TASK"}, task : TaskOf(c)]
JobType(c) == [op : Opcodes, layer : 0 .. c.layers, global : BOOLEAN, req : Int, task : Int]

JobOf(instr, t) == [op |-> instr.op, layer |-> instr.hi, global |-> instr.global,
                    req |-> t.req, task |-> t.id]
JobsOf(t) == [i \in DOMAIN t.instrs |-> JobOf(t.instrs[i], t)]

(* The jobs launched, and those of the task under way still to be.          *)
Pending == monitorQ \o JobsOf(task)

Counting == config.policy \in CountPolicies
Current == IF Counting THEN taskId - 1 ELSE policy.req
Taken == Size(config, request) - Len(buffer) - Len(schedQ) - Len(todo)
Serving == phase \in {"send", "wait", "done"}
Live == phase \in {"send", "wait"} /\ Taken > 0 /\ resultQ = << >>

-----------------------------------------------------------------------------
(* Every variable has its type.                                             *)
PerImage == {"ADE20KWindowInterleaved", "ADE20KInterleavedDynamic"}

Types ==
    /\ config \in Configs
    /\ controlQ \in Seq({"CONFIG", "TIME_SYNC", "STOP"})
    /\ schedQ \in Seq(PatchRecord) /\ buffer \in Seq(PatchRecord) /\ todo \in Seq(PatchRecord)
    /\ feedbackQ \in Seq([req : Int, layer : 0 .. config.layers])
    /\ workerQ \in Seq(MessageOf(config))
    /\ Serving => policy \in PolicyType(config)
    /\ Serving /\ config.policy \notin PerImage => policy.n = config.groups
    /\ events \subseteq 0 .. config.layers
    /\ taskId \in Nat
    /\ pc \in {"poll", "decide", "stopped"}
    /\ task \in TaskOf(config)
    /\ monitorQ \in Seq(JobType(config))
    /\ DOMAIN sessions \subseteq Int /\ sessions = [q \in DOMAIN sessions |-> sessions[q]]
    /\ phase \in {"config", "sync", "send", "wait", "done"}
    /\ Given(config, request)

(* Before the first request.                                                *)
Starting ==
    ~Serving =>
        /\ schedQ = << >> /\ buffer = << >> /\ todo = << >> /\ feedbackQ = << >>
        /\ sessions = << >> /\ task = NoTask /\ monitorQ = << >> /\ events = {}
        /\ pc = "poll" /\ taskId = 0 /\ request = 1
        /\ phase = "config" =>
              /\ controlQ = << >> /\ workerQ = << >> /\ resultQ = << >> /\ policy = NoPolicy
        /\ phase # "config" =>
              \/ /\ controlQ = << "CONFIG", "TIME_SYNC" >> /\ workerQ = << >>
                 /\ resultQ = << >> /\ policy = NoPolicy
              \/ /\ controlQ = << "TIME_SYNC" >> /\ policy = NewPolicy
                 /\ workerQ \in {<< >>, << Message("CONFIG") >>} /\ resultQ = << >>
              \/ /\ controlQ = << >> /\ policy = NewPolicy /\ resultQ = << >>
                 /\ workerQ \in {<< Message("CONFIG"), Message("TIME_SYNC") >>,
                                 << Message("TIME_SYNC") >>}
              \/ /\ controlQ = << >> /\ policy = NewPolicy /\ workerQ = << >>
                 /\ resultQ # << >> /\ Tail(resultQ) = << >>

(* Patches travel in their order; what has been taken is whole groups.      *)
Begun(c, r, taken, req) ==
    \E k \in 0 .. c.groupsOf[r] + 1 : taken = Offset(c, r, k) /\ (k > 0 => req # None)

Stream ==
    Serving =>
        /\ Carries(buffer, config, request, Taken)
        /\ Carries(schedQ, config, request, Taken + Len(buffer))
        /\ Carries(todo, config, request, Taken + Len(buffer) + Len(schedQ))
        /\ phase = "send" <=> todo # << >>
        /\ phase = "done" => Taken = Size(config, request)
        /\ Counting => Taken \in {0, Size(config, request)}
        /\ ~Counting => Begun(config, request, Taken, policy.req)

(* What the queues behind the scheduler hold.                               *)
Shape(c, r, t) ==
    /\ t.instrs # << >>
    /\ Open(t.instrs) \/ Closing(t.instrs)
    /\ t.payload # << >> =>
          IF c.policy \in CountPolicies THEN t.payload = PatchesOf(c, r)
          ELSE \E k \in 0 .. c.groupsOf[r] : t.payload = GroupOf(c, r, k)

Tasks ==
    Serving =>
        /\ phase # "done" => controlQ = << >>
        /\ phase = "done" => controlQ \in {<< >>, << "STOP" >>}
        /\ \A i \in DOMAIN workerQ : phase = "done" => workerQ[i] = Message("STOP")
        /\ \A i \in DOMAIN workerQ : phase # "done" =>
              /\ workerQ[i].type = "TASK" /\ Live
              /\ workerQ[i].task.req = Current /\ Shape(config, request, workerQ[i].task)
              /\ Closing(workerQ[i].task.instrs) =>
                    i = Len(workerQ) /\ Taken = Size(config, request)
        /\ resultQ # << >> =>
              /\ Tail(resultQ) = << >> /\ ~Head(resultQ).sync
              /\ phase = "wait" /\ Taken = Size(config, request)
        /\ pc = "stopped" => phase = "done"
        /\ Live => Current \in 0 .. taskId - 1
        /\ Current \in {None} \cup 0 .. taskId - 1

(* The jobs launched and to be launched: of the current request, but for    *)
(* the release of the session before.                                       *)
Answers(jobs, cur) == \E j \in DOMAIN jobs : jobs[j].req = cur /\ jobs[j].op \in AnswerOps
JobsLive(jobs, cur) ==
    \A j \in DOMAIN jobs :
        \/ /\ jobs[j].req = cur
           /\ jobs[j].op = "SEND_RESPONSE" =>
                 j + 1 = Len(jobs) /\ jobs[j + 1].op = "FREE_SESSION" /\ jobs[j + 1].req = cur
           /\ jobs[j].op = "FREE_SESSION" => j = Len(jobs)
        \/ j = 1 /\ jobs[j].op = "FREE_SESSION" /\ jobs[j].req < cur
JobsOver(jobs, cur) ==
    jobs = << >> \/ (Len(jobs) = 1 /\ jobs[1].op = "FREE_SESSION" /\ jobs[1].req = cur)

Jobs ==
    Serving =>
        /\ task # NoTask => task.instrs # << >>
        /\ Live => JobsLive(Pending, Current)
        /\ Live /\ Answers(Pending, Current) => workerQ = << >> /\ Taken = Size(config, request)
        /\ ~Live => JobsOver(Pending, Current)

(* A session is that of the request under way, or about to be released.     *)
Freed(jobs, q) == jobs # << >> /\ jobs[1].op = "FREE_SESSION" /\ jobs[1].req = q
Released == Serving => \A q \in DOMAIN sessions : (Live /\ q = Current) \/ Freed(Pending, q)

(* While the policy speculates, the last group has not been admitted.       *)
Speculating == config.policy \in DynamicPolicies /\ policy.group # None /\ policy.group < policy.n
Unfinished ==
    Serving /\ Speculating =>
        /\ Live
        /\ \A i \in DOMAIN workerQ : Open(workerQ[i].task.instrs)
        /\ ~Answers(Pending, Current)

Protocol == Types /\ Starting /\ Stream /\ Tasks /\ Jobs /\ Released /\ Unfinished

-----------------------------------------------------------------------------
(* Queues: what is behind the first, and one queue behind the other.        *)
LEMMA QueueTail ==
    ASSUME NEW S, NEW q \in Seq(S), q # << >>, NEW t, t = Tail(q)
    PROVE  /\ t \in Seq(S) /\ Len(t) = Len(q) - 1 /\ Len(q) \in Nat /\ Len(q) >= 1
           /\ Head(q) = q[1] /\ Head(q) \in S
           /\ \A i \in 1 .. Len(q) - 1 : t[i] = q[i + 1]
  OBVIOUS

Behind(s, a, b) == s = a \o b

LEMMA QueueJoin ==
    ASSUME NEW S, NEW a \in Seq(S), NEW b \in Seq(S), NEW s, Behind(s, a, b)
    PROVE  /\ s \in Seq(S) /\ Len(s) = Len(a) + Len(b)
           /\ Len(a) \in Nat /\ Len(b) \in Nat
           /\ \A i \in 1 .. Len(a) : s[i] = a[i]
           /\ \A i \in 1 .. Len(b) : s[Len(a) + i] = b[i]
  BY DEF Behind

LEMMA QueueGrows ==
    ASSUME NEW S, NEW q \in Seq(S), NEW x \in S
    PROVE  /\ Append(q, x) \in Seq(S) /\ Len(Append(q, x)) = Len(q) + 1 /\ Len(q) \in Nat
           /\ Append(q, x)[Len(q) + 1] = x /\ Append(q, x) # << >>
           /\ \A i \in 1 .. Len(q) : Append(q, x)[i] = q[i]
  OBVIOUS

-----------------------------------------------------------------------------
(* What the counts of patches come to while requests are served.            *)
LEMMA Serves ==
    ASSUME Agreed, Protocol, Serving
    PROVE  /\ Given(config, request) /\ request \in Nat
           /\ Size(config, request) \in Nat /\ Size(config, request) > 0
           /\ Len(buffer) \in Nat /\ Len(schedQ) \in Nat /\ Len(todo) \in Nat /\ Taken \in Nat
           /\ Taken + Len(buffer) + Len(schedQ) + Len(todo) = Size(config, request)
           /\ Taken = Size(config, request) =>
                 buffer = << >> /\ schedQ = << >> /\ todo = << >>
<1>1. /\ Given(config, request) /\ buffer \in Seq(PatchRecord) /\ schedQ \in Seq(PatchRecord)
      /\ todo \in Seq(PatchRecord)
  BY DEF Protocol, Types
<1>2. config.groupsOf[request] \in Nat /\ request \in Nat
  BY <1>1, GivenType
<1> DEFINE n == config.groupsOf[request]
           size == Size(config, request)
<1>3. size \in Nat /\ size > 0
  <2>1. 0 \in 0 .. n + 1 /\ n + 1 \in 0 .. n + 1 /\ 0 < n + 1 /\ 0 \in 0 .. n
    BY <1>2
  <2>2. Offset(config, request, 0) = 0 /\ Offset(config, request, n + 1) = size
    BY <1>1, <2>1, OffsetNext
  <2>3. Offset(config, request, 0) < Offset(config, request, n + 1)
    BY <1>1, <2>1, OffsetOrder
  <2>4. size \in Nat
    BY <1>1, <2>1, PatchesAt
  <2>5. QED
    BY <2>2, <2>3, <2>4
<1>4. Taken \in Nat
  BY DEF Protocol, Stream, Carries
<1>5. Len(buffer) \in Nat /\ Len(schedQ) \in Nat /\ Len(todo) \in Nat
  BY <1>1
<1>6. Taken + Len(buffer) + Len(schedQ) + Len(todo) = size
  BY <1>3, <1>5 DEF Taken
<1>7. ASSUME Taken = size PROVE buffer = << >> /\ schedQ = << >> /\ todo = << >>
  <2>1. Len(buffer) = 0 /\ Len(schedQ) = 0 /\ Len(todo) = 0
    BY <1>3, <1>4, <1>5, <1>6, <1>7
  <2>2. QED
    BY <1>1, <2>1
<1>8. QED
  BY <1>1, <1>2, <1>3, <1>4, <1>5, <1>6, <1>7

-----------------------------------------------------------------------------
(* The jobs of a task.                                                      *)
LEMMA JobsOfType ==
    ASSUME NEW c, NEW t \in TaskOf(c)
    PROVE  /\ JobsOf(t) \in Seq(JobType(c)) /\ Len(JobsOf(t)) = Len(t.instrs)
           /\ \A i \in 1 .. Len(t.instrs) : JobsOf(t)[i] = JobOf(t.instrs[i], t)
<1>1. t.instrs \in Seq(InstrOf(c)) /\ t.req \in Int /\ t.id \in Int
  BY DEF TaskOf
<1>2. ASSUME NEW i \in 1 .. Len(t.instrs) PROVE JobOf(t.instrs[i], t) \in JobType(c)
  <2>1. t.instrs[i] \in InstrOf(c)
    BY <1>1
  <2>2. QED
    BY <1>1, <2>1 DEF JobOf, JobType, InstrOf
<1>3. DOMAIN t.instrs = 1 .. Len(t.instrs) /\ Len(t.instrs) \in Nat
  BY <1>1
<1>4. JobsOf(t) = [i \in 1 .. Len(t.instrs) |-> JobOf(t.instrs[i], t)]
  BY <1>3 DEF JobsOf
<1>5. QED
  BY <1>2, <1>3, <1>4

LEMMA NoTaskType ==
    ASSUME NEW c PROVE NoTask \in TaskOf(c) /\ JobsOf(NoTask) = << >>
<1>1. NoTask \in TaskOf(c) /\ NoTask.instrs = << >>
  BY DEF NoTask, Task, TaskOf, None
<1>2. JobsOf(NoTask) \in Seq(JobType(c)) /\ Len(JobsOf(NoTask)) = 0
  BY <1>1, JobsOfType
<1>3. QED
  BY <1>1, <1>2

LEMMA PendingType ==
    ASSUME Types
    PROVE  /\ monitorQ \in Seq(JobType(config)) /\ JobsOf(task) \in Seq(JobType(config))
           /\ Pending \in Seq(JobType(config))
<1>1. monitorQ \in Seq(JobType(config)) /\ task \in TaskOf(config)
  BY DEF Types
<1>2. JobsOf(task) \in Seq(JobType(config))
  BY <1>1, JobsOfType
<1> DEFINE a == monitorQ
           b == JobsOf(task)
           J == JobType(config)
<1>3. Pending = a \o b /\ a \in Seq(J) /\ b \in Seq(J)
  BY <1>1, <1>2 DEF Pending
<1> HIDE DEF a, b, J
<1>4. Pending \in Seq(J)
  BY <1>3
<1>5. QED
  BY <1>3, <1>4 DEF a, b, J

(* A launched job goes from the task to the reaper's queue.                 *)
LEMMA Launched ==
    ASSUME NEW c, NEW q \in Seq(JobType(c)), NEW t \in TaskOf(c), t.instrs # << >>, NEW u,
           u = IF Len(t.instrs) = 1 THEN NoTask ELSE [t EXCEPT !.instrs = Tail(@)]
    PROVE  /\ u \in TaskOf(c) /\ (u # NoTask => u.instrs # << >>)
           /\ JobOf(Head(t.instrs), t) \in JobType(c)
           /\ Append(q, JobOf(Head(t.instrs), t)) \o JobsOf(u) = q \o JobsOf(t)
<1> DEFINE J == JobType(c)
           s == t.instrs
           m == Len(s)
           n == Len(q)
           j == JobOf(Head(s), t)
           a == JobsOf(t)
           b == JobsOf(u)
<1>1. s \in Seq(InstrOf(c)) /\ m \in Nat /\ m >= 1 /\ Head(s) = s[1]
  BY DEF TaskOf
<1>2. a \in Seq(J) /\ Len(a) = m /\ \A i \in 1 .. m : a[i] = JobOf(s[i], t)
  BY JobsOfType
<1>3. j = a[1] /\ j \in J
  <2>1. 1 \in 1 .. m
    BY <1>1
  <2>2. QED
    BY <1>1, <1>2, <2>1
<1>4. /\ u \in TaskOf(c) /\ (u # NoTask => u.instrs # << >>)
      /\ b \in Seq(J) /\ Len(b) = m - 1 /\ \A i \in 1 .. m - 1 : b[i] = a[i + 1]
  <2>1. CASE m = 1
    <3>1. u = NoTask /\ b = << >>
      BY <2>1, NoTaskType
    <3>2. QED
      BY <2>1, <3>1, NoTaskType
  <2>2. CASE m # 1
    <3>1. u = [t EXCEPT !.instrs = Tail(s)] /\ u = [t EXCEPT !.instrs = Tail(@)]
      BY <2>2
    <3>2. /\ Tail(s) \in Seq(InstrOf(c)) /\ Len(Tail(s)) = m - 1 /\ Tail(s) # << >>
          /\ \A i \in 1 .. m - 1 : Tail(s)[i] = s[i + 1]
      <4>1. s # << >>
        OBVIOUS
      <4>2. Tail(s) \in Seq(InstrOf(c)) /\ Len(Tail(s)) = m - 1 
            /\ \A i \in 1 .. m - 1 : Tail(s)[i] = s[i + 1]
        <5>1. s \in Seq(InstrOf(c)) /\ m = Len(s)
          BY <1>1
        <5> HIDE DEF s, m
        <5>2. /\ Tail(s) \in Seq(InstrOf(c)) /\ Len(Tail(s)) = Len(s) - 1
              /\ \A i \in 1 .. Len(s) - 1 : Tail(s)[i] = s[i + 1]
          BY <4>1, <5>1, QueueTail
        <5>3. QED
          BY <5>1, <5>2
      <4>3. Len(Tail(s)) # 0
        BY <1>1, <2>2, <4>2
      <4> HIDE DEF s, m
      <4>4. Tail(s) # << >>
        <5>1. Tail(s) \in Seq(InstrOf(c)) /\ Len(Tail(s)) # 0
          BY <4>2, <4>3
        <5> DEFINE x == Tail(s)
        <5> HIDE DEF x
        <5>2. x \in Seq(InstrOf(c)) /\ Len(x) # 0
          BY <5>1 DEF x
        <5>3. x # << >>
          BY <5>2
        <5>4. QED
          BY <5>3 DEF x
      <4>5. QED
        BY <4>2, <4>4
    <3>3. u \in TaskOf(c) /\ u.instrs = Tail(s) /\ u.req = t.req /\ u.id = t.id
      BY <3>1, <3>2 DEF TaskOf
    <3>4. b \in Seq(J) /\ Len(b) = m - 1 /\ \A i \in 1 .. m - 1 : b[i] = JobOf(Tail(s)[i], u)
      BY <3>2, <3>3, JobsOfType
    <3>5. ASSUME NEW i \in 1 .. m - 1 PROVE b[i] = a[i + 1]
      <4>1. i + 1 \in 1 .. m
        BY <1>1
      <4>2. b[i] = JobOf(s[i + 1], u) /\ a[i + 1] = JobOf(s[i + 1], t)
        BY <1>2, <3>2, <3>4, <4>1
      <4>3. QED
        BY <3>3, <4>2 DEF JobOf
    <3>6. QED
      BY <3>2, <3>3, <3>4, <3>5
  <2>3. QED
    BY <2>1, <2>2
<1> HIDE DEF J, s, m, n, j, a, b
<1>5. Append(q, j) \o b = q \o a
  <2>1. q \in Seq(J) /\ n = Len(q) /\ n \in Nat
    BY DEF J, n
  <2> DEFINE l == Append(q, j) \o b
             r == q \o a
  <2>2. Append(q, j) \in Seq(J) /\ Len(Append(q, j)) = n + 1
    BY <1>3, <2>1
  <2> DEFINE h == Append(q, j)
  <2>a. h \in Seq(J) /\ Len(h) = n + 1 /\ h[n + 1] = j /\ \A i \in 1 .. n : h[i] = q[i]
    BY <1>3, <2>1, QueueGrows
  <2> HIDE DEF h
  <2>d. l = h \o b /\ r = q \o a
    BY DEF h
  <2> HIDE DEF l, r
  <2>b. /\ l \in Seq(J) /\ Len(l) = (n + 1) + (m - 1)
        /\ \A i \in 1 .. n + 1 : l[i] = h[i]
        /\ \A i \in 1 .. m - 1 : l[(n + 1) + i] = b[i]
    <3>1. /\ l \in Seq(J) /\ Len(l) = Len(h) + Len(b)
          /\ \A i \in 1 .. Len(h) : l[i] = h[i]
          /\ \A i \in 1 .. Len(b) : l[Len(h) + i] = b[i]
      <4>1. h \in Seq(J) /\ b \in Seq(J) /\ Behind(l, h, b)
        BY <1>4, <2>a, <2>d DEF Behind
      <4>2. QED
        BY <4>1, QueueJoin
    <3>2. Len(h) = n + 1 /\ Len(b) = m - 1
      BY <1>4, <2>a
    <3>3. QED
      BY <3>1, <3>2
  <2>c. /\ r \in Seq(J) /\ Len(r) = n + m
        /\ \A i \in 1 .. n : r[i] = q[i]
        /\ \A i \in 1 .. m : r[n + i] = a[i]
    <3>1. /\ r \in Seq(J) /\ Len(r) = Len(q) + Len(a)
          /\ \A i \in 1 .. Len(q) : r[i] = q[i]
          /\ \A i \in 1 .. Len(a) : r[Len(q) + i] = a[i]
      <4>1. q \in Seq(J) /\ a \in Seq(J) /\ Behind(r, q, a)
        BY <1>2, <2>1, <2>d DEF Behind
      <4>2. QED
        BY <4>1, QueueJoin
    <3>2. Len(q) = n /\ Len(a) = m
      BY <1>2, <2>1
    <3>3. QED
      BY <3>1, <3>2
  <2>3. l \in Seq(J) /\ Len(l) = n + m /\ r \in Seq(J) /\ Len(r) = n + m
    BY <1>1, <2>1, <2>b, <2>c
  <2>4. ASSUME NEW i \in 1 .. n + m PROVE l[i] = r[i]
    <3>1. CASE i <= n
      <4>1. i \in 1 .. n + 1 /\ i \in 1 .. n
        BY <1>1, <2>1, <3>1
      <4>2. QED
        BY <2>a, <2>b, <2>c, <4>1
    <3>2. CASE i = n + 1
      <4>1. i \in 1 .. n + 1 /\ i = n + 1 /\ 1 \in 1 .. m
        BY <1>1, <2>1, <3>2
      <4>2. l[i] = j /\ r[i] = a[1]
        BY <2>a, <2>b, <2>c, <4>1
      <4>3. QED
        BY <1>3, <4>2
    <3>3. CASE i > n + 1
      <4>1. i - (n + 1) \in 1 .. m - 1 /\ (i - (n + 1)) + 1 = i - n /\ i - n \in 1 .. m
            /\ (n + 1) + (i - (n + 1)) = i /\ n + (i - n) = i
        BY <1>1, <2>1, <3>3, SMTT(30)
      <4>2. l[i] = b[i - (n + 1)]
        BY <2>b, <4>1
      <4>3. r[i] = a[i - n]
        BY <2>c, <4>1
      <4>4. QED
        BY <1>4, <4>1, <4>2, <4>3
    <3>4. QED
      BY <1>1, <2>1, <3>1, <3>2, <3>3
  <2>5. l = r
    BY <2>3, <2>4
  <2>6. QED
    BY <2>5 DEF l, r
<1>6. QED
  BY <1>3, <1>4, <1>5 DEF J, j, s, a, b

(* ... and leaves it at the other end.                                      *)
LEMMA Reaped ==
    ASSUME NEW c, NEW q \in Seq(JobType(c)), q # << >>, NEW p \in Seq(JobType(c))
    PROVE  /\ q \o p \in Seq(JobType(c)) /\ q \o p # << >> /\ (q \o p)[1] = Head(q)
           /\ Tail(q) \in Seq(JobType(c)) /\ Head(q) \in JobType(c)
           /\ Tail(q) \o p = Tail(q \o p)
<1> DEFINE J == JobType(c)
           m == Len(q)
           n == Len(p)
<1>1. q \in Seq(J) /\ p \in Seq(J) /\ q # << >> /\ m = Len(q) /\ n = Len(p)
  OBVIOUS
<1> HIDE DEF J, m, n
<1>2. m \in Nat /\ m >= 1 /\ n \in Nat /\ Head(q) = q[1] /\ Head(q) \in J
  BY <1>1
<1>3. q \o p \in Seq(J) /\ Len(q \o p) = m + n /\ (q \o p)[1] = q[1] /\ q \o p # << >>
  BY <1>1, <1>2
<1>4. Tail(q) \in Seq(J) /\ Len(Tail(q)) = m - 1 /\ \A i \in 1 .. m - 1 : Tail(q)[i] = q[i + 1]
  BY <1>1, QueueTail
<1> DEFINE l == Tail(q) \o p
           s == q \o p
           r == Tail(s)
<1>5. l \in Seq(J) /\ Len(l) = m + n - 1
  BY <1>1, <1>2, <1>4
<1>6. /\ s \in Seq(J) /\ Len(s) = m + n
      /\ \A i \in 1 .. m : s[i] = q[i]
      /\ \A i \in 1 .. n : s[m + i] = p[i]
  BY <1>1, <1>2, <1>3
<1>7. /\ \A i \in 1 .. m - 1 : l[i] = q[i + 1]
      /\ \A i \in 1 .. n : l[(m - 1) + i] = p[i]
  BY <1>1, <1>2, <1>4
<1> HIDE DEF l, s
<1>8. r \in Seq(J) /\ Len(r) = m + n - 1 /\ \A i \in 1 .. m + n - 1 : r[i] = s[i + 1]
  <2>1. s # << >>
    BY <1>3 DEF s
  <2>2. r = Tail(s)
    BY DEF r
  <2> HIDE DEF r
  <2>3. r \in Seq(J) /\ Len(r) = Len(s) - 1 /\ \A i \in 1 .. Len(s) - 1 : r[i] = s[i + 1]
    BY <1>6, <2>1, <2>2, QueueTail, ZenonT(30)
  <2>4. Len(s) = m + n
    BY <1>6
  <2>5. Len(s) - 1 = m + n - 1
    BY <1>2, <2>4
  <2>6. QED
    BY <2>3, <2>5
<1> HIDE DEF r
<1>9. ASSUME NEW i \in 1 .. m + n - 1 PROVE l[i] = r[i]
  <2>1. CASE i <= m - 1
    <3>1. i \in 1 .. m - 1 /\ i + 1 \in 1 .. m
      BY <1>2, <2>1
    <3>2. QED
      BY <1>6, <1>7, <1>8, <3>1
  <2>2. CASE i > m - 1
    <3>1. i - (m - 1) \in 1 .. n /\ (m - 1) + (i - (m - 1)) = i /\ m + (i - (m - 1)) = i + 1
      BY <1>2, <2>2
    <3>2. l[i] = p[i - (m - 1)] /\ s[i + 1] = p[i - (m - 1)]
      BY <1>6, <1>7, <3>1
    <3>3. QED
      BY <1>8, <3>2
  <2>3. QED
    BY <1>2, <2>1, <2>2
<1>10. l = r
  BY <1>5, <1>8, <1>9
<1>11. QED
  BY <1>2, <1>3, <1>4, <1>10 DEF l, r, s, J

(* Two entries in a queue of their kind.                                    *)
LEMMA QueueTwo ==
    ASSUME NEW M, NEW a \in M, NEW b \in M
    PROVE  /\ Append(<< >>, b) = << b >> /\ Append(<< a >>, b) = << a, b >>
           /\ << a, b >> \in Seq(M) /\ << b >> \in Seq(M)
<1> DEFINE s == << a >>
           t == << a, b >>
           u == Append(s, b)
<1>1. << b >> \in Seq(M) /\ Append(<< >>, b) = << b >>
  OBVIOUS
<1>2. s \in Seq(M) /\ Len(s) = 1 /\ s[1] = a
  OBVIOUS
<1>3. t \in Seq(M) /\ Len(t) = 2 /\ t[1] = a /\ t[2] = b
  OBVIOUS
<1> HIDE DEF s, t
<1>4. u \in Seq(M) /\ Len(u) = 2 /\ u[1] = a /\ u[2] = b
  <2>1. /\ Append(s, b) \in Seq(M) /\ Len(Append(s, b)) = Len(s) + 1
        /\ Append(s, b)[Len(s) + 1] = b
        /\ \A i \in 1 .. Len(s) : Append(s, b)[i] = s[i]
    BY <1>2, QueueGrows, ZenonT(30)
  <2>2. Len(s) + 1 = 2 /\ 1 \in 1 .. Len(s)
    BY <1>2
  <2>3. QED
    BY <1>2, <2>1, <2>2
<1> HIDE DEF u
<1>5. u = t
  <2>1. \A i \in 1 .. 2 : u[i] = t[i]
    BY <1>3, <1>4
  <2>2. QED
    BY <1>3, <1>4, <2>1
<1>6. QED
  BY <1>1, <1>3, <1>5 DEF s, t, u

-----------------------------------------------------------------------------
(* Until the first request is sent nothing but CONFIG and TIME_SYNC is on   *)
(* its way.                                                                 *)
LEMMA StartsSo ==
    ASSUME Types', Starting', ~Serving'
    PROVE  Protocol'
  BY DEF Protocol, Stream, Tasks, Jobs, Released, Unfinished, Serving

LEMMA InitProtocol == ASSUME Init PROVE Protocol
<1>1. phase = "config" /\ config \in Configs /\ request = 1
  BY DEF Init, SchedulerInit
<1>2. Given(config, 1)
  <2>1. config.groupsOf \in Seq(Nat) /\ config.groupsOf # << >>
    BY <1>1, PipelineAssumption
  <2>2. 1 \in DOMAIN config.groupsOf
    BY <2>1
  <2>3. QED
    BY <1>1, <2>2 DEF Given
<1>3. NoTask \in TaskOf(config)
  BY NoTaskType
<1>4. ~Serving
  BY <1>1 DEF Serving
<1>5. Types
  BY <1>1, <1>2, <1>3, <1>4 DEF Types, Init, SchedulerInit
<1>6. Starting
  BY <1>1 DEF Starting, Init, SchedulerInit
<1>7. QED
  BY <1>4, <1>5, <1>6 DEF Protocol, Stream, Tasks, Jobs, Released, Unfinished

LEMMA SendConfigKeeps ==
    ASSUME Protocol, SendConfig, config' = config PROVE Protocol'
<1>1. /\ phase = "config" /\ phase' = "sync" /\ controlQ' = controlQ \o << "CONFIG", "TIME_SYNC" >>
      /\ UNCHANGED << schedQ, feedbackQ, workerQ, buffer, policy, events, taskId, pc,
                      sessions, task, monitorQ, resultQ, request, todo >>
  BY DEF SendConfig, workerVars
<1>2. controlQ = << >> /\ workerQ = << >> /\ resultQ = << >> /\ policy = NoPolicy
  BY <1>1 DEF Protocol, Starting, Serving
<1>3. controlQ' = << "CONFIG", "TIME_SYNC" >>
  BY <1>1, <1>2
<1>4. ~Serving /\ ~Serving'
  BY <1>1 DEF Serving
<1>5. Types'
  BY <1>1, <1>3, <1>4 DEF Protocol, Types
<1>6. Starting'
  <2>1. NoPolicy' = NoPolicy
    BY DEF NoPolicy, NewPolicy, Policy, NumGroups
  <2>2. QED
    BY <1>1, <1>2, <1>3, <1>4, <2>1 DEF Protocol, Starting
<1>7. QED
  BY <1>4, <1>5, <1>6, StartsSo

(* What the scheduler does with them.                                       *)
LEMMA ConfigureKeeps ==
    ASSUME Protocol, Configure, config' = config,
           UNCHANGED << workerVars, resultQ, clientVars >>
    PROVE  Protocol'
<1>1. /\ controlQ # << >> /\ Head(controlQ) = "CONFIG" /\ controlQ' = Tail(controlQ)
      /\ workerQ' = Append(workerQ, Message("CONFIG"))
      /\ policy' = NewPolicy /\ buffer' = << >> /\ taskId' = 0
      /\ UNCHANGED << schedQ, feedbackQ, events, pc, sessions, task, monitorQ, resultQ,
                      phase, request, todo >>
  BY DEF Configure, Control, workerVars, clientVars
<1>2. ~Serving
  BY <1>1 DEF Protocol, Tasks
<1>3. phase # "config" /\ controlQ = << "CONFIG", "TIME_SYNC" >> /\ workerQ = << >>
      /\ resultQ = << >> /\ policy = NoPolicy
  BY <1>1, <1>2 DEF Protocol, Starting
<1>4. controlQ' = << "TIME_SYNC" >> /\ workerQ' = << Message("CONFIG") >>
  BY <1>1, <1>3
<1>5. ~Serving'
  BY <1>1, <1>2 DEF Serving
<1>6. Message("CONFIG") \in MessageOf(config)
  BY NoTaskType DEF Message, MessageOf
<1>7. Types'
  BY <1>1, <1>4, <1>5, <1>6 DEF Protocol, Types
<1>8. NewPolicy' = NewPolicy
  BY DEF NewPolicy, Policy, NumGroups
<1>9. Starting'
  <2>1. /\ schedQ' = << >> /\ buffer' = << >> /\ todo' = << >> /\ feedbackQ' = << >>
        /\ sessions' = << >> /\ task' = NoTask /\ monitorQ' = << >> /\ events' = {}
        /\ pc' = "poll" /\ taskId' = 0 /\ request' = 1 /\ phase' # "config"
        /\ resultQ' = << >>
    BY <1>1, <1>2, <1>3 DEF Protocol, Starting
  <2>2. Message("CONFIG") = Message("CONFIG")'
    BY DEF Message, NoTask, Task
  <2>3. QED
    BY <1>1, <1>4, <1>8, <2>1 DEF Starting
<1>10. QED
  BY <1>5, <1>7, <1>9, StartsSo

LEMMA ForwardTimeSyncKeeps ==
    ASSUME Protocol, ForwardTimeSync, config' = config,
           UNCHANGED << workerVars, resultQ, clientVars >>
    PROVE  Protocol'
<1>1. /\ controlQ # << >> /\ Head(controlQ) = "TIME_SYNC" /\ controlQ' = Tail(controlQ)
      /\ workerQ' = Append(workerQ, Message("TIME_SYNC"))
      /\ UNCHANGED << policy, buffer, taskId, schedQ, feedbackQ, events, pc, sessions, task,
                      monitorQ, resultQ, phase, request, todo >>
  BY DEF ForwardTimeSync, Control, workerVars, clientVars
<1>2. ~Serving
  BY <1>1 DEF Protocol, Tasks
<1>3. phase # "config" /\ controlQ = << "TIME_SYNC" >> /\ policy = NewPolicy /\ resultQ = << >>
      /\ workerQ \in {<< >>, << Message("CONFIG") >>}
  BY <1>1, <1>2 DEF Protocol, Starting
<1>4. /\ controlQ' = << >>
      /\ workerQ' \in {<< Message("CONFIG"), Message("TIME_SYNC") >>, << Message("TIME_SYNC") >>}
  <2> DEFINE a == Message("CONFIG")
             b == Message("TIME_SYNC")
  <2>1. workerQ \in {<< >>, << a >>} /\ workerQ' = Append(workerQ, b)
    BY <1>1, <1>3
  <2> HIDE DEF a, b
  <2>2. workerQ' \in {<< a, b >>, << b >>}
    <3>1. workerQ = << >> => workerQ' = << b >>
      BY <2>1
    <3>2. workerQ = << a >> => workerQ' = << a, b >>
      <4>1. a \in {a, b} /\ b \in {a, b}
        OBVIOUS
      <4>2. Append(<< a >>, b) = << a, b >>
        BY <4>1, QueueTwo
      <4>3. QED
        BY <2>1, <4>2, Zenon
    <3>3. QED
      BY <2>1, <3>1, <3>2
  <2>3. controlQ' = << >>
    BY <1>1, <1>3
  <2>4. QED
    BY <2>2, <2>3 DEF a, b
<1>5. ~Serving'
  BY <1>1, <1>2 DEF Serving
<1>6. Message("CONFIG") \in MessageOf(config) /\ Message("TIME_SYNC") \in MessageOf(config)
  BY NoTaskType DEF Message, MessageOf
<1>7. workerQ' \in Seq(MessageOf(config))
  <2> DEFINE a == Message("CONFIG")
             b == Message("TIME_SYNC")
             M == MessageOf(config)
  <2>1. (workerQ' = << a, b >> \/ workerQ' = << b >>) /\ a \in M /\ b \in M
    BY <1>4, <1>6
  <2> HIDE DEF a, b, M
  <2>2. workerQ' \in Seq(M)
    <3>1. << a, b >> \in Seq(M) /\ << b >> \in Seq(M)
      BY <2>1, QueueTwo
    <3>2. QED
      BY <2>1, <3>1, Zenon
  <2>3. QED
    BY <2>2 DEF M
<1>8. Types'
  BY <1>1, <1>4, <1>5, <1>7 DEF Protocol, Types
<1>9. NewPolicy' = NewPolicy
  BY DEF NewPolicy, Policy, NumGroups
<1>10. Starting'
  <2>1. /\ schedQ' = << >> /\ buffer' = << >> /\ todo' = << >> /\ feedbackQ' = << >>
        /\ sessions' = << >> /\ task' = NoTask /\ monitorQ' = << >> /\ events' = {}
        /\ pc' = "poll" /\ taskId' = 0 /\ request' = 1 /\ phase' # "config"
        /\ resultQ' = << >> /\ policy' = NewPolicy
    BY <1>1, <1>2, <1>3 DEF Protocol, Starting
  <2>2. QED
    BY <1>4, <1>9, <2>1 DEF Starting
<1>11. QED
  BY <1>5, <1>8, <1>10, StartsSo

(* The first request is sent when the clocks agree.                         *)
LEMMA NewPolicyType ==
    ASSUME config \in Configs
    PROVE  /\ NewPolicy \in PolicyType(config) /\ NewPolicy.req = None /\ NewPolicy.group = None
           /\ config.policy \notin PerImage => NewPolicy.n = config.groups
<1>1. TotalLayers \in Nat \ {0} /\ NumGroups \in Nat \ {0}
  BY Configured
<1>2. QED
  BY <1>1 DEF NewPolicy, PolicyType, None, PerImage, Policy, TotalLayers, NumGroups

LEMMA ReceiveTimeSyncKeeps ==
    ASSUME Agreed, Protocol, ReceiveTimeSync, config' = config PROVE Protocol'
<1>1. /\ phase = "sync" /\ resultQ # << >> /\ resultQ' = Tail(resultQ)
      /\ phase' = "send" /\ todo' = Patches(request)
      /\ UNCHANGED << controlQ, schedQ, feedbackQ, workerQ, buffer, policy, events, taskId, pc,
                      sessions, task, monitorQ, request >>
  BY DEF ReceiveTimeSync, schedulerVars, workerVars
<1>2. /\ schedQ = << >> /\ buffer = << >> /\ feedbackQ = << >> /\ controlQ = << >>
      /\ sessions = << >> /\ task = NoTask /\ monitorQ = << >> /\ events = {}
      /\ pc = "poll" /\ taskId = 0 /\ policy = NewPolicy /\ workerQ = << >>
      /\ Tail(resultQ) = << >>
  BY <1>1 DEF Protocol, Starting, Serving
<1> DEFINE n == config.groupsOf[request]
<1>3. Given(config, request) /\ config \in Configs /\ n \in Nat
  BY GivenType DEF Protocol, Types
<1>4. todo' = PatchesOf(config, request) /\ Carries(todo', config, request, 0)
      /\ Carries(<< >>, config, request, 0)
  BY <1>1, <1>3, SamePatches, CarriesAll
<1>5. Size(config, request) \in Nat /\ Size(config, request) > 0 /\ Len(todo') = Size(config, request)
  <2>1. 0 \in 0 .. n + 1 /\ n + 1 \in 0 .. n + 1 /\ 0 < n + 1 /\ 0 \in 0 .. n
    BY <1>3
  <2>2. Offset(config, request, 0) = 0 /\ Offset(config, request, n + 1) = Size(config, request)
    BY <1>3, <2>1, OffsetNext
  <2>3. Offset(config, request, 0) < Offset(config, request, n + 1)
    BY <1>3, <2>1, OffsetOrder
  <2>4. Size(config, request) \in Nat
    BY <1>3, <2>1, PatchesAt
  <2>5. Len(todo') = Size(config, request)
    BY <1>4 DEF Size
  <2>6. QED
    BY <2>2, <2>3, <2>4, <2>5
<1>6. Taken' = 0
  <2>1. Len(buffer') = 0 /\ Len(schedQ') = 0
    BY <1>1, <1>2
  <2>2. QED
    BY <1>1, <1>5, <2>1 DEF Taken
<1>7. Serving' /\ ~Live'
  BY <1>1, <1>6 DEF Serving, Live
<1>8. Types'
  <2>1. policy' \in PolicyType(config) /\ (config.policy \notin PerImage => policy'.n = config.groups)
    BY <1>1, <1>2, <1>3, NewPolicyType
  <2>2. todo' \in Seq(PatchRecord)
    BY <1>4 DEF Carries
  <2>3. QED
    BY <1>1, <2>1, <2>2 DEF Protocol, Types
<1>9. Starting'
  BY <1>7 DEF Starting
<1>10. Stream'
  <2>1. Carries(buffer, config, request, 0)' /\ Len(buffer') = 0 /\ Len(schedQ') = 0
    BY <1>1, <1>2, <1>4
  <2>2. /\ Carries(buffer', config', request', Taken')
        /\ Carries(schedQ', config', request', Taken' + Len(buffer'))
        /\ Carries(todo', config', request', Taken' + Len(buffer') + Len(schedQ'))
    BY <1>1, <1>2, <1>4, <1>6, <2>1
  <2>3. todo' # << >>
    BY <1>5
  <2>4. Begun(config', request', Taken', policy'.req)
    <3>1. 0 \in 0 .. config.groupsOf[request] + 1 /\ Offset(config, request, 0) = 0
      BY <1>3, OffsetNext
    <3>2. QED
      BY <1>1, <1>6, <3>1 DEF Begun
  <2>5. QED
    BY <1>1, <1>6, <2>2, <2>3, <2>4 DEF Stream
<1>11. Tasks'
  <2>1. Current' = None
    BY <1>1, <1>2, <1>3, NewPolicyType DEF Current, None
  <2>2. QED
    BY <1>1, <1>2, <1>7, <2>1 DEF Tasks
<1>12. Jobs'
  <2>1. Pending' = << >> \o << >>
    BY <1>1, <1>2, NoTaskType DEF Pending
  <2>2. Pending' = << >>
    BY <2>1
  <2>3. task' = NoTask' 
    BY <1>1, <1>2 DEF NoTask, Task
  <2>4. QED
    BY <1>7, <2>2, <2>3 DEF Jobs, JobsOver
<1>13. Released'
  BY <1>1, <1>2 DEF Released
<1>14. Unfinished'
  BY <1>1, <1>2, <1>3, NewPolicyType DEF Unfinished, Speculating, None
<1>15. QED
  BY <1>8, <1>9, <1>10, <1>11, <1>12, <1>13, <1>14 DEF Protocol

-----------------------------------------------------------------------------
(* A patch on its way to the scheduler, and into its buffer.                *)
LEMMA SendPatchKeeps ==
    ASSUME Agreed, Protocol, SendPatch, config' = config PROVE Protocol'
<1> DEFINE size == Size(config, request)
<1>1. /\ phase = "send" /\ todo # << >> /\ schedQ' = Append(schedQ, Head(todo))
      /\ todo' = Tail(todo) /\ phase' = IF Len(todo) = 1 THEN "wait" ELSE "send"
      /\ UNCHANGED << controlQ, feedbackQ, workerQ, buffer, policy, events, taskId, pc,
                      sessions, task, monitorQ, resultQ, request >>
  BY DEF SendPatch, workerVars
<1>2. Serving /\ Serving'
  BY <1>1 DEF Serving
<1>3. /\ size \in Nat /\ Taken \in Nat /\ Len(buffer) \in Nat /\ Len(schedQ) \in Nat
      /\ Len(todo) \in Nat /\ Taken + Len(buffer) + Len(schedQ) + Len(todo) = size
  BY <1>2, Serves
<1>4. /\ Carries(buffer, config, request, Taken)
      /\ Carries(schedQ, config, request, Taken + Len(buffer))
      /\ Carries(todo, config, request, Taken + Len(buffer) + Len(schedQ))
  BY <1>2 DEF Protocol, Stream
<1>5. /\ Carries(todo', config, request, Taken + Len(buffer) + Len(schedQ) + 1)
      /\ Len(todo') = Len(todo) - 1 /\ Len(todo) > 0
      /\ Head(todo) = PatchesOf(config, request)[Taken + Len(buffer) + Len(schedQ) + 1]
      /\ Head(todo) \in PatchRecord
  BY <1>1, <1>3, <1>4, CarriesTail
<1>6. Carries(schedQ', config, request, Taken + Len(buffer)) /\ Len(schedQ') = Len(schedQ) + 1
  <2>1. Taken + Len(buffer) + Len(schedQ) + 1 <= size
    BY <1>3, <1>5
  <2> DEFINE x == Head(todo)
             from == Taken + Len(buffer)
             q == schedQ
  <2>2. /\ Carries(q, config, request, from) /\ x \in PatchRecord
        /\ x = PatchesOf(config, request)[from + Len(q) + 1]
        /\ from + Len(q) + 1 <= Size(config, request) /\ Size(config, request) \in Nat
        /\ schedQ' = Append(q, x)
    BY <1>1, <1>3, <1>4, <1>5, <2>1
  <2> HIDE DEF x, from, q
  <2>3. Carries(Append(q, x), config, request, from) /\ Len(Append(q, x)) = Len(q) + 1
    BY <2>2, CarriesAppend
  <2>4. QED
    BY <2>2, <2>3 DEF from, q
<1>7. Taken' = Taken
  BY <1>1, <1>3, <1>5, <1>6 DEF Taken
<1>8. Live' = Live /\ Current' = Current /\ Pending' = Pending
  BY <1>1, <1>7, <1>2 DEF Live, Current, Pending, Counting, Serving
<1>9. Types'
  <2>1. todo' \in Seq(PatchRecord) /\ schedQ' \in Seq(PatchRecord)
    BY <1>5, <1>6 DEF Carries
  <2>2. QED
    BY <1>1, <1>2, <2>1 DEF Protocol, Types
<1>10. Starting'
  BY <1>2 DEF Starting
<1>11. Stream'
  <2>1. Taken + Len(buffer) + Len(schedQ') = Taken + Len(buffer) + Len(schedQ) + 1
    BY <1>3, <1>6
  <2>2. Carries(todo', config, request, Taken + Len(buffer) + Len(schedQ'))
    BY <1>5, <2>1
  <2>3. phase' = "send" <=> todo' # << >>
    <3>1. todo' \in Seq(PatchRecord)
      BY <1>5 DEF Carries
    <3>2. todo' # << >> <=> Len(todo') # 0
      BY <3>1
    <3>3. QED
      BY <1>1, <1>3, <1>5, <3>2
  <2>4. /\ Counting => Taken \in {0, size}
        /\ ~Counting => Begun(config, request, Taken, policy.req)
    BY <1>2 DEF Protocol, Stream
  <2>5. QED
    BY <1>1, <1>4, <1>6, <1>7, <2>2, <2>3, <2>4 DEF Stream, Counting
<1>12. Tasks'
  <2>1. resultQ = << >> /\ pc # "stopped"
    BY <1>1, <1>2 DEF Protocol, Tasks
  <2>2. Size(config', request') = size
    BY <1>1
  <2>3. QED
    BY <1>1, <1>2, <1>7, <1>8, <2>1, <2>2 DEF Protocol, Tasks
<1>13. Jobs'
  BY <1>1, <1>2, <1>7, <1>8 DEF Protocol, Jobs
<1>14. Released'
  BY <1>1, <1>2, <1>8 DEF Protocol, Released
<1>15. Unfinished'
  BY <1>1, <1>2, <1>8 DEF Protocol, Unfinished, Speculating
<1>16. QED
  BY <1>9, <1>10, <1>11, <1>12, <1>13, <1>14, <1>15 DEF Protocol

LEMMA QueueFirst ==
    ASSUME NEW M, NEW q \in Seq(M), q # << >>
    PROVE  1 \in DOMAIN q /\ Head(q) = q[1] /\ q[1] \in M /\ Len(q) \in DOMAIN q
  OBVIOUS

LEMMA DrainKeeps ==
    ASSUME Agreed, Protocol, NEW p, NEW f, Drain(p, f), config' = config,
           UNCHANGED << workerVars, resultQ, clientVars >>
    PROVE  Protocol'
<1> DEFINE size == Size(config, request)
<1>1. /\ pc = "poll" /\ p \in 0 .. Len(schedQ) /\ f \in 0 .. Len(feedbackQ) /\ p + f > 0
      /\ buffer' = buffer \o SubSeq(schedQ, 1, p)
      /\ schedQ' = SubSeq(schedQ, p + 1, Len(schedQ))
      /\ feedbackQ' = SubSeq(feedbackQ, f + 1, Len(feedbackQ))
      /\ \/ UNCHANGED << events, pc >>
         \/ events' = {feedbackQ[i].layer : i \in 1 .. f} /\ pc' = "decide"
      /\ UNCHANGED << controlQ, workerQ, policy, taskId, sessions, task, monitorQ, resultQ,
                      phase, request, todo >>
  BY DEF Drain, workerVars, clientVars
<1>2. Serving /\ Serving'
  <2>1. ASSUME ~Serving PROVE FALSE
    <3>1. schedQ = << >> /\ feedbackQ = << >>
      BY <2>1 DEF Protocol, Starting
    <3>2. Len(schedQ) = 0 /\ Len(feedbackQ) = 0
      BY <3>1
    <3>3. QED
      BY <1>1, <3>2
  <2>2. QED
    BY <1>1, <2>1 DEF Serving
<1>3. /\ size \in Nat /\ Taken \in Nat /\ Len(buffer) \in Nat /\ Len(schedQ) \in Nat
      /\ Len(todo) \in Nat /\ Taken + Len(buffer) + Len(schedQ) + Len(todo) = size
  BY <1>2, Serves
<1>4. /\ Carries(buffer, config, request, Taken)
      /\ Carries(schedQ, config, request, Taken + Len(buffer))
      /\ Carries(todo, config, request, Taken + Len(buffer) + Len(schedQ))
  BY <1>2 DEF Protocol, Stream
<1>5. /\ Carries(buffer', config, request, Taken) /\ Len(buffer') = Len(buffer) + p
      /\ Carries(schedQ', config, request, Taken + Len(buffer'))
      /\ Len(schedQ') = Len(schedQ) - p /\ p \in Nat
  <2> DEFINE a == SubSeq(schedQ, 1, p)
             b == SubSeq(schedQ, p + 1, Len(schedQ))
             from == Taken + Len(buffer)
             q == schedQ
  <2>1. /\ Carries(q, config, request, from) /\ Size(config, request) \in Nat
        /\ p \in 0 .. Len(q) /\ q = schedQ
    BY <1>1, <1>3, <1>4
  <2> HIDE DEF q, from
  <2>2. /\ Carries(SubSeq(q, 1, p), config, request, from) /\ Len(SubSeq(q, 1, p)) = p
        /\ Carries(SubSeq(q, p + 1, Len(q)), config, request, from + p)
        /\ Len(SubSeq(q, p + 1, Len(q))) = Len(q) - p
    BY <2>1, CarriesCut
  <2>3. /\ Carries(a, config, request, from) /\ Len(a) = p
        /\ Carries(b, config, request, from + p) /\ Len(b) = Len(schedQ) - p
    BY <2>1, <2>2
  <2>4. buffer' = buffer \o a /\ schedQ' = b
    BY <1>1
  <2> HIDE DEF a, b
  <2>5. Carries(buffer', config, request, Taken) /\ Len(buffer') = Len(buffer) + Len(a)
    <3>1. /\ Carries(buffer, config, request, Taken) /\ Size(config, request) \in Nat
          /\ Carries(a, config, request, Taken + Len(buffer))
      BY <1>3, <1>4, <2>3 DEF from
    <3>2. Carries(buffer \o a, config, request, Taken) /\ Len(buffer \o a) = Len(buffer) + Len(a)
      BY <3>1, CarriesJoin, Zenon
    <3>3. QED
      BY <2>4, <3>2, Zenon
  <2>6. Taken + Len(buffer') = from + p /\ p \in Nat /\ Len(buffer') = Len(buffer) + p
    <3>1. p \in Nat /\ Len(a) = p /\ Len(buffer') = Len(buffer) + Len(a)
      BY <1>3, <2>1, <2>3, <2>5
    <3>2. QED
      BY <1>3, <3>1 DEF from
  <2>7. schedQ' = b
    BY <2>4
  <2>8. QED
    BY <2>3, <2>5, <2>6, <2>7
<1>6. Taken' = Taken
  <2>1. todo' = todo /\ request' = request
    BY <1>1
  <2>2. QED
    BY <1>3, <1>5, <2>1 DEF Taken
<1>7. Live' = Live /\ Current' = Current /\ Pending' = Pending
  BY <1>1, <1>6, <1>2 DEF Live, Current, Pending, Counting, Serving
<1>8. Types'
  <2>1. buffer' \in Seq(PatchRecord) /\ schedQ' \in Seq(PatchRecord)
    BY <1>5 DEF Carries
  <2> DEFINE F == [req : Int, layer : 0 .. config.layers]
  <2>2. feedbackQ \in Seq(F)
    BY DEF Protocol, Types
  <2>3. \A i \in 1 .. f : feedbackQ[i].layer \in 0 .. config.layers
    <3>1. \A i \in 1 .. f : i \in DOMAIN feedbackQ
      BY <1>1, <2>2
    <3>2. \A i \in 1 .. f : feedbackQ[i] \in F
      <4> HIDE DEF F
      <4>1. QED
        BY <2>2, <3>1
    <3>3. QED
      BY <3>2
  <2>4. feedbackQ' \in Seq(F)
    <3> HIDE DEF F
    <3>1. Len(feedbackQ) \in Nat /\ f \in Nat /\ \A i \in f + 1 .. Len(feedbackQ) : feedbackQ[i] \in F
      BY <1>1, <2>2
    <3>2. SubSeq(feedbackQ, f + 1, Len(feedbackQ)) \in Seq(F)
      BY <3>1
    <3>3. QED
      BY <1>1, <3>2
  <2>5. events' \subseteq 0 .. config.layers /\ pc' \in {"poll", "decide", "stopped"}
    BY <1>1, <2>3 DEF Protocol, Types
  <2>6. QED
    BY <1>1, <1>2, <2>1, <2>4, <2>5 DEF Protocol, Types
<1>9. Starting'
  BY <1>2 DEF Starting
<1>10. Stream'
  <2>1. Taken + Len(buffer') + Len(schedQ') = Taken + Len(buffer) + Len(schedQ)
    BY <1>3, <1>5
  <2>2. Carries(todo', config, request, Taken + Len(buffer') + Len(schedQ'))
    BY <1>1, <1>4, <2>1
  <2>3. /\ phase = "send" <=> todo # << >>
        /\ phase = "done" => Taken = size
        /\ Counting => Taken \in {0, size}
        /\ ~Counting => Begun(config, request, Taken, policy.req)
    BY <1>2 DEF Protocol, Stream
  <2>4. QED
    BY <1>1, <1>5, <1>6, <2>2, <2>3 DEF Stream, Counting
<1>11. Tasks'
  <2>1. Size(config', request') = size
    BY <1>1
  <2>2. pc' # "stopped"
    BY <1>1
  <2>3. QED
    BY <1>1, <1>2, <1>6, <1>7, <2>1, <2>2 DEF Protocol, Tasks
<1>12. Jobs'
  BY <1>1, <1>2, <1>6, <1>7 DEF Protocol, Jobs
<1>13. Released'
  BY <1>1, <1>2, <1>7 DEF Protocol, Released
<1>14. Unfinished'
  BY <1>1, <1>2, <1>7 DEF Protocol, Unfinished, Speculating
<1>15. QED
  BY <1>8, <1>9, <1>10, <1>11, <1>12, <1>13, <1>14 DEF Protocol

-----------------------------------------------------------------------------
(* The result arrives; the next request begins, or the experiment ends.     *)
LEMMA Fresh ==
    ASSUME Agreed, NEW c, NEW r, Given(c, r)
    PROVE  /\ Carries(PatchesOf(c, r), c, r, 0) /\ Carries(<< >>, c, r, 0)
           /\ Len(PatchesOf(c, r)) = Size(c, r) /\ Size(c, r) \in Nat /\ Size(c, r) > 0
           /\ \A req : Begun(c, r, 0, req)
<1> DEFINE n == c.groupsOf[r]
<1>1. n \in Nat
  BY GivenType
<1>2. 0 \in 0 .. n + 1 /\ n + 1 \in 0 .. n + 1 /\ 0 < n + 1 /\ 0 \in 0 .. n
  BY <1>1
<1>3. Offset(c, r, 0) = 0 /\ Offset(c, r, n + 1) = Size(c, r)
  BY <1>2, OffsetNext
<1>4. Offset(c, r, 0) < Offset(c, r, n + 1)
  BY <1>2, OffsetOrder
<1>5. Size(c, r) \in Nat
  BY <1>2, PatchesAt
<1>6. \A req : Begun(c, r, 0, req)
  BY <1>2, <1>3 DEF Begun
<1>7. Len(PatchesOf(c, r)) = Size(c, r)
  BY DEF Size
<1>8. QED
  BY <1>3, <1>4, <1>5, <1>6, <1>7, CarriesAll

LEMMA ReceiveResultKeeps ==
    ASSUME Agreed, Protocol, ReceiveResult, config' = config PROVE Protocol'
<1>1. /\ phase = "wait" /\ resultQ # << >> /\ resultQ' = Tail(resultQ)
      /\ UNCHANGED << schedQ, feedbackQ, workerQ, buffer, policy, events, taskId, pc,
                      sessions, task, monitorQ >>
      /\ \/ /\ request < MaxRequests /\ request' = request + 1 /\ phase' = "send"
            /\ todo' = Patches(request + 1) /\ controlQ' = controlQ
         \/ /\ phase' = "done" /\ controlQ' = Append(controlQ, "STOP")
            /\ request' = request /\ todo' = todo
  BY DEF ReceiveResult, workerVars
<1>2. Serving /\ Serving'
  BY <1>1 DEF Serving
<1>3. /\ Taken = Size(config, request) /\ Tail(resultQ) = << >> /\ ~Live
      /\ buffer = << >> /\ schedQ = << >> /\ todo = << >> /\ controlQ = << >>
  BY <1>1, <1>2, Serves DEF Protocol, Tasks, Live
<1>4. DOMAIN workerQ = {} /\ workerQ \in Seq(MessageOf(config)) /\ workerQ = << >>
  <2>1. \A i \in DOMAIN workerQ : FALSE
    BY <1>1, <1>2, <1>3 DEF Protocol, Tasks
  <2>2. workerQ \in Seq(MessageOf(config))
    BY DEF Protocol, Types
  <2> DEFINE M == MessageOf(config)
             w == workerQ
  <2>3. w \in Seq(M) /\ \A i \in DOMAIN w : FALSE
    BY <2>1, <2>2
  <2> HIDE DEF M, w
  <2>4. DOMAIN w = {} /\ w = << >>
    <3>1. w # << >> => 1 \in DOMAIN w
      BY <2>3, QueueFirst
    <3>2. w = << >>
      BY <2>3, <3>1
    <3>3. QED
      BY <3>2
  <2>5. QED
    BY <2>2, <2>4 DEF w
<1>5. ~Speculating /\ JobsOver(Pending, Current) /\ pc # "stopped"
      /\ Current \in {None} \cup 0 .. taskId - 1
  BY <1>1, <1>2, <1>3 DEF Protocol, Tasks, Jobs, Unfinished
<1>6. /\ Given(config, request')
      /\ phase' = "send" => todo' = PatchesOf(config, request')
      /\ phase' = "send" \/ (phase' = "done" /\ request' = request /\ todo' = << >>)
      /\ phase' = "send" => controlQ' = << >>
      /\ phase' = "done" => controlQ' = << "STOP" >>
  <2>1. Given(config, request) /\ config.groupsOf \in Seq(Nat)
    BY PipelineAssumption DEF Protocol, Types, Given
  <2>2. request < MaxRequests => request + 1 \in DOMAIN config.groupsOf
    BY <2>1 DEF Given, MaxRequests, GroupsOf
  <2>3. QED
    BY <1>1, <1>3, <2>1, <2>2, SamePatches DEF Given
<1> DEFINE size == Size(config, request')
<1>7. /\ Carries(<< >>, config, request', 0) /\ Carries(PatchesOf(config, request'), config, request', 0)
      /\ Len(PatchesOf(config, request')) = size /\ size \in Nat /\ size > 0
      /\ \A req : Begun(config, request', 0, req)
  BY <1>6, Fresh
<1>8. /\ phase' = "send" => Taken' = 0
      /\ phase' = "done" => Taken' = size /\ Taken' = Taken
  <2>1. Len(buffer') = 0 /\ Len(schedQ') = 0
    BY <1>1, <1>3
  <2>2. Taken' = size - Len(todo')
    BY <1>7, <2>1 DEF Taken
  <2>3. QED
    BY <1>3, <1>6, <1>7, <2>2
<1>9. /\ ~Live' /\ Current' = Current /\ Pending' = Pending
      /\ resultQ' = << >> /\ workerQ' = << >> /\ DOMAIN workerQ' = {}
  BY <1>1, <1>3, <1>4, <1>6, <1>8 DEF Live, Current, Pending, Counting
<1>10. Types'
  <2>1. todo' \in Seq(PatchRecord)
    BY <1>6, <1>7 DEF Carries
  <2>2. controlQ' \in Seq({"CONFIG", "TIME_SYNC", "STOP"})
    <3>1. controlQ' = << >> \/ controlQ' = << "STOP" >>
      BY <1>6
    <3>2. << "STOP" >> \in Seq({"CONFIG", "TIME_SYNC", "STOP"})
      OBVIOUS
    <3>3. << >> \in Seq({"CONFIG", "TIME_SYNC", "STOP"})
      OBVIOUS
    <3>4. QED
      BY <3>1, <3>2, <3>3, Zenon
  <2>3. QED
    BY <1>1, <1>2, <1>6, <2>1, <2>2 DEF Protocol, Types
<1>11. Starting'
  BY <1>2 DEF Starting
<1>12. Stream'
  <2>1. CASE phase' = "send"
    <3>1. Len(buffer') = 0 /\ Len(schedQ') = 0
      BY <1>1, <1>3
    <3>2. /\ Carries(buffer', config', request', Taken')
          /\ Carries(schedQ', config', request', Taken' + Len(buffer'))
          /\ Carries(todo', config', request', Taken' + Len(buffer') + Len(schedQ'))
      BY <1>1, <1>3, <1>6, <1>7, <1>8, <2>1, <3>1
    <3>3. todo' # << >>
      BY <1>6, <1>7, <2>1
    <3>4. Begun(config', request', Taken', policy'.req)
      BY <1>7, <1>8, <2>1
    <3>5. QED
      BY <1>8, <2>1, <3>2, <3>3, <3>4 DEF Stream
  <2>2. CASE phase' = "done"
    <3>1. UNCHANGED << buffer, schedQ, todo, request, policy >> /\ Taken' = Taken
      BY <1>1, <1>3, <1>6, <1>8, <2>2
    <3>2. todo' = << >> /\ size = Size(config, request)
      BY <1>6, <2>2
    <3>3. QED
      BY <1>2, <1>3, <2>2, <3>1, <3>2 DEF Protocol, Stream, Counting
  <2>3. QED
    BY <1>6, <2>1, <2>2
<1>13. Tasks'
  BY <1>1, <1>5, <1>6, <1>9 DEF Tasks
<1>14. Jobs'
  BY <1>1, <1>2, <1>5, <1>9 DEF Protocol, Jobs
<1>15. Released'
  BY <1>1, <1>2, <1>3, <1>9 DEF Protocol, Released
<1>16. Unfinished'
  BY <1>1, <1>5 DEF Unfinished, Speculating
<1>17. QED
  BY <1>10, <1>11, <1>12, <1>13, <1>14, <1>15, <1>16 DEF Protocol

LEMMA StopKeeps ==
    ASSUME Agreed, Protocol, Stop, config' = config,
           UNCHANGED << workerVars, resultQ, clientVars >>
    PROVE  Protocol'
<1>1. /\ controlQ # << >> /\ Head(controlQ) = "STOP" /\ controlQ' = Tail(controlQ)
      /\ workerQ' = Append(workerQ, Message("STOP")) /\ pc' = "stopped"
      /\ UNCHANGED << policy, buffer, taskId, schedQ, feedbackQ, events, sessions, task,
                      monitorQ, resultQ, phase, request, todo >>
  BY DEF Stop, Control, workerVars, clientVars
<1>2. Serving /\ Serving'
  <2>1. Serving
    BY <1>1 DEF Protocol, Starting
  <2>2. QED
    BY <1>1, <2>1 DEF Serving
<1>3. phase = "done" /\ controlQ = << "STOP" >>
  BY <1>1, <1>2 DEF Protocol, Tasks
<1>4. controlQ' = << >>
  BY <1>1, <1>3
<1>5. Taken' = Taken /\ Live' = Live /\ Current' = Current /\ Pending' = Pending /\ ~Live
  BY <1>1, <1>3 DEF Taken, Live, Current, Pending, Counting
<1> DEFINE M == MessageOf(config)
           m == Message("STOP")
<1>6. m \in M /\ workerQ \in Seq(M)
  BY NoTaskType DEF Message, MessageOf, Protocol, Types
<1>7. /\ workerQ' \in Seq(M) /\ Len(workerQ') = Len(workerQ) + 1 /\ Len(workerQ) \in Nat
      /\ \A i \in DOMAIN workerQ' : i \in DOMAIN workerQ \/ workerQ'[i] = m
      /\ \A i \in DOMAIN workerQ : workerQ'[i] = workerQ[i]
  <2>1. workerQ' = Append(workerQ, m)
    BY <1>1
  <2> HIDE DEF M, m
  <2>2. QED
    BY <1>6, <2>1
<1>8. Types'
  BY <1>1, <1>2, <1>4, <1>7 DEF Protocol, Types
<1>9. Starting'
  BY <1>2 DEF Starting
<1>10. Stream'
  BY <1>1, <1>2, <1>5 DEF Protocol, Stream, Counting
<1>11. Tasks'
  <2>1. \A i \in DOMAIN workerQ' : workerQ'[i] = m
    BY <1>2, <1>3, <1>7 DEF Protocol, Tasks
  <2>2. m = m'
    BY DEF Message, NoTask, Task
  <2>3. /\ resultQ = << >> /\ Current \in {None} \cup 0 .. taskId - 1
    BY <1>2, <1>3 DEF Protocol, Tasks
  <2>4. QED
    BY <1>1, <1>3, <1>4, <1>5, <2>1, <2>2, <2>3 DEF Tasks
<1>12. Jobs'
  BY <1>1, <1>2, <1>5 DEF Protocol, Jobs
<1>13. Released'
  BY <1>1, <1>2, <1>5 DEF Protocol, Released
<1>14. Unfinished'
  BY <1>1, <1>2, <1>3, <1>5 DEF Protocol, Unfinished, Speculating
<1>15. QED
  BY <1>8, <1>9, <1>10, <1>11, <1>12, <1>13, <1>14 DEF Protocol

LEMMA StutterKeeps ==
    ASSUME Protocol, config' = config, UNCHANGED vars
    PROVE  Protocol'
<1>1. UNCHANGED << controlQ, schedQ, feedbackQ, workerQ, buffer, policy, events, taskId, pc,
                   sessions, task, monitorQ, resultQ, phase, request, todo >>
  BY DEF vars, schedulerVars, workerVars, clientVars
<1>2. Taken' = Taken /\ Live' = Live /\ Current' = Current /\ Pending' = Pending
      /\ Serving' = Serving
  BY <1>1 DEF Taken, Live, Current, Pending, Counting, Serving
<1>3. Types'
  BY <1>1, <1>2 DEF Protocol, Types
<1>4. Starting'
  <2>1. NoPolicy' = NoPolicy /\ NewPolicy' = NewPolicy
    BY DEF NoPolicy, NewPolicy, Policy, NumGroups
  <2>2. QED
    BY <1>1, <1>2, <2>1 DEF Protocol, Starting
<1>5. Stream'
  BY <1>1, <1>2 DEF Protocol, Stream, Counting
<1>6. Tasks'
  BY <1>1, <1>2 DEF Protocol, Tasks
<1>7. Jobs'
  BY <1>1, <1>2 DEF Protocol, Jobs
<1>8. Released'
  BY <1>1, <1>2 DEF Protocol, Released
<1>9. Unfinished'
  BY <1>1, <1>2 DEF Protocol, Unfinished, Speculating
<1>10. QED
  BY <1>3, <1>4, <1>5, <1>6, <1>7, <1>8, <1>9 DEF Protocol

-----------------------------------------------------------------------------
(* A task the GPU thread begins: its jobs follow those launched before.     *)
LEMMA JobsTaken ==
    ASSUME NEW c, NEW q \in Seq(JobType(c)), NEW t \in TaskOf(c), NEW cur,
           JobsLive(q, cur), ~Answers(q, cur), t.req = cur,
           Open(t.instrs) \/ Closing(t.instrs), t.instrs # << >>, NEW s, Behind(s, q, JobsOf(t))
    PROVE  /\ JobsLive(s, cur) /\ (Answers(s, cur) => Closing(t.instrs))
           /\ \A x : Freed(q, x) => Freed(s, x)
<1> DEFINE J == JobType(c)
           m == Len(q)
           n == Len(t.instrs)
           a == JobsOf(t)
<1>1. t.instrs \in Seq(InstrOf(c)) /\ n \in Nat /\ m \in Nat /\ DOMAIN t.instrs = 1 .. n /\ n > 0
  BY DEF TaskOf
<1>2. a \in Seq(J) /\ Len(a) = n /\ \A i \in 1 .. n : a[i] = JobOf(t.instrs[i], t)
  BY JobsOfType
<1>3. q \in Seq(J) /\ Behind(s, q, a)
  OBVIOUS
<1>4. DOMAIN q = 1 .. m
  OBVIOUS
<1> HIDE DEF J, m, n, a
<1>5. /\ s \in Seq(J) /\ Len(s) = m + n /\ DOMAIN s = 1 .. m + n
      /\ \A i \in 1 .. m : s[i] = q[i]
      /\ \A i \in 1 .. n : s[m + i] = a[i]
  BY <1>2, <1>3, QueueJoin DEF m
<1>6. ASSUME NEW j \in 1 .. m
      PROVE  \/ s[j].req = cur /\ s[j].op \notin AnswerOps
             \/ j = 1 /\ s[j].op = "FREE_SESSION" /\ s[j].req < cur
  BY <1>4, <1>5 DEF JobsLive, Answers, AnswerOps
<1>7. \A i \in 1 .. n : s[m + i].req = cur /\ s[m + i].op = t.instrs[i].op
  BY <1>2, <1>5 DEF JobOf
<1>8. JobsLive(s, cur)
  <2> SUFFICES ASSUME NEW j \in 1 .. m + n
               PROVE  \/ /\ s[j].req = cur
                         /\ s[j].op = "SEND_RESPONSE" =>
                               j + 1 = Len(s) /\ s[j + 1].op = "FREE_SESSION" /\ s[j + 1].req = cur
                         /\ s[j].op = "FREE_SESSION" => j = Len(s)
                      \/ j = 1 /\ s[j].op = "FREE_SESSION" /\ s[j].req < cur
    BY <1>5 DEF JobsLive
  <2>1. CASE j <= m
    BY <1>1, <1>6, <2>1 DEF AnswerOps
  <2>2. CASE j > m
    <3> DEFINE i == j - m
    <3>1. i \in 1 .. n /\ m + i = j
      BY <1>1, <2>2
    <3> HIDE DEF i
    <3>2. s[j].req = cur /\ s[j].op = t.instrs[i].op
      BY <1>7, <3>1
    <3>3. CASE Open(t.instrs)
      <4>1. s[j].op \notin AnswerOps
        BY <1>1, <3>1, <3>2, <3>3 DEF Open
      <4>2. QED
        BY <3>2, <4>1 DEF AnswerOps
    <3>4. CASE Closing(t.instrs)
      <4>1. /\ n >= 2 /\ t.instrs[n - 1].op = "SEND_RESPONSE" /\ t.instrs[n].op = "FREE_SESSION"
            /\ \A k \in 1 .. n - 2 : t.instrs[k].op \notin AnswerOps
        BY <3>4 DEF Closing, n
      <4>2. CASE i <= n - 2
        BY <1>1, <3>1, <3>2, <4>1, <4>2 DEF AnswerOps
      <4>3. CASE i = n - 1
        <5>1. j + 1 = m + n /\ n \in 1 .. n /\ s[j + 1] = s[m + n]
          BY <1>1, <3>1, <4>1, <4>3
        <5>2. s[j].op = "SEND_RESPONSE" /\ s[j + 1].op = "FREE_SESSION" /\ s[j + 1].req = cur
          BY <1>7, <3>2, <4>1, <4>3, <5>1
        <5>3. QED
          BY <1>5, <3>2, <5>1, <5>2
      <4>4. CASE i = n
        <5>1. j = m + n /\ s[j].op = "FREE_SESSION"
          BY <3>1, <3>2, <4>1, <4>4
        <5>2. QED
          BY <1>5, <3>2, <5>1
      <4>5. QED
        BY <1>1, <3>1, <4>2, <4>3, <4>4
    <3>5. QED
      BY <3>3, <3>4
  <2>3. QED
    BY <1>1, <2>1, <2>2
<1>9. ASSUME Answers(s, cur), ~Closing(t.instrs) PROVE FALSE
  <2>1. Open(t.instrs)
    BY <1>9
  <2>2. PICK j \in 1 .. m + n : s[j].req = cur /\ s[j].op \in AnswerOps
    BY <1>5, <1>9 DEF Answers
  <2>3. CASE j <= m
    <3>1. j \in DOMAIN q /\ s[j] = q[j]
      BY <1>1, <1>4, <1>5, <2>3
    <3>2. QED
      BY <2>2, <3>1 DEF Answers
  <2>4. CASE j > m
    <3>1. j - m \in 1 .. n /\ m + (j - m) = j
      BY <1>1, <2>4
    <3>2. s[j].op = t.instrs[j - m].op
      BY <1>7, <3>1
    <3>3. QED
      BY <1>1, <2>1, <2>2, <3>1, <3>2 DEF Open
  <2>5. QED
    BY <1>1, <2>3, <2>4
<1>10. ASSUME NEW x, Freed(q, x) PROVE Freed(s, x)
  <2>1. q # << >> /\ q[1].op = "FREE_SESSION" /\ q[1].req = x
    BY <1>10 DEF Freed
  <2>2. m >= 1
    BY <1>3, <2>1 DEF m
  <2>3. 1 \in 1 .. m /\ Len(s) # 0
    BY <1>1, <1>5, <2>2
  <2>4. s # << >>
    BY <2>3
  <2>5. QED
    BY <1>5, <2>1, <2>3, <2>4 DEF Freed
<1>11. QED
  BY <1>8, <1>9, <1>10

LEMMA TakeEarly ==
    ASSUME Protocol, ~Serving, TakeMessage, config' = config PROVE Protocol'
<1> DEFINE a == Message("CONFIG")
           b == Message("TIME_SYNC")
<1>1. /\ task = NoTask /\ workerQ # << >> /\ workerQ' = Tail(workerQ)
      /\ UNCHANGED << controlQ, schedQ, feedbackQ, buffer, policy, events, taskId, pc, monitorQ,
                      phase, request, todo >>
  BY DEF TakeMessage, queueVars, clientVars
<1>2. /\ a.type = "CONFIG" /\ b.type = "TIME_SYNC"
  BY DEF Message
<1>3. /\ schedQ = << >> /\ buffer = << >> /\ todo = << >> /\ feedbackQ = << >>
      /\ sessions = << >> /\ task = NoTask /\ monitorQ = << >> /\ events = {}
      /\ pc = "poll" /\ taskId = 0 /\ request = 1 /\ phase # "config"
      /\ policy = NewPolicy /\ resultQ = << >>
      /\ \/ controlQ = << "TIME_SYNC" >> /\ workerQ = << a >>
         \/ controlQ = << >> /\ workerQ = << a, b >>
         \/ controlQ = << >> /\ workerQ = << b >>
  BY <1>1 DEF Protocol, Starting
<1>4. a \in MessageOf(config) /\ b \in MessageOf(config)
  BY NoTaskType DEF Message, MessageOf
<1>5. ~Serving'
  BY <1>1 DEF Serving
<1>6. NewPolicy' = NewPolicy /\ NoTask' = NoTask
  BY DEF NewPolicy, Policy, NumGroups, NoTask, Task
<1>7. CASE Head(workerQ) = a
  <2>1. sessions' = << >> /\ task' = task /\ resultQ' = resultQ
    BY <1>2, <1>7 DEF TakeMessage
  <2>2. \/ controlQ' = << "TIME_SYNC" >> /\ workerQ' = << >>
        \/ controlQ' = << >> /\ workerQ' = << b >>
    <3>1. b # a
      BY <1>2
    <3> HIDE DEF a, b
    <3>2. Head(<< a >>) = a /\ Head(<< b >>) = b /\ Tail(<< a >>) = << >>
          /\ Tail(<< a, b >>) = << b >>
      OBVIOUS
    <3>3. QED
      BY <1>1, <1>3, <1>7, <3>1, <3>2
  <2>3. workerQ' \in Seq(MessageOf(config))
    <3> HIDE DEF a, b
    <3>1. << b >> \in Seq(MessageOf(config)) /\ << >> \in Seq(MessageOf(config))
      BY <1>4
    <3>2. QED
      BY <2>2, <3>1
  <2>4. Types'
    BY <1>1, <1>3, <1>5, <2>1, <2>3 DEF Protocol, Types
  <2>5. Starting'
    BY <1>1, <1>3, <1>6, <2>1, <2>2 DEF Starting
  <2>6. QED
    BY <1>5, <2>4, <2>5, StartsSo
<1>8. CASE Head(workerQ) = b
  <2> DEFINE x == [sync |-> TRUE, req |-> None, final |-> << >>]
  <2>1. sessions' = sessions /\ task' = task /\ resultQ' = Append(resultQ, x)
    BY <1>2, <1>8 DEF TakeMessage
  <2>2. controlQ' = << >> /\ workerQ' = << >>
    <3>1. b # a
      BY <1>2
    <3> HIDE DEF a, b
    <3>2. Head(<< a >>) = a /\ Head(<< a, b >>) = a /\ Tail(<< b >>) = << >>
      OBVIOUS
    <3>3. QED
      BY <1>1, <1>3, <1>8, <3>1, <3>2
  <2>3. resultQ' # << >> /\ Tail(resultQ') = << >>
    <3> HIDE DEF x
    <3>1. resultQ' = << x >>
      BY <1>3, <2>1
    <3>2. QED
      BY <3>1
  <2>4. Types'
    BY <1>1, <1>3, <1>5, <2>1, <2>2 DEF Protocol, Types
  <2>5. Starting'
    BY <1>1, <1>3, <1>6, <2>1, <2>2, <2>3 DEF Starting
  <2>6. QED
    BY <1>5, <2>4, <2>5, StartsSo
<1>9. Head(workerQ) = a \/ Head(workerQ) = b
  <2> HIDE DEF a, b
  <2>1. Head(<< a >>) = a /\ Head(<< b >>) = b /\ Head(<< a, b >>) = a
    OBVIOUS
  <2>2. QED
    BY <1>3, <2>1
<1>10. QED
  BY <1>7, <1>8, <1>9

LEMMA TakeOver ==
    ASSUME Agreed, Protocol, phase = "done", TakeMessage, config' = config PROVE Protocol'
<1> DEFINE m == Message("STOP")
           M == MessageOf(config)
<1>1. /\ task = NoTask /\ workerQ # << >> /\ workerQ' = Tail(workerQ)
      /\ UNCHANGED << controlQ, schedQ, feedbackQ, buffer, policy, events, taskId, pc, monitorQ,
                      phase, request, todo >>
  BY DEF TakeMessage, queueVars, clientVars
<1>2. Serving /\ Serving'
  BY <1>1 DEF Serving
<1>3. workerQ \in Seq(M) /\ \A i \in DOMAIN workerQ : workerQ[i] = m
  BY <1>2 DEF Protocol, Types, Tasks
<1>4. Head(workerQ) = m /\ workerQ' \in Seq(M) /\ \A i \in DOMAIN workerQ' : workerQ'[i] = m
  <2> HIDE DEF m, M
  <2>1. 1 \in DOMAIN workerQ /\ Head(workerQ) = workerQ[1]
    BY <1>1, <1>3, QueueFirst
  <2>2. /\ workerQ' \in Seq(M) /\ Len(workerQ') = Len(workerQ) - 1 /\ Len(workerQ) \in Nat
        /\ \A i \in 1 .. Len(workerQ) - 1 : workerQ'[i] = workerQ[i + 1]
    BY <1>1, <1>3, QueueTail
  <2>3. ASSUME NEW i \in DOMAIN workerQ' PROVE workerQ'[i] = m
    <3> DEFINE w == workerQ'
    <3>1. w \in Seq(M) /\ i \in DOMAIN w /\ Len(w) = Len(workerQ) - 1
      BY <2>2
    <3> HIDE DEF w
    <3>2. i \in 1 .. Len(workerQ) - 1
      BY <3>1
    <3>3. i + 1 \in DOMAIN workerQ
      BY <1>3, <2>2, <3>2
    <3>4. QED
      BY <1>3, <2>2, <3>2, <3>3
  <2>4. QED
    BY <1>3, <2>1, <2>2, <2>3
<1>5. sessions' = sessions /\ task' = task /\ resultQ' = resultQ
  BY <1>4 DEF TakeMessage, Message
<1>6. Taken' = Taken /\ Live' = Live /\ Current' = Current /\ Pending' = Pending /\ ~Live
  BY <1>1, <1>5 DEF Taken, Live, Current, Pending, Counting
<1>7. Types'
  BY <1>1, <1>2, <1>4, <1>5 DEF Protocol, Types
<1>8. Starting'
  BY <1>2 DEF Starting
<1>9. Stream'
  BY <1>1, <1>2, <1>6 DEF Protocol, Stream, Counting
<1>10. Tasks'
  <2>1. m = m'
    BY DEF Message, NoTask, Task
  <2>2. QED
    BY <1>1, <1>2, <1>4, <1>5, <1>6, <2>1 DEF Protocol, Tasks
<1>11. Jobs'
  BY <1>1, <1>2, <1>5, <1>6 DEF Protocol, Jobs
<1>12. Released'
  BY <1>1, <1>2, <1>5, <1>6 DEF Protocol, Released
<1>13. Unfinished'
  BY <1>1, <1>2, <1>6 DEF Protocol, Unfinished, Speculating
<1>14. QED
  BY <1>7, <1>8, <1>9, <1>10, <1>11, <1>12, <1>13 DEF Protocol

LEMMA TakeTask ==
    ASSUME Agreed, Protocol, Serving, phase # "done", TakeMessage, config' = config
    PROVE  Protocol'
<1> DEFINE M == MessageOf(config)
           t == Head(workerQ).task
           n == Len(workerQ)
<1>1. /\ task = NoTask /\ workerQ # << >> /\ workerQ' = Tail(workerQ)
      /\ UNCHANGED << controlQ, schedQ, feedbackQ, buffer, policy, events, taskId, pc, monitorQ,
                      phase, request, todo >>
  BY DEF TakeMessage, queueVars, clientVars
<1>2. Serving'
  BY <1>1 DEF Serving
<1>3. workerQ \in Seq(M) /\ 1 \in DOMAIN workerQ /\ Head(workerQ) = workerQ[1]
      /\ Head(workerQ) \in M
  <2>1. workerQ \in Seq(M)
    BY DEF Protocol, Types
  <2> HIDE DEF M
  <2>2. QED
    BY <1>1, <2>1, QueueFirst
<1>4. /\ Head(workerQ).type = "TASK" /\ Live /\ t.req = Current /\ Shape(config, request, t)
      /\ Closing(t.instrs) => n = 1 /\ Taken = Size(config, request)
      /\ t \in TaskOf(config) /\ resultQ = << >>
  <2>1. t \in TaskOf(config)
    BY <1>3 DEF MessageOf
  <2>2. QED
    BY <1>3, <2>1 DEF Protocol, Tasks, Live
<1>5. /\ task' = t /\ resultQ' = resultQ
      /\ sessions' = IF t.req \in DOMAIN sessions THEN sessions
                     ELSE Kept(t.req, NewSession)
  BY <1>4 DEF TakeMessage
<1>6. /\ workerQ' \in Seq(M) /\ Len(workerQ') = n - 1 /\ n \in Nat /\ DOMAIN workerQ = 1 .. n
      /\ DOMAIN workerQ' = 1 .. n - 1
      /\ \A i \in DOMAIN workerQ' : i + 1 \in DOMAIN workerQ /\ workerQ'[i] = workerQ[i + 1]
  <2> DEFINE w == workerQ'
  <2>1. w = Tail(workerQ)
    BY <1>1
  <2> HIDE DEF w, M
  <2>2. /\ w \in Seq(M) /\ Len(w) = Len(workerQ) - 1 /\ Len(workerQ) \in Nat
        /\ \A i \in 1 .. Len(workerQ) - 1 : w[i] = workerQ[i + 1]
    BY <1>1, <1>3, <2>1, QueueTail
  <2>3. DOMAIN w = 1 .. n - 1 /\ DOMAIN workerQ = 1 .. n
    BY <1>3, <2>2
  <2>4. \A i \in 1 .. n - 1 : i + 1 \in 1 .. n
    BY <2>2
  <2>5. QED
    BY <2>2, <2>3, <2>4 DEF w
<1> HIDE DEF t, n
<1>7. Taken' = Taken /\ Live' = Live /\ Current' = Current
  BY <1>1, <1>5 DEF Taken, Live, Current, Counting
<1>8. /\ monitorQ \in Seq(JobType(config)) /\ Pending = monitorQ
      /\ Behind(Pending', monitorQ, JobsOf(t))
  <2> DEFINE J == JobType(config)
             q == monitorQ
  <2>1. q \in Seq(J) /\ Pending = q \o << >>
    BY <1>1, NoTaskType DEF Protocol, Types, Pending
  <2> HIDE DEF J, q
  <2>2. Pending = q
    BY <2>1
  <2>3. Pending' = q \o JobsOf(t)
    BY <1>1, <1>5 DEF Pending, q
  <2>4. QED
    BY <2>1, <2>2, <2>3 DEF Behind, q, J
<1>9. /\ JobsLive(monitorQ, Current) /\ ~Answers(monitorQ, Current)
  BY <1>1, <1>4, <1>8 DEF Protocol, Jobs
<1>10. /\ JobsLive(Pending', Current) /\ (Answers(Pending', Current) => Closing(t.instrs))
       /\ \A x : Freed(Pending, x) => Freed(Pending', x)
  BY <1>4, <1>8, <1>9, JobsTaken DEF Shape
<1>11. Types'
  <2>1. t.req \in Int
    BY <1>4 DEF TaskOf
  <2>2. DOMAIN sessions \subseteq Int /\ sessions = [q \in DOMAIN sessions |-> sessions[q]]
    BY DEF Protocol, Types
  <2>3. DOMAIN sessions' \subseteq Int /\ sessions' = [q \in DOMAIN sessions' |-> sessions'[q]]
    BY <1>5, <2>1, <2>2 DEF Kept
  <2>4. QED
    BY <1>1, <1>2, <1>4, <1>5, <1>6, <2>3 DEF Protocol, Types
<1>12. Starting'
  BY <1>2 DEF Starting
<1>13. Stream'
  BY <1>1, <1>7 DEF Protocol, Stream, Counting
<1>14. Tasks'
  <2>1. ASSUME NEW i \in DOMAIN workerQ'
        PROVE  /\ workerQ'[i].type = "TASK" /\ Live'
               /\ workerQ'[i].task.req = Current' /\ Shape(config', request', workerQ'[i].task)
               /\ Closing(workerQ'[i].task.instrs) =>
                     i = Len(workerQ') /\ Taken' = Size(config', request')
    <3>1. /\ i + 1 \in DOMAIN workerQ /\ workerQ'[i] = workerQ[i + 1]
          /\ i + 1 = Len(workerQ) => i = Len(workerQ')
      BY <1>6 DEF n
    <3>2. /\ workerQ[i + 1].type = "TASK"
          /\ workerQ[i + 1].task.req = Current /\ Shape(config, request, workerQ[i + 1].task)
          /\ Closing(workerQ[i + 1].task.instrs) =>
                i + 1 = Len(workerQ) /\ Taken = Size(config, request)
      BY <3>1 DEF Protocol, Tasks
    <3>3. QED
      BY <1>1, <1>4, <1>7, <3>1, <3>2
  <2>2. resultQ' = << >> /\ phase' # "done"
    BY <1>1, <1>4, <1>5
  <2>3. controlQ' = << >> /\ pc' # "stopped"
    BY <1>1 DEF Protocol, Tasks
  <2>4. Current' \in {None} \cup 0 .. taskId' - 1 /\ (Live' => Current' \in 0 .. taskId' - 1)
    BY <1>1, <1>7 DEF Protocol, Tasks
  <2>5. QED
    BY <2>1, <2>2, <2>3, <2>4 DEF Tasks
<1>15. Jobs'
  <2>1. task' # NoTask' => task'.instrs # << >>
    BY <1>4, <1>5 DEF Shape
  <2>2. Answers(Pending', Current) => workerQ' = << >> /\ Taken = Size(config, request)
    <3>1. Answers(Pending', Current) => n = 1 /\ Taken = Size(config, request)
      BY <1>4, <1>10
    <3> DEFINE w == workerQ'
    <3>2. w \in Seq(M) /\ Len(w) = n - 1
      BY <1>6
    <3> HIDE DEF w, M
    <3>3. n = 1 => w = << >>
      BY <3>2
    <3>4. QED
      BY <3>1, <3>3 DEF w
  <2>3. QED
    BY <1>1, <1>4, <1>7, <1>10, <2>1, <2>2 DEF Jobs
<1>16. Released'
  <2> SUFFICES ASSUME NEW q \in DOMAIN sessions' PROVE q = Current \/ Freed(Pending', q)
    BY <1>4, <1>7 DEF Released
  <2>1. q \in DOMAIN sessions \/ q = Current
    BY <1>4, <1>5 DEF Kept
  <2>2. q \in DOMAIN sessions => q = Current \/ Freed(Pending, q)
    BY DEF Protocol, Released
  <2>3. QED
    BY <1>10, <2>1, <2>2
<1>17. Unfinished'
  <2> SUFFICES ASSUME Speculating PROVE /\ \A i \in DOMAIN workerQ' : Open(workerQ'[i].task.instrs)
                                        /\ ~Answers(Pending', Current)
    BY <1>1, <1>4, <1>7 DEF Unfinished, Speculating
  <2>1. \A i \in DOMAIN workerQ : Open(workerQ[i].task.instrs)
    BY DEF Protocol, Unfinished
  <2>2. Open(t.instrs)
    BY <1>3, <2>1 DEF t
  <2>3. ~Closing(t.instrs)
    <3>1. t.instrs \in Seq(InstrOf(config))
      BY <1>4 DEF TaskOf
    <3>2. Closing(t.instrs) => Len(t.instrs) \in DOMAIN t.instrs
      BY <3>1 DEF Closing
    <3>3. QED
      BY <2>2, <3>2 DEF Open, Closing, AnswerOps
  <2>4. QED
    BY <1>6, <1>10, <2>1, <2>3
<1>18. QED
  BY <1>11, <1>12, <1>13, <1>14, <1>15, <1>16, <1>17 DEF Protocol

-----------------------------------------------------------------------------
(* An instruction is launched, or raises.                                   *)
LEMMA RaisesEarly ==
    ASSUME NEW s, NEW i, Raises(s, i) PROVE i.op \notin AnswerOps
  BY DEF Raises, AnswerOps

(* The worker launches the next instruction of its task, or takes a task    *)
(* first.                                                                   *)
LEMMA NextJob ==
    ASSUME Protocol, task # NoTask
    PROVE  /\ Serving /\ task \in TaskOf(config) /\ task.instrs # << >>
           /\ Instruction = task.instrs[1] /\ 1 \in DOMAIN task.instrs
           /\ task.req = Current \/ Freed(Pending, task.req)
           /\ (Live /\ task.req = Current) \/ Instruction.op = "FREE_SESSION"
           /\ Pending = monitorQ \o JobsOf(task)
           /\ Len(Pending) = Len(monitorQ) + Len(task.instrs) /\ Len(task.instrs) > 0
           /\ Len(monitorQ) \in Nat /\ Len(task.instrs) \in Nat
           /\ Pending \in Seq(JobType(config))
           /\ \A i \in 1 .. Len(monitorQ) : Pending[i] = monitorQ[i]
           /\ \A i \in 1 .. Len(task.instrs) :
                 Pending[Len(monitorQ) + i] = JobOf(task.instrs[i], task)
<1>2. Serving /\ task \in TaskOf(config)
  BY DEF Protocol, Starting, Types
<1>3. task.instrs # << >> /\ task.instrs \in Seq(InstrOf(config))
  BY <1>2 DEF Protocol, Jobs, TaskOf
<1>4. Instruction = task.instrs[1] /\ 1 \in DOMAIN task.instrs /\ Len(task.instrs) > 0
      /\ Len(task.instrs) \in Nat
  BY <1>3 DEF Instruction
<1> DEFINE J == JobType(config)
           q == monitorQ
           a == JobsOf(task)
           s == Pending
           m == Len(monitorQ)
           n == Len(task.instrs)
<1>5. q \in Seq(J) /\ a \in Seq(J) /\ Behind(s, q, a) /\ Len(a) = n
      /\ \A i \in 1 .. n : a[i] = JobOf(task.instrs[i], task)
  BY <1>2, JobsOfType, PendingType DEF Protocol, Pending, Behind
<1> HIDE DEF J, a, s, n
<1>6. /\ s \in Seq(J) /\ Len(s) = Len(q) + Len(a) /\ Len(q) \in Nat
      /\ \A i \in 1 .. Len(q) : s[i] = q[i]
      /\ \A i \in 1 .. Len(a) : s[Len(q) + i] = a[i]
  BY <1>5, QueueJoin
<1>7. /\ Len(s) = m + n /\ m \in Nat /\ n \in Nat /\ n > 0 /\ DOMAIN s = 1 .. m + n
      /\ \A i \in 1 .. n : s[m + i] = JobOf(task.instrs[i], task)
  BY <1>4, <1>5, <1>6 DEF n
<1> HIDE DEF m
<1>8. s[m + 1].req = task.req /\ s[m + 1].op = Instruction.op /\ m + 1 \in DOMAIN s
  <2>1. 1 \in 1 .. n /\ m + 1 \in 1 .. m + n
    BY <1>7
  <2>2. s[m + 1] = JobOf(task.instrs[1], task)
    BY <1>7, <2>1
  <2>3. QED
    BY <1>4, <1>7, <2>1, <2>2 DEF JobOf
<1>9. s # << >>
  BY <1>6, <1>7
<1>10. (task.req = Current \/ Freed(s, task.req))
       /\ ((Live /\ task.req = Current) \/ Instruction.op = "FREE_SESSION")
  <2>1. CASE Live
    <3>1. JobsLive(s, Current)
      BY <1>2, <2>1 DEF Protocol, Jobs, s
    <3>2. \/ s[m + 1].req = Current
          \/ m + 1 = 1 /\ s[m + 1].op = "FREE_SESSION"
      BY <1>8, <3>1 DEF JobsLive
    <3>3. QED
      BY <1>8, <1>9, <2>1, <3>2 DEF Freed
  <2>2. CASE ~Live
    <3>1. JobsOver(s, Current)
      BY <1>2, <2>2 DEF Protocol, Jobs, s
    <3>2. Len(s) = 1 /\ s[1].op = "FREE_SESSION" /\ s[1].req = Current
      BY <1>9, <3>1 DEF JobsOver
    <3>3. m + 1 = 1
      <4>1. m \in Nat /\ n \in Nat /\ n > 0 /\ m + n = 1
        BY <1>7, <3>2
      <4>2. QED
        BY <4>1
    <3>4. QED
      BY <1>8, <3>2, <3>3
  <2>3. QED
    BY <2>1, <2>2
<1>11. QED
  BY <1>2, <1>3, <1>4, <1>5, <1>6, <1>7, <1>10 DEF Behind, s, J, a, m, n

LEMMA LaunchOf ==
    ASSUME Protocol, Launch
    PROVE  /\ Serving /\ task # NoTask /\ task \in TaskOf(config) /\ task.instrs # << >>
           /\ Instruction = task.instrs[1] /\ 1 \in DOMAIN task.instrs
           /\ UNCHANGED << controlQ, schedQ, feedbackQ, workerQ, buffer, policy, events, taskId,
                           pc, resultQ, phase, request, todo >>
           /\ task.req = Current \/ Freed(Pending, task.req)
           /\ Instruction.op \notin AnswerOps => Live /\ task.req = Current
           /\ Pending = monitorQ \o JobsOf(task)
           /\ Len(Pending) = Len(monitorQ) + Len(task.instrs) /\ Len(task.instrs) > 0
           /\ Len(monitorQ) \in Nat /\ Len(task.instrs) \in Nat
           /\ Pending \in Seq(JobType(config))
           /\ \A i \in 1 .. Len(monitorQ) : Pending[i] = monitorQ[i]
           /\ \A i \in 1 .. Len(task.instrs) :
                 Pending[Len(monitorQ) + i] = JobOf(task.instrs[i], task)
<1>1. /\ task # NoTask
      /\ UNCHANGED << controlQ, schedQ, feedbackQ, workerQ, buffer, policy, events, taskId,
                      pc, resultQ, phase, request, todo >>
  BY DEF Launch, schedulerVars, clientVars
<1>2. "FREE_SESSION" \in AnswerOps
  BY DEF AnswerOps
<1>3. QED
  BY <1>1, <1>2, NextJob

LEMMA LaunchKeeps ==
    ASSUME Agreed, Protocol, Launch, ~Raises(Context, Instruction), config' = config
    PROVE  Protocol'
<1>1. /\ Serving /\ task # NoTask /\ task \in TaskOf(config) /\ task.instrs # << >>
      /\ UNCHANGED << controlQ, schedQ, feedbackQ, workerQ, buffer, policy, events, taskId,
                      pc, resultQ, phase, request, todo >>
      /\ task.req = Current \/ Freed(Pending, task.req)
      /\ Len(task.instrs) > 0
  BY LaunchOf
<1>2. /\ \E s : sessions' = Kept(task.req, s)
      /\ monitorQ' = Append(monitorQ, JobOf(Head(task.instrs), task))
      /\ task' = IF Len(task.instrs) = 1 THEN NoTask ELSE [task EXCEPT !.instrs = Tail(@)]
  BY DEF Launch, Instruction, Job, JobOf
<1>3. monitorQ \in Seq(JobType(config))
  BY DEF Protocol, Types
<1>4. /\ task' \in TaskOf(config) /\ (task' # NoTask => task'.instrs # << >>)
      /\ JobOf(Head(task.instrs), task) \in JobType(config)
      /\ Append(monitorQ, JobOf(Head(task.instrs), task)) \o JobsOf(task') = monitorQ \o JobsOf(task)
  BY <1>1, <1>2, <1>3, Launched
<1>5. Pending' = Pending
  BY <1>2, <1>4 DEF Pending
<1>6. Serving' /\ Taken' = Taken /\ Live' = Live /\ Current' = Current
  BY <1>1 DEF Serving, Taken, Live, Current, Counting
<1>7. Types'
  <2>1. monitorQ' \in Seq(JobType(config))
    <3> DEFINE J == JobType(config)
               x == JobOf(Head(task.instrs), task)
    <3>1. monitorQ \in Seq(J) /\ x \in J /\ monitorQ' = Append(monitorQ, x)
      BY <1>2, <1>3, <1>4
    <3> HIDE DEF J, x
    <3>2. monitorQ' \in Seq(J)
      BY <3>1
    <3>3. QED
      BY <3>2 DEF J
  <2>2. task.req \in Int /\ DOMAIN sessions \subseteq Int
    BY <1>1 DEF TaskOf, Protocol, Types
  <2>3. DOMAIN sessions' \subseteq Int /\ sessions' = [q \in DOMAIN sessions' |-> sessions'[q]]
    BY <1>2, <2>2 DEF Kept
  <2>4. QED
    BY <1>1, <1>4, <1>6, <2>1, <2>3 DEF Protocol, Types
<1>8. Starting'
  BY <1>6 DEF Starting
<1>9. Stream'
  BY <1>1, <1>6 DEF Protocol, Stream, Counting
<1>10. Tasks'
  BY <1>1, <1>6 DEF Protocol, Tasks
<1>11. Jobs'
  <2>1. NoTask' = NoTask
    BY DEF NoTask, Task
  <2>2. QED
    BY <1>1, <1>4, <1>5, <1>6, <2>1 DEF Protocol, Jobs
<1>12. Released'
  <2> SUFFICES ASSUME NEW q \in DOMAIN sessions'
               PROVE  (Live /\ q = Current) \/ Freed(Pending, q)
    BY <1>5, <1>6 DEF Released
  <2>1. q \in DOMAIN sessions \/ q = task.req
    BY <1>2 DEF Kept
  <2>2. q \in DOMAIN sessions => (Live /\ q = Current) \/ Freed(Pending, q)
    BY <1>1 DEF Protocol, Released
  <2>3. q = task.req => (Live /\ q = Current) \/ Freed(Pending, q)
    <3>1. ASSUME ~Live PROVE Freed(Pending, task.req)
      <4>1. JobsOver(Pending, Current)
        BY <1>1, <3>1 DEF Protocol, Jobs
      <4>2. Pending # << >>
        <5>1. Len(Pending) > 0 /\ Pending \in Seq(JobType(config))
          BY LaunchOf
        <5> DEFINE s == Pending
        <5> HIDE DEF s
        <5>2. s # << >>
          BY <5>1 DEF s
        <5>3. QED
          BY <5>2 DEF s
      <4>3. QED
        BY <1>1, <4>1, <4>2 DEF JobsOver, Freed
    <3>2. QED
      BY <1>1, <3>1
  <2>4. QED
    BY <2>1, <2>2, <2>3
<1>13. Unfinished'
  BY <1>1, <1>5, <1>6 DEF Protocol, Unfinished, Speculating
<1>14. QED
  BY <1>7, <1>8, <1>9, <1>10, <1>11, <1>12, <1>13 DEF Protocol

LEMMA RaiseKeeps ==
    ASSUME Agreed, Protocol, Launch, Raises(Context, Instruction), config' = config
    PROVE  Protocol'
<1> DEFINE m == Len(monitorQ)
           n == Len(task.instrs)
<1>1. /\ Serving /\ task # NoTask /\ task.instrs # << >>
      /\ UNCHANGED << controlQ, schedQ, feedbackQ, workerQ, buffer, policy, events, taskId,
                      pc, resultQ, phase, request, todo >>
      /\ Instruction = task.instrs[1]
  BY LaunchOf
<1>2. Instruction.op \notin AnswerOps /\ Live /\ task.req = Current
  BY RaisesEarly, LaunchOf
<1>3. /\ Len(Pending) = m + n /\ n > 0 /\ m \in Nat /\ n \in Nat
      /\ \A i \in 1 .. m : Pending[i] = monitorQ[i]
      /\ \A i \in 1 .. n : Pending[m + i] = JobOf(task.instrs[i], task)
      /\ Pending \in Seq(JobType(config))
  BY LaunchOf
<1>4. /\ sessions' = [q \in DOMAIN sessions \ {task.req} |-> sessions[q]]
      /\ task' = NoTask /\ monitorQ' = monitorQ
  BY DEF Launch
<1>5. monitorQ \in Seq(JobType(config)) /\ DOMAIN monitorQ = 1 .. m
  BY DEF Protocol, Types
<1>a. /\ Len(Pending) = m + n /\ DOMAIN Pending = 1 .. m + n /\ n > 0 /\ m \in Nat /\ n \in Nat
  BY <1>3
<1> HIDE DEF m, n
<1>6. Pending' = monitorQ
  <2> DEFINE J == JobType(config)
             q == monitorQ
  <2>1. q \in Seq(J) /\ Pending' = q \o << >>
    BY <1>4, <1>5, NoTaskType DEF Pending
  <2> HIDE DEF J, q
  <2>2. QED
    BY <2>1 DEF q
<1>7. Serving' /\ Taken' = Taken /\ Live' = Live /\ Current' = Current
  BY <1>1 DEF Serving, Taken, Live, Current, Counting
<1>8. Pending[m + 1].op = Instruction.op /\ m + 1 \in DOMAIN Pending
  <2>1. 1 \in 1 .. n /\ m + 1 \in 1 .. m + n
    BY <1>a
  <2>2. Pending[m + 1] = JobOf(task.instrs[1], task)
    BY <1>3, <2>1 DEF m, n
  <2>3. QED
    BY <1>1, <1>a, <2>1, <2>2 DEF JobOf
<1>9. JobsLive(Pending, Current) /\ DOMAIN Pending = 1 .. m + n
  BY <1>1, <1>2, <1>3 DEF Protocol, Jobs
<1>10. \A j \in 1 .. m :
          \/ monitorQ[j].req = Current /\ monitorQ[j].op \notin AnswerOps
          \/ j = 1 /\ monitorQ[j].op = "FREE_SESSION" /\ monitorQ[j].req < Current
  <2> SUFFICES ASSUME NEW j \in 1 .. m
               PROVE  \/ monitorQ[j].req = Current /\ monitorQ[j].op \notin AnswerOps
                      \/ j = 1 /\ monitorQ[j].op = "FREE_SESSION" /\ monitorQ[j].req < Current
    OBVIOUS
  <2>1. j \in DOMAIN Pending /\ Pending[j] = monitorQ[j]
    BY <1>3, <1>9
  <2>2. monitorQ[j].op = "SEND_RESPONSE" /\ monitorQ[j].req = Current =>
           /\ j + 1 = m + n /\ Pending[j + 1].op = "FREE_SESSION"
    BY <1>3, <1>9, <2>1 DEF JobsLive
  <2>3. j + 1 = m + n => j + 1 = m + 1
    BY <1>3
  <2>4. ~(monitorQ[j].op = "SEND_RESPONSE" /\ monitorQ[j].req = Current)
    BY <1>2, <1>8, <2>2, <2>3 DEF AnswerOps
  <2>5. monitorQ[j].op = "FREE_SESSION" /\ monitorQ[j].req = Current =>
           j = m + n \/ (j = 1 /\ monitorQ[j].req < Current)
    BY <1>3, <1>9, <2>1 DEF JobsLive
  <2>6. j # m + n
    BY <1>3
  <2>7. \/ monitorQ[j].req = Current
        \/ j = 1 /\ monitorQ[j].op = "FREE_SESSION" /\ monitorQ[j].req < Current
    BY <1>9, <2>1 DEF JobsLive
  <2>8. QED
    BY <2>4, <2>5, <2>6, <2>7 DEF AnswerOps
<1>11. JobsLive(Pending', Current)
  BY <1>5, <1>6, <1>10 DEF JobsLive, AnswerOps
<1>12. ~Answers(Pending', Current)
  <2>1. Current \in Int
    BY <1>1, <1>2 DEF Protocol, Tasks, Types
  <2>2. QED
    BY <1>5, <1>6, <1>10, <2>1 DEF Answers, AnswerOps
<1>13. Types'
  <2>1. NoTask \in TaskOf(config) /\ DOMAIN sessions \subseteq Int
    BY NoTaskType DEF Protocol, Types
  <2>2. DOMAIN sessions' \subseteq Int /\ sessions' = [q \in DOMAIN sessions' |-> sessions'[q]]
    BY <1>4, <2>1
  <2>3. QED
    BY <1>1, <1>4, <1>7, <2>1, <2>2 DEF Protocol, Types
<1>14. Starting'
  BY <1>7 DEF Starting
<1>15. Stream'
  BY <1>1, <1>7 DEF Protocol, Stream, Counting
<1>16. Tasks'
  BY <1>1, <1>7 DEF Protocol, Tasks
<1>17. Jobs'
  <2>1. task' = NoTask'
    BY <1>4 DEF NoTask, Task
  <2>2. QED
    BY <1>2, <1>7, <1>11, <1>12, <2>1 DEF Jobs
<1>18. Released'
  <2> SUFFICES ASSUME NEW q \in DOMAIN sessions'
               PROVE  q = Current \/ Freed(Pending', q)
    BY <1>2, <1>7 DEF Released
  <2>1. q \in DOMAIN sessions
    BY <1>4
  <2>2. q = Current \/ Freed(Pending, q)
    BY <1>1, <2>1 DEF Protocol, Released
  <2>3. ASSUME Freed(Pending, q) PROVE Freed(Pending', q)
    <3>1. Pending[1].op = "FREE_SESSION" /\ Pending[1].req = q
      BY <2>3 DEF Freed
    <3>2. m # 0
      BY <1>2, <1>8, <3>1 DEF AnswerOps
    <3>3. 1 \in 1 .. m /\ monitorQ # << >>
      BY <1>3, <1>5, <3>2
    <3>4. QED
      BY <1>3, <1>6, <3>1, <3>3 DEF Freed
  <2>4. QED
    BY <2>2, <2>3
<1>19. Unfinished'
  BY <1>1, <1>7, <1>12 DEF Protocol, Unfinished, Speculating
<1>20. QED
  BY <1>13, <1>14, <1>15, <1>16, <1>17, <1>18, <1>19 DEF Protocol

LEMMA QueueOne ==
    ASSUME NEW x PROVE << x >> # << >> /\ Tail(<< x >>) = << >> /\ Head(<< x >>) = x
  OBVIOUS

-----------------------------------------------------------------------------
(* The reaper has seen the oldest job.                                      *)
Rest(t, s) == t = Tail(s)

LEMMA JobsTail ==
    ASSUME NEW c, NEW s \in Seq(JobType(c)), s # << >>, NEW cur, JobsLive(s, cur),
           NEW t, Rest(t, s)
    PROVE  /\ JobsLive(t, cur) /\ (Answers(t, cur) => Answers(s, cur))
           /\ DOMAIN t = 1 .. Len(s) - 1 /\ Len(t) = Len(s) - 1 /\ t \in Seq(JobType(c))
           /\ \A i \in DOMAIN t : t[i] = s[i + 1]
<1> DEFINE J == JobType(c)
           m == Len(s)
<1>1. s \in Seq(J) /\ m = Len(s)
  OBVIOUS
<1> HIDE DEF J, m
<1>2. /\ t \in Seq(J) /\ Len(t) = m - 1 /\ m \in Nat /\ m >= 1 /\ DOMAIN t = 1 .. m - 1
      /\ DOMAIN s = 1 .. m /\ \A i \in 1 .. m - 1 : t[i] = s[i + 1]
  BY <1>1, QueueTail DEF Rest
<1>3. \A i \in 1 .. m - 1 : i + 1 \in 1 .. m /\ i + 1 # 1
  BY <1>2
<1>4. JobsLive(t, cur)
  <2> SUFFICES ASSUME NEW j \in 1 .. m - 1
               PROVE  /\ t[j].req = cur
                      /\ t[j].op = "SEND_RESPONSE" =>
                            j + 1 = m - 1 /\ t[j + 1].op = "FREE_SESSION" /\ t[j + 1].req = cur
                      /\ t[j].op = "FREE_SESSION" => j = m - 1
    BY <1>2 DEF JobsLive
  <2>1. t[j] = s[j + 1] /\ j + 1 \in 1 .. m /\ j + 1 # 1
    BY <1>2, <1>3
  <2>2. /\ s[j + 1].req = cur
        /\ s[j + 1].op = "SEND_RESPONSE" =>
              (j + 1) + 1 = m /\ s[(j + 1) + 1].op = "FREE_SESSION" /\ s[(j + 1) + 1].req = cur
        /\ s[j + 1].op = "FREE_SESSION" => j + 1 = m
    BY <1>1, <1>2, <2>1 DEF JobsLive
  <2>3. (j + 1) + 1 = m => j + 1 = m - 1 /\ t[j + 1] = s[(j + 1) + 1]
    BY <1>2
  <2>4. j + 1 = m => j = m - 1
    BY <1>2
  <2>5. QED
    BY <2>1, <2>2, <2>3, <2>4
<1>5. ASSUME Answers(t, cur) PROVE Answers(s, cur)
  <2>1. PICK j \in 1 .. m - 1 : t[j].req = cur /\ t[j].op \in AnswerOps
    BY <1>2, <1>5 DEF Answers
  <2>2. j + 1 \in DOMAIN s /\ s[j + 1] = t[j]
    BY <1>2, <1>3
  <2>3. QED
    BY <2>1, <2>2 DEF Answers
<1>6. QED
  BY <1>2, <1>4, <1>5 DEF m, J

Oldest == Head(monitorQ)
Delivers == Oldest.req \in DOMAIN sessions /\ Oldest.op = "SEND_RESPONSE"
Reaping ==
    /\ Serving /\ Serving'
    /\ /\ Pending # << >> /\ Pending[1] = Oldest /\ Pending' = Tail(Pending)
       /\ Pending \in Seq(JobType(config))
       /\ monitorQ' \in Seq(JobType(config)) /\ Oldest \in JobType(config)
    /\ Taken' = Taken /\ Current' = Current
    /\ ~Live => ~Delivers /\ JobsOver(Pending', Current)
    /\ Live => /\ JobsLive(Pending, Current) /\ JobsLive(Pending', Current)
               /\ Answers(Pending', Current) => Answers(Pending, Current)
    /\ Delivers =>
         /\ Live /\ phase = "wait" /\ resultQ = << >> /\ workerQ = << >>
         /\ Taken = Size(config, request) /\ ~Speculating /\ Oldest.req = Current
         /\ JobsOver(Pending', Current) /\ Freed(Pending', Current)

LEMMA ReapOf ==
    ASSUME Agreed, Protocol, Reap, config' = config PROVE Reaping
<1> DEFINE job == Head(monitorQ)
           known == job.req \in DOMAIN sessions
           answers == known /\ job.op = "SEND_RESPONSE"
           frees == known /\ job.op = "FREE_SESSION"
           x == [sync |-> FALSE, req |-> job.req, final |-> sessions[job.req].final]
<1>1. /\ monitorQ # << >> /\ monitorQ' = Tail(monitorQ)
      /\ feedbackQ' = feedbackQ \/
            feedbackQ' = Append(feedbackQ, [req |-> job.req, layer |-> job.layer])
      /\ resultQ' = IF answers THEN Append(resultQ, x) ELSE resultQ
      /\ sessions' = IF frees THEN [q \in DOMAIN sessions \ {job.req} |-> sessions[q]]
                     ELSE sessions
      /\ UNCHANGED << controlQ, schedQ, workerQ, buffer, policy, events, taskId, pc, task,
                      phase, request, todo >>
  BY DEF Reap, clientVars
<1>2. Serving /\ Serving'
  BY <1>1 DEF Protocol, Starting, Serving
<1>3. /\ Pending # << >> /\ Pending[1] = job /\ Pending' = Tail(Pending)
      /\ Pending \in Seq(JobType(config))
      /\ monitorQ' \in Seq(JobType(config)) /\ job \in JobType(config)
  <2>1. /\ monitorQ \in Seq(JobType(config)) /\ JobsOf(task) \in Seq(JobType(config))
    BY PendingType DEF Protocol
  <2>2. /\ monitorQ \o JobsOf(task) # << >> /\ (monitorQ \o JobsOf(task))[1] = Head(monitorQ)
        /\ Tail(monitorQ) \in Seq(JobType(config)) /\ Head(monitorQ) \in JobType(config)
        /\ Tail(monitorQ) \o JobsOf(task) = Tail(monitorQ \o JobsOf(task))
        /\ monitorQ \o JobsOf(task) \in Seq(JobType(config))
    BY <1>1, <2>1, Reaped
  <2>3. Pending' = Tail(monitorQ) \o JobsOf(task)
    BY <1>1 DEF Pending
  <2> HIDE DEF job
  <2>4. Pending = monitorQ \o JobsOf(task)
    BY DEF Pending
  <2>5. job = Head(monitorQ)
    BY DEF job
  <2>6. QED
    BY <1>1, <2>2, <2>3, <2>4, <2>5, Zenon
<1> HIDE DEF x
<1>0. job = Oldest /\ (answers <=> Delivers)
  BY DEF Oldest, Delivers
<1> HIDE DEF job
<1>4. Taken' = Taken /\ Current' = Current
  BY <1>1 DEF Taken, Current, Counting
<1>5. ~Live => ~answers /\ JobsOver(Pending', Current)
  <2> SUFFICES ASSUME ~Live PROVE ~answers /\ JobsOver(Pending', Current)
    OBVIOUS
  <2>1. Len(Pending) = 1 /\ Pending[1].op = "FREE_SESSION"
    BY <1>2, <1>3 DEF Protocol, Jobs, JobsOver
  <2>2. Tail(Pending) = << >>
    <3> DEFINE s == Pending
               J == JobType(config)
    <3>1. s \in Seq(J) /\ Len(s) = 1
      BY <1>3, <2>1
    <3> HIDE DEF s, J
    <3> DEFINE t == Tail(s)
    <3>2. s # << >>
      BY <3>1
    <3>3. t \in Seq(J) /\ Len(t) = Len(s) - 1
      BY <3>1, <3>2, QueueTail
    <3> HIDE DEF t
    <3>4. t = << >>
      BY <3>1, <3>3
    <3>5. QED
      BY <3>4 DEF s, t
  <2>3. QED
    BY <1>3, <2>1, <2>2 DEF JobsOver
<1>6. ASSUME Live
      PROVE  /\ JobsLive(Pending, Current) /\ JobsLive(Pending', Current)
             /\ Answers(Pending', Current) => Answers(Pending, Current)
             /\ DOMAIN Pending' = 1 .. Len(Pending) - 1 /\ Len(Pending') = Len(Pending) - 1
             /\ Pending' \in Seq(JobType(config))
             /\ \A i \in DOMAIN Pending' : Pending'[i] = Pending[i + 1]
  <2> DEFINE s == Pending
             t == Pending'
             cur == Current
  <2>1. JobsLive(s, cur) /\ s \in Seq(JobType(config)) /\ s # << >> /\ Rest(t, s)
    BY <1>2, <1>3, <1>6 DEF Protocol, Jobs, Rest
  <2> HIDE DEF s, t, cur
  <2>2. /\ JobsLive(t, cur) /\ (Answers(t, cur) => Answers(s, cur))
        /\ DOMAIN t = 1 .. Len(s) - 1 /\ Len(t) = Len(s) - 1 /\ t \in Seq(JobType(config))
        /\ \A i \in DOMAIN t : t[i] = s[i + 1]
    BY <2>1, JobsTail
  <2>3. QED
    BY <2>1, <2>2 DEF s, t, cur
<1>7. answers =>
         /\ Live /\ phase = "wait" /\ resultQ = << >> /\ workerQ = << >>
         /\ Taken = Size(config, request) /\ ~Speculating /\ job.req = Current
         /\ JobsOver(Pending', Current) /\ Freed(Pending', Current)
  <2> SUFFICES ASSUME answers
               PROVE  /\ Live /\ phase = "wait" /\ resultQ = << >> /\ workerQ = << >>
                      /\ Taken = Size(config, request) /\ ~Speculating /\ job.req = Current
                      /\ JobsOver(Pending', Current) /\ Freed(Pending', Current)
    OBVIOUS
  <2>1. Live /\ resultQ = << >> /\ phase \in {"send", "wait"}
    BY <1>5 DEF Live
  <2>2. Pending \in Seq(JobType(config)) /\ 1 \in DOMAIN Pending /\ Len(Pending) \in Nat
        /\ DOMAIN Pending = 1 .. Len(Pending)
    <3> DEFINE s == Pending
               J == JobType(config)
    <3>1. s \in Seq(J) /\ s # << >>
      BY <1>3
    <3> HIDE DEF s, J
    <3>2. s \in Seq(J) /\ 1 \in DOMAIN s /\ Len(s) \in Nat /\ DOMAIN s = 1 .. Len(s)
      BY <3>1
    <3>3. QED
      BY <3>2 DEF s, J
  <2>3. job.req = Current /\ Len(Pending) = 2 /\ Pending[2].op = "FREE_SESSION"
        /\ Pending[2].req = Current
    <3>1. /\ Pending[1].req = Current /\ 1 + 1 = Len(Pending)
          /\ Pending[1 + 1].op = "FREE_SESSION" /\ Pending[1 + 1].req = Current
      BY <1>3, <1>6, <2>1, <2>2 DEF JobsLive
    <3>2. QED
      BY <1>3, <3>1
  <2>4. Answers(Pending, Current)
    BY <1>3, <2>2, <2>3 DEF Answers, AnswerOps
  <2>5. workerQ = << >> /\ Taken = Size(config, request) /\ ~Speculating
    BY <1>2, <2>1, <2>4 DEF Protocol, Jobs, Unfinished
  <2>6. phase = "wait"
    BY <1>2, <2>1, <2>5, Serves DEF Protocol, Stream
  <2>7. Len(Pending') = 1 /\ 1 \in DOMAIN Pending' /\ Pending'[1] = Pending[2]
    <3>1. Len(Pending) - 1 = 1
      BY <2>3
    <3>2. Len(Pending') = 1 /\ DOMAIN Pending' = 1 .. 1
      BY <1>6, <2>1, <3>1
    <3>3. 1 \in DOMAIN Pending' /\ 1 + 1 = 2
      BY <3>2
    <3>4. Pending'[1] = Pending[1 + 1]
      BY <1>6, <2>1, <3>3
    <3>5. QED
      BY <3>2, <3>3, <3>4
  <2>8. Pending' # << >>
    <3> DEFINE t == Pending'
               J == JobType(config)
    <3>1. t \in Seq(J) /\ Len(t) # 0
      BY <1>6, <2>1, <2>7
    <3> HIDE DEF t, J
    <3>2. t # << >>
      BY <3>1
    <3>3. QED
      BY <3>2 DEF t
  <2>9. QED
    BY <2>1, <2>3, <2>5, <2>6, <2>7, <2>8 DEF JobsOver, Freed
<1>8. QED
  BY <1>2, <1>3, <1>4, <1>5, <1>6, <1>7, <1>0 DEF Reaping

LEMMA ReapKeeps ==
    ASSUME Agreed, Protocol, Reap, config' = config PROVE Protocol'
<1> DEFINE job == Head(monitorQ)
           known == job.req \in DOMAIN sessions
           answers == known /\ job.op = "SEND_RESPONSE"
           frees == known /\ job.op = "FREE_SESSION"
           x == [sync |-> FALSE, req |-> job.req, final |-> sessions[job.req].final]
<1>1. /\ monitorQ # << >> /\ monitorQ' = Tail(monitorQ)
      /\ feedbackQ' = feedbackQ \/
            feedbackQ' = Append(feedbackQ, [req |-> job.req, layer |-> job.layer])
      /\ resultQ' = IF answers THEN Append(resultQ, x) ELSE resultQ
      /\ sessions' = IF frees THEN [q \in DOMAIN sessions \ {job.req} |-> sessions[q]]
                     ELSE sessions
      /\ UNCHANGED << controlQ, schedQ, workerQ, buffer, policy, events, taskId, pc, task,
                      phase, request, todo >>
  BY DEF Reap, clientVars
<1>0. job = Oldest /\ (answers <=> Delivers) /\ Reaping
  BY ReapOf DEF Oldest, Delivers
<1> HIDE DEF job, x
<1>2. Serving /\ Serving'
  BY <1>0 DEF Reaping
<1>3. /\ Pending # << >> /\ Pending[1] = job /\ Pending' = Tail(Pending)
      /\ Pending \in Seq(JobType(config))
      /\ monitorQ' \in Seq(JobType(config)) /\ job \in JobType(config)
  BY <1>0 DEF Reaping
<1>4. Taken' = Taken /\ Current' = Current
  BY <1>0 DEF Reaping
<1>5. ~Live => ~answers /\ JobsOver(Pending', Current)
  BY <1>0 DEF Reaping
<1>6. ASSUME Live
      PROVE  /\ JobsLive(Pending, Current) /\ JobsLive(Pending', Current)
             /\ Answers(Pending', Current) => Answers(Pending, Current)
  BY <1>0, <1>6 DEF Reaping
<1>7. answers =>
         /\ Live /\ phase = "wait" /\ resultQ = << >> /\ workerQ = << >>
         /\ Taken = Size(config, request) /\ ~Speculating /\ job.req = Current
         /\ JobsOver(Pending', Current) /\ Freed(Pending', Current)
  BY <1>0 DEF Reaping
<1>8. Live' <=> Live /\ ~answers
  <2>1. answers => resultQ' # << >> /\ Tail(resultQ') = << >> /\ Head(resultQ') = x
    <3>1. answers => resultQ' = << x >>
      BY <1>1, <1>7
    <3>2. QED
      BY <3>1, QueueOne, Zenon
  <2>2. QED
    BY <1>1, <1>4, <1>7, <2>1 DEF Live
<1>9. answers => resultQ' # << >> /\ Tail(resultQ') = << >> /\ ~Head(resultQ').sync
  <2>1. answers => resultQ' = << x >>
    BY <1>1, <1>7
  <2>2. ~x.sync
    BY DEF x
  <2>3. QED
    BY <2>1, <2>2, QueueOne, Zenon
<1>10. Types'
  <2>1. DOMAIN sessions \subseteq Int /\ sessions = [q \in DOMAIN sessions |-> sessions[q]]
    BY DEF Protocol, Types
  <2>2. DOMAIN sessions' \subseteq Int /\ sessions' = [q \in DOMAIN sessions' |-> sessions'[q]]
    BY <1>1, <2>1
  <2>3. feedbackQ' \in Seq([req : Int, layer : 0 .. config.layers])
    <3> DEFINE F == [req : Int, layer : 0 .. config.layers]
               y == [req |-> job.req, layer |-> job.layer]
    <3>1. feedbackQ \in Seq(F) /\ y \in F
      BY <1>3 DEF Protocol, Types, JobType
    <3>2. feedbackQ' = feedbackQ \/ feedbackQ' = Append(feedbackQ, y)
      BY <1>1
    <3> HIDE DEF F, y
    <3>3. feedbackQ' \in Seq(F)
      BY <3>1, <3>2
    <3>4. QED
      BY <3>3 DEF F
  <2>4. QED
    BY <1>1, <1>2, <1>3, <2>2, <2>3 DEF Protocol, Types
<1>11. Starting'
  BY <1>2 DEF Starting
<1>12. Stream'
  BY <1>1, <1>2, <1>4 DEF Protocol, Stream, Counting
<1>13. Tasks'
  <2>1. CASE answers
    <3>1. workerQ' = << >> /\ DOMAIN workerQ' = {}
      BY <1>1, <1>7, <2>1
    <3>2. phase' = "wait" /\ Taken' = Size(config', request') /\ ~Live'
      BY <1>1, <1>4, <1>7, <1>8, <2>1
    <3>3. controlQ' = << >> /\ pc' # "stopped" /\ Current' \in {None} \cup 0 .. taskId' - 1
      BY <1>1, <1>2, <1>4, <1>7, <2>1 DEF Protocol, Tasks
    <3>4. QED
      BY <1>9, <2>1, <3>1, <3>2, <3>3 DEF Tasks
  <2>2. CASE ~answers
    <3>1. resultQ' = resultQ /\ (Live' <=> Live)
      BY <1>1, <1>8, <2>2
    <3>2. QED
      BY <1>1, <1>2, <1>4, <3>1 DEF Protocol, Tasks
  <2>3. QED
    BY <2>1, <2>2
<1>14. Jobs'
  <2>1. NoTask' = NoTask
    BY DEF NoTask, Task
  <2>2. task' # NoTask' => task'.instrs # << >>
    BY <1>1, <1>2, <2>1 DEF Protocol, Jobs
  <2>3. Live' => JobsLive(Pending', Current')
    BY <1>4, <1>6, <1>8
  <2>4. Live' /\ Answers(Pending', Current') => workerQ' = << >> /\ Taken' = Size(config', request')
    BY <1>1, <1>2, <1>4, <1>6, <1>8 DEF Protocol, Jobs
  <2>5. ~Live' => JobsOver(Pending', Current')
    BY <1>4, <1>5, <1>7, <1>8
  <2>6. QED
    BY <2>2, <2>3, <2>4, <2>5 DEF Jobs
<1>15. Released'
  <2> SUFFICES ASSUME NEW q \in DOMAIN sessions'
               PROVE  (Live' /\ q = Current) \/ Freed(Pending', q)
    BY <1>4 DEF Released
  <2>1. q \in DOMAIN sessions /\ (frees => q # job.req)
    BY <1>1
  <2>2. (Live /\ q = Current) \/ Freed(Pending, q)
    BY <1>2, <2>1 DEF Protocol, Released
  <2>3. ~Freed(Pending, q)
    BY <1>3, <2>1 DEF Freed
  <2>4. QED
    BY <1>7, <1>8, <2>2, <2>3
<1>16. Unfinished'
  BY <1>1, <1>2, <1>4, <1>6, <1>7, <1>8 DEF Protocol, Unfinished, Speculating
<1>17. QED
  BY <1>10, <1>11, <1>12, <1>13, <1>14, <1>15, <1>16 DEF Protocol

-----------------------------------------------------------------------------
(* A task is queued: what is to be known of it for the protocol to go on.   *)
LEMMA QueuedKeeps ==
    ASSUME Agreed, Protocol, Serving, pc = "decide", phase # "done", config' = config,
           NEW t \in TaskOf(config), NEW st \in PolicyType(config),
           policy' = st, config.policy \notin PerImage => st.n = config.groups,
           events' = {}, taskId' = taskId + 1, workerQ' = Append(workerQ, TaskMessage(t)),
           Carries(buffer', config, request, Taken'),
           Taken' + Len(buffer') = Taken + Len(buffer),
           UNCHANGED << queueVars, pc, workerVars, resultQ, clientVars >>,
           Counting => Taken' = Size(config, request),
           ~Counting => Begun(config, request, Taken', st.req),
           Live', t.req = Current', Current' \in 0 .. taskId, Shape(config, request, t),
           Closing(t.instrs) => Taken' = Size(config, request),
           (Live /\ Current' = Current) \/ (~Live /\ Current' = taskId),
           \A i \in DOMAIN workerQ : ~Closing(workerQ[i].task.instrs),
           Live => ~Answers(Pending, Current),
           Speculating' => Open(t.instrs)
    PROVE  Protocol'
<1> DEFINE M == MessageOf(config)
           m == TaskMessage(t)
<1>1. /\ UNCHANGED << controlQ, schedQ, feedbackQ, pc, sessions, task, monitorQ, resultQ,
                      phase, request, todo, config >>
      /\ workerQ' = Append(workerQ, m) /\ policy' = st
  BY DEF queueVars, workerVars, clientVars
<1>2. Serving'
  BY <1>1 DEF Serving
<1>3. workerQ \in Seq(M) /\ m \in M /\ m.type = "TASK" /\ m.task = t
  <2>1. workerQ \in Seq(M)
    BY DEF Protocol, Types
  <2>2. QED
    BY <2>1 DEF TaskMessage, MessageOf
<1> HIDE DEF M, m
<1>4. /\ workerQ' \in Seq(M) /\ Len(workerQ') = Len(workerQ) + 1 /\ Len(workerQ) \in Nat
      /\ workerQ'[Len(workerQ) + 1] = m
      /\ \A i \in 1 .. Len(workerQ) : workerQ'[i] = workerQ[i]
  BY <1>1, <1>3, QueueGrows
<1>5. /\ DOMAIN workerQ = 1 .. Len(workerQ) /\ DOMAIN workerQ' = 1 .. Len(workerQ) + 1
  BY <1>3, <1>4
<1>6. ASSUME NEW i \in DOMAIN workerQ'
      PROVE  \/ i \in DOMAIN workerQ /\ workerQ'[i] = workerQ[i]
             \/ i = Len(workerQ') /\ workerQ'[i] = m
  BY <1>4, <1>5
<1>7. taskId \in Nat /\ Pending' = Pending /\ NoTask' = NoTask
  BY <1>1 DEF Protocol, Types, Pending, NoTask, Task
<1>8. ASSUME NEW i \in DOMAIN workerQ
      PROVE  /\ workerQ[i].type = "TASK" /\ Live /\ Current' = Current
             /\ workerQ[i].task.req = Current' /\ Shape(config, request, workerQ[i].task)
             /\ ~Closing(workerQ[i].task.instrs) /\ Open(workerQ[i].task.instrs)
  <2>1. /\ workerQ[i].type = "TASK" /\ Live
        /\ workerQ[i].task.req = Current /\ Shape(config, request, workerQ[i].task)
    BY DEF Protocol, Tasks
  <2>2. QED
    BY <2>1 DEF Shape
<1>9. Types'
  <2>1. buffer' \in Seq(PatchRecord)
    BY DEF Carries
  <2>2. workerQ' \in Seq(MessageOf(config))
    BY <1>4 DEF M
  <2>3. taskId' \in Nat /\ events' \subseteq 0 .. config.layers
    BY <1>7
  <2>4. QED
    BY <1>1, <1>2, <2>1, <2>2, <2>3 DEF Protocol, Types
<1>10. Starting'
  BY <1>2 DEF Starting
<1>11. Stream'
  <2>1. /\ Carries(schedQ, config, request, Taken + Len(buffer))
        /\ Carries(todo, config, request, Taken + Len(buffer) + Len(schedQ))
        /\ phase = "send" <=> todo # << >>
    BY DEF Protocol, Stream
  <2>2. /\ Carries(schedQ', config', request', Taken' + Len(buffer'))
        /\ Carries(todo', config', request', Taken' + Len(buffer') + Len(schedQ'))
    BY <1>1, <2>1
  <2>3. Counting' = Counting
    BY <1>1 DEF Counting
  <2>4. QED
    BY <1>1, <2>1, <2>2, <2>3 DEF Stream
<1>12. Tasks'
  <2>1. phase' # "done" /\ controlQ' = << >> /\ resultQ' = << >> /\ pc' # "stopped"
    BY <1>1 DEF Protocol, Tasks, Live
  <2>2. ASSUME NEW i \in DOMAIN workerQ'
        PROVE  /\ workerQ'[i].type = "TASK" /\ Live'
               /\ workerQ'[i].task.req = Current'
               /\ Shape(config', request', workerQ'[i].task)
               /\ Closing(workerQ'[i].task.instrs) =>
                     i = Len(workerQ') /\ Taken' = Size(config', request')
    <3>1. CASE i \in DOMAIN workerQ /\ workerQ'[i] = workerQ[i]
      BY <1>1, <1>8, <3>1
    <3>2. CASE i = Len(workerQ') /\ workerQ'[i] = m
      BY <1>1, <1>3, <3>2
    <3>3. QED
      BY <1>6, <2>2, <3>1, <3>2
  <2>3. Current' \in 0 .. taskId' - 1
    BY <1>7
  <2>4. QED
    BY <2>1, <2>2, <2>3 DEF Tasks
<1>13. JobsLive(Pending, Current') /\ ~Answers(Pending, Current')
  <2>1. CASE Live /\ Current' = Current
    BY <2>1 DEF Protocol, Jobs
  <2>2. CASE ~Live /\ Current' = taskId
    <3>1. JobsOver(Pending, Current) /\ Current \in {None} \cup 0 .. taskId - 1
      BY <2>2 DEF Protocol, Jobs, Tasks
    <3>2. Current < taskId /\ Current # taskId
      BY <1>7, <3>1 DEF None
    <3>3. \A j \in DOMAIN Pending : j = 1 /\ Pending[j].op = "FREE_SESSION"
                                          /\ Pending[j].req = Current
      <4> DEFINE J == JobType(config)
                 p == Pending
      <4>1. p \in Seq(J)
        BY PendingType DEF Protocol, Types
      <4>2. p = << >> \/ (Len(p) = 1 /\ p[1].op = "FREE_SESSION" /\ p[1].req = Current)
        BY <3>1 DEF JobsOver
      <4> HIDE DEF J, p
      <4>3. \A j \in DOMAIN p : j = 1 /\ p[1].op = "FREE_SESSION" /\ p[1].req = Current
        BY <4>1, <4>2
      <4>4. QED
        BY <4>3 DEF p
    <3>4. QED
      BY <2>2, <3>2, <3>3 DEF JobsLive, Answers
  <2>3. QED
    BY <2>1, <2>2
<1>14. Jobs'
  BY <1>1, <1>2, <1>7, <1>13 DEF Protocol, Jobs
<1>15. Released'
  BY <1>1, <1>2, <1>7 DEF Protocol, Released
<1>16. Unfinished'
  <2>1. ASSUME Speculating' PROVE \A i \in DOMAIN workerQ' : Open(workerQ'[i].task.instrs)
    <3> SUFFICES ASSUME NEW i \in DOMAIN workerQ' PROVE Open(workerQ'[i].task.instrs)
      OBVIOUS
    <3>1. CASE i \in DOMAIN workerQ /\ workerQ'[i] = workerQ[i]
      BY <1>8, <3>1
    <3>2. CASE i = Len(workerQ') /\ workerQ'[i] = m
      BY <1>3, <2>1, <3>2
    <3>3. QED
      BY <1>6, <3>1, <3>2
  <2>2. QED
    BY <1>7, <1>13, <2>1 DEF Unfinished
<1>17. QED
  BY <1>9, <1>10, <1>11, <1>12, <1>14, <1>15, <1>16 DEF Protocol

(* The policy has nothing to queue.                                         *)
LEMMA DeclinedKeeps ==
    ASSUME Agreed, Protocol, Serving, pc = "decide", config' = config,
           policy' = policy, events' = {}, pc' = "poll",
           UNCHANGED << queueVars, buffer, taskId, workerQ, workerVars, resultQ, clientVars >>
    PROVE  Protocol'
<1>1. UNCHANGED << controlQ, schedQ, feedbackQ, buffer, taskId, workerQ, policy, sessions, task,
                   monitorQ, resultQ, phase, request, todo, config >>
  BY DEF queueVars, workerVars, clientVars
<1>2. Serving' /\ Taken' = Taken /\ Live' = Live /\ Current' = Current /\ Pending' = Pending
      /\ NoTask' = NoTask
  BY <1>1 DEF Serving, Taken, Live, Current, Pending, Counting, NoTask, Task
<1>3. Types'
  BY <1>1, <1>2 DEF Protocol, Types
<1>4. Starting'
  BY <1>2 DEF Starting
<1>5. Stream'
  BY <1>1, <1>2 DEF Protocol, Stream, Counting
<1>6. Tasks'
  BY <1>1, <1>2 DEF Protocol, Tasks
<1>7. Jobs' /\ Released' /\ Unfinished'
  BY <1>1, <1>2 DEF Protocol, Jobs, Released, Unfinished, Speculating
<1>8. QED
  BY <1>3, <1>4, <1>5, <1>6, <1>7 DEF Protocol

(* The greatest layer reported.                                             *)
LEMMA GreatestBelow ==
    ASSUME NEW n \in Nat, NEW S \in SUBSET (0 .. n), NEW x \in S
    PROVE  Max(S) \in S
<1> DEFINE R == {n - y : y \in S}
<1>1. R \in SUBSET Nat /\ n - x \in R
  OBVIOUS
<1>2. \E k \in R : \A m \in R : k <= m
  <2> HIDE DEF R
  <2>1. QED
    BY <1>1, LeastMember
<1>3. PICK k \in R : \A m \in R : k <= m
  BY <1>2
<1>4. PICK top \in S : k = n - top
  OBVIOUS
<1>5. \A y \in S : top >= y
  <2> SUFFICES ASSUME NEW y \in S PROVE top >= y
    OBVIOUS
  <2>1. n - y \in R
    OBVIOUS
  <2>2. k <= n - y
    BY <1>3, <2>1
  <2>3. QED
    BY <1>4, <2>2
<1>6. QED
  BY <1>5 DEF Max

LEMMA CompletedType ==
    ASSUME Types PROVE Completed \in Int
<1>1. config.layers \in Nat /\ events \in SUBSET (0 .. config.layers)
  BY Configured DEF Types, TotalLayers
<1>2. CASE events = {}
  BY <1>2 DEF Completed, None
<1>3. CASE events # {}
  <2>1. PICK x \in events : TRUE
    BY <1>3
  <2>2. Max(events) \in events
    BY <1>1, <2>1, GreatestBelow
  <2>3. QED
    <3>1. Max(events) \in 0 .. config.layers
      BY <1>1, <2>2
    <3>2. Max(events) \in Int
      BY <1>1, <3>1
    <3>3. Completed = Max(events)
      BY <1>3 DEF Completed
    <3>4. QED
      BY <3>2, <3>3
<1>4. QED
  BY <1>2, <1>3

-----------------------------------------------------------------------------
(* A group is complete: which one it is, and what the policy makes of it.   *)
LEMMA AdmitFields ==
    ASSUME NEW st, NEW head, NEW id, head.gid # 0 => st.req # None
    PROVE  /\ Admit(st, head, id) =
                [req |-> Admit(st, head, id).req, latest |-> Admit(st, head, id).latest,
                 group |-> Admit(st, head, id).group, n |-> Admit(st, head, id).n]
           /\ Admit(st, head, id).req = IF head.gid = 0 THEN id ELSE st.req
           /\ Admit(st, head, id).latest = IF head.gid = 0 THEN 0 ELSE st.latest
           /\ Admit(st, head, id).group = head.gid
           /\ config.policy \in PerImage /\ head.n > 0 => Admit(st, head, id).n = head.n
           /\ config.policy \in PerImage /\ ~(head.n > 0) => Admit(st, head, id).n \in {1, st.n}
           /\ config.policy \notin PerImage => Admit(st, head, id).n = st.n
<1> DEFINE fresh == head.gid = 0 \/ (st.req = None /\ Policy \notin
                        {"VGGTInterleaved", "ADE20KApproxCorrect", "NYUApproxCorrect"})
           count == CASE Policy \in PerImage /\ head.n > 0 -> head.n
                      [] fresh /\ Policy = "ADE20KWindowInterleaved" /\ ~(head.n > 0) -> 1
                      [] OTHER -> st.n
<1>1. fresh <=> head.gid = 0
  OBVIOUS
<1>2. Admit(st, head, id) =
         [req |-> IF fresh THEN id ELSE st.req, latest |-> IF fresh THEN 0 ELSE st.latest,
          group |-> IF fresh /\ Policy # "DynamicGroupTrigger" THEN 0 ELSE head.gid, n |-> count]
  BY DEF Admit, PerImage
<1>3. /\ Policy \in PerImage /\ head.n > 0 => count = head.n
      /\ Policy \in PerImage /\ ~(head.n > 0) => count \in {1, st.n}
      /\ Policy \notin PerImage => count = st.n
  <2> HIDE DEF fresh
  <2>1. CASE Policy \in PerImage /\ head.n > 0
    BY <2>1
  <2>2. CASE Policy \in PerImage /\ ~(head.n > 0)
    BY <2>2
  <2>3. CASE Policy \notin PerImage
    <3>1. Policy # "ADE20KWindowInterleaved"
      BY <2>3 DEF PerImage
    <3>2. QED
      BY <2>3, <3>1
  <2>4. QED
    BY <2>1, <2>2, <2>3
<1> HIDE DEF fresh, count
<1>4. QED
  BY <1>1, <1>2, <1>3 DEF Policy

LEMMA OpenNotClosing ==
    ASSUME NEW S, NEW s \in Seq(S), Open(s) PROVE ~Closing(s)
<1>1. SUFFICES ASSUME Closing(s) PROVE FALSE
  OBVIOUS
<1>2. Len(s) >= 2 /\ s[Len(s)].op = "FREE_SESSION" /\ Len(s) \in DOMAIN s
  BY <1>1 DEF Closing
<1>3. QED
  BY <1>2 DEF Open, AnswerOps

Admitted(begun, plan, done, st, r, k, id) ==
    /\ begun \in PolicyType(config) /\ plan.latest \in 0 .. config.layers
    /\ begun.req = IF k = 0 THEN id ELSE st.req
    /\ begun.group = k
    /\ config.policy \notin PerImage => begun.n = config.groups
    /\ Formed(plan.instrs, k = config.groupsOf[r])
    /\ config.policy \in DynamicPolicies /\ k < begun.n => Open(plan.instrs)

LEMMA GroupAdmitted ==
    ASSUME Agreed, config \in Configs, Policy \notin CountPolicies, NEW r, Given(config, r),
           NEW k \in 0 .. config.groupsOf[r], NEW st \in PolicyType(config), NEW id \in Nat,
           NEW head, head = PatchOf(config, r, k), k > 0 => st.req # None,
           config.policy \notin PerImage => st.n = config.groups, NEW done \in Int,
           NEW begun, begun = Admit(st, head, id), NEW plan, plan = PlanFor(begun, k, done)
    PROVE  Admitted(begun, plan, done, st, r, k, id)
<1> DEFINE n == config.groupsOf[r]
<1>1. head.gid = k /\ head.n = n /\ n \in Nat /\ k \in Nat
  BY PatchGroup, GivenType
<1>2. /\ st.req \in Int /\ st.latest \in 0 .. config.layers /\ st.n \in Nat \ {0}
      /\ config.layers \in Nat /\ config.groups \in Nat \ {0}
  BY Configured DEF PolicyType, TotalLayers, NumGroups
<1>3. /\ begun = [req |-> begun.req, latest |-> begun.latest, group |-> begun.group, n |-> begun.n]
      /\ begun.req = IF k = 0 THEN id ELSE st.req
      /\ begun.latest = IF k = 0 THEN 0 ELSE st.latest
      /\ begun.group = k
      /\ config.policy \in PerImage /\ n > 0 => begun.n = n
      /\ config.policy \in PerImage /\ ~(n > 0) => begun.n \in {1, st.n}
      /\ config.policy \notin PerImage => begun.n = st.n
  BY <1>1, AdmitFields
<1>4. begun.n \in Nat \ {0}
  BY <1>1, <1>2, <1>3
<1>5. begun \in PolicyType(config)
  <2>1. begun.req \in Int /\ begun.latest \in 0 .. config.layers /\ begun.group \in Int
    BY <1>1, <1>2, <1>3
  <2>2. QED
    BY <1>3, <1>4, <2>1 DEF PolicyType
<1>6. n <= (IF config.policy \in {"ADE20KApproxCorrect", "NYUApproxCorrect"}
            THEN 1 ELSE config.groups)
  BY DEF Agreed, Given, Policy
<1>7. k \in 0 .. NumGroups
  <2>1. n <= config.groups
    <3>1. n <= IF config.policy \in {"ADE20KApproxCorrect", "NYUApproxCorrect"}
               THEN 1 ELSE config.groups
      BY DEF Agreed, Given, Policy
    <3>2. QED
      BY <1>1, <1>2, <3>1
  <2>2. QED
    BY <1>1, <1>2, <2>1 DEF NumGroups
<1>8. Formed(plan.instrs, Concludes(begun, k)) /\ plan.latest \in 0 .. config.layers
  BY <1>5, <1>7, PlanFormed DEF TotalLayers
<1>9. Concludes(begun, k) => k = n
  BY <1>1, <1>2, <1>3, <1>4, <1>6 DEF Concludes, PerImage, Policy, NumGroups
<1>10. config.policy \in DynamicPolicies /\ k < begun.n => ~Concludes(begun, k)
  BY <1>1, <1>2, <1>3, <1>4 DEF Concludes, PerImage, Policy, NumGroups, DynamicPolicies
<1>11. QED
  BY <1>2, <1>3, <1>5, <1>8, <1>9, <1>10 DEF Formed, Admitted

(* What is known of the group at the head of the buffer.                    *)
AtHead(k) ==
    /\ Taken = Offset(config, request, k)
    /\ k > 0 => policy.req # None
    /\ Carries(buffer, config, request, Offset(config, request, k))
    /\ Head(buffer) = PatchOf(config, request, k) /\ Head(buffer).gid = k
    /\ k > 0 => Live
    /\ k = 0 => ~Live
    /\ Offset(config, request, k + 1) = Taken + config.groupSize[k]
    /\ Offset(config, request, k + 1) > Taken
    /\ k = config.groupsOf[request] => Offset(config, request, k + 1) = Size(config, request)

LEMMA GroupAtHead ==
    ASSUME Agreed, Protocol, Serving, ~Counting, buffer # << >>
    PROVE  /\ phase \in {"send", "wait"} /\ resultQ = << >> /\ Taken # Size(config, request)
           /\ \E k \in 0 .. config.groupsOf[request] : AtHead(k)
<1> DEFINE n == config.groupsOf[request]
           size == Size(config, request)
<1>1. /\ Given(config, request) /\ Taken \in Nat /\ size \in Nat
      /\ Taken = size => buffer = << >>
  BY Serves
<1>2. Taken # size
  BY <1>1
<1>3. phase \in {"send", "wait"} /\ resultQ = << >>
  BY <1>2 DEF Protocol, Stream, Tasks, Serving
<1>4. n \in Nat
  BY <1>1, GivenType
<1>5. PICK k \in 0 .. n + 1 : Taken = Offset(config, request, k) /\ (k > 0 => policy.req # None)
  <2>1. Begun(config, request, Taken, policy.req)
    BY DEF Protocol, Stream
  <2>2. QED
    BY <2>1 DEF Begun
<1>6. n \in 0 .. n /\ Offset(config, request, n + 1) = size
  <2>1. n \in 0 .. n
    BY <1>4
  <2>2. QED
    BY <1>1, <2>1, OffsetNext
<1>7. k \in 0 .. n
  BY <1>2, <1>4, <1>5, <1>6
<1>8. Carries(buffer, config, request, Offset(config, request, k))
  BY <1>5 DEF Protocol, Stream
<1>9. Head(buffer) = PatchOf(config, request, k)
  BY <1>1, <1>7, <1>8, GroupTaken
<1>10. Head(buffer).gid = k
  BY <1>1, <1>7, <1>9, PatchGroup
<1>11. /\ Offset(config, request, k + 1) = Taken + config.groupSize[k]
       /\ Offset(config, request, 0) = 0
  BY <1>1, <1>5, <1>7, OffsetNext
<1>12. config.groupSize[k] \in Nat /\ config.groupSize[k] > 0
  BY <1>1, <1>7, GivenType DEF Agreed, Given
<1>13. 0 \in 0 .. n + 1 /\ k \in Nat
  BY <1>4, <1>7
<1>14. k > 0 => Taken > 0
  <2>1. 0 < k => Offset(config, request, 0) < Offset(config, request, k)
    BY <1>1, <1>5, <1>13, OffsetOrder
  <2>2. QED
    BY <1>1, <1>5, <1>11, <1>13, <2>1
<1>15. (k > 0 => Live) /\ (k = 0 => ~Live)
  BY <1>1, <1>3, <1>5, <1>11, <1>13, <1>14 DEF Live
<1>16. AtHead(k)
  BY <1>1, <1>5, <1>6, <1>8, <1>9, <1>10, <1>11, <1>12, <1>15 DEF AtHead
<1>17. QED
  BY <1>2, <1>3, <1>7, <1>16

LEMMA CallGroupKeeps ==
    ASSUME Agreed, Protocol, Serving, CallPolicy, Policy \notin CountPolicies, GroupReady(buffer),
           config' = config, UNCHANGED << workerVars, resultQ, clientVars >>
    PROVE  Protocol'
<1> DEFINE n == config.groupsOf[request]
           size == Size(config, request)
           head == Head(buffer)
           begun == Admit(policy, head, taskId)
           plan == PlanFor(begun, head.gid, Completed)
           st == [begun EXCEPT !.latest = plan.latest]
           payload == Payload(buffer)
           req == IF begun.req = None THEN taskId ELSE begun.req
           t == Task(taskId, req, payload, plan.instrs)
<1>1. /\ Given(config, request) /\ Taken \in Nat /\ size \in Nat /\ Len(buffer) \in Nat
      /\ Taken + Len(buffer) + Len(schedQ) + Len(todo) = size
      /\ Len(schedQ) \in Nat /\ Len(todo) \in Nat
  BY Serves
<1>2. /\ ~Counting /\ buffer # << >> /\ taskId \in Nat /\ config \in Configs /\ NoTask.id = None
      /\ taskId # None /\ policy \in PolicyType(config)
      /\ config.policy \notin PerImage => policy.n = config.groups
  BY DEF Counting, Policy, GroupReady, Protocol, Types, NoTask, Task, None
<1>0. PICK k \in 0 .. n : AtHead(k)
  BY <1>2, GroupAtHead
<1>3. /\ Taken = Offset(config, request, k)
      /\ k > 0 => policy.req # None
      /\ Carries(buffer, config, request, Offset(config, request, k))
      /\ head = PatchOf(config, request, k) /\ head.gid = k
      /\ k > 0 => Live
      /\ k = 0 => ~Live
      /\ Offset(config, request, k + 1) = Taken + config.groupSize[k]
      /\ Offset(config, request, k + 1) > Taken
      /\ k = n => Offset(config, request, k + 1) = size
  BY <1>0 DEF AtHead
<1>4. phase \in {"send", "wait"} /\ resultQ = << >> /\ Taken # size
  BY <1>2, GroupAtHead
<1>5. n \in Nat /\ k \in Nat /\ k + 1 \in 0 .. n + 1
  BY <1>1, <1>3, GivenType, SMTT(30)
<1>6. payload = GroupOf(config, request, k) /\ Len(payload) = config.groupSize[k]
      /\ Len(payload) \in 0 .. Len(buffer) /\ Len(payload) > 0
  <2>1. /\ payload = GroupOf(config, request, k) /\ Len(payload) = config.groupSize[k]
        /\ config.groupSize[k] <= Len(buffer)
    BY <1>1, <1>2, <1>3, GroupTaken
  <2>2. config.groupSize[k] \in Nat /\ config.groupSize[k] > 0
    BY <1>1, <1>3, GivenType DEF Agreed, Given
  <2>3. QED
    BY <1>1, <2>1, <2>2
<1>7. Decide(policy, buffer, Completed, taskId) = Answer(st, t)
  BY DEF Decide, DecideGroup
<1>8. /\ begun \in PolicyType(config) /\ plan.latest \in 0 .. config.layers
      /\ begun.req = IF k = 0 THEN taskId ELSE policy.req
      /\ begun.group = k
      /\ config.policy \notin PerImage => begun.n = config.groups
      /\ Formed(plan.instrs, k = n)
      /\ config.policy \in DynamicPolicies /\ k < begun.n => Open(plan.instrs)
  <2>1. Completed \in Int
    BY CompletedType DEF Protocol
  <2>2. plan = PlanFor(begun, k, Completed)
    BY <1>3
  <2> HIDE DEF begun, plan, head
  <2>3. begun = Admit(policy, head, taskId)
    BY DEF begun
  <2>4. /\ Agreed /\ config \in Configs /\ Policy \notin CountPolicies /\ Given(config, request)
        /\ k \in 0 .. config.groupsOf[request] /\ policy \in PolicyType(config)
        /\ taskId \in Nat /\ head = PatchOf(config, request, k)
    BY <1>1, <1>2, <1>3
  <2>5. k > 0 => policy.req # None
    BY <1>3
  <2>6. config.policy \notin PerImage => policy.n = config.groups
    BY <1>2
  <2>7. Admitted(begun, plan, Completed, policy, request, k, taskId)
    BY <2>1, <2>2, <2>3, <2>4, <2>5, <2>6, GroupAdmitted
  <2>8. QED
    BY <2>7 DEF Admitted
<1> HIDE DEF begun, plan
<1>9. /\ st \in PolicyType(config) /\ st.req = begun.req /\ st.group = k /\ st.n = begun.n
  BY <1>8 DEF PolicyType
<1>10. req = begun.req /\ req \in Int
  BY <1>2, <1>3, <1>5, <1>8 DEF PolicyType
<1>11. t \in TaskOf(config) /\ t.id = taskId /\ t.req = begun.req /\ t.payload = payload
       /\ t.instrs = plan.instrs
  <2>1. payload \in Seq(PatchRecord)
    BY <1>1, <1>3, <1>6, GroupOfType
  <2>2. plan.instrs \in Seq(InstrOf(config))
    BY <1>8 DEF Formed
  <2> HIDE DEF payload
  <2>3. QED
    BY <1>2, <1>10, <2>1, <2>2 DEF Task, TaskOf
<1> HIDE DEF t, st, payload, req, head
<1>12. /\ pc = "decide" /\ policy' = st /\ events' = {} /\ pc' = pc
       /\ buffer' = SubSeq(buffer, Len(payload) + 1, Len(buffer))
       /\ taskId' = taskId + 1 /\ workerQ' = Append(workerQ, TaskMessage(t))
       /\ UNCHANGED queueVars
  <2>1. t # NoTask
    BY <1>2, <1>11
  <2>2. Answer(st, t).st = st /\ Answer(st, t).task = t
    BY DEF Answer
  <2>3. QED
    BY <1>7, <1>11, <2>1, <2>2 DEF CallPolicy
<1>13. /\ Carries(buffer', config, request, Taken + Len(payload))
       /\ Len(buffer') = Len(buffer) - Len(payload)
  <2>1. Carries(buffer, config, request, Taken)
    BY <1>3
  <2> DEFINE m == Len(payload)
  <2>2. m \in 0 .. Len(buffer)
    BY <1>6
  <2>3. buffer' = SubSeq(buffer, m + 1, Len(buffer))
    BY <1>12
  <2> HIDE DEF m
  <2>4. Size(config, request) \in Nat
    BY <1>1
  <2>5. /\ Carries(SubSeq(buffer, m + 1, Len(buffer)), config, request, Taken + m)
        /\ Len(SubSeq(buffer, m + 1, Len(buffer))) = Len(buffer) - m
    BY <2>1, <2>2, <2>4, CarriesCut
  <2>6. Carries(buffer', config, request, Taken + m) /\ Len(buffer') = Len(buffer) - m
    BY <2>3, <2>5, Zenon
  <2>7. QED
    BY <2>6 DEF m
<1>14. /\ schedQ' = schedQ /\ todo' = todo /\ request' = request /\ phase' = phase
       /\ resultQ' = resultQ
  BY <1>12 DEF queueVars, clientVars
<1>15. Taken' = Offset(config, request, k + 1) /\ Taken' = Taken + Len(payload)
  <2>1. Taken' = Taken + Len(payload)
    <3>1. Taken' = size - Len(buffer') - Len(schedQ) - Len(todo)
      BY <1>14 DEF Taken
    <3>2. Len(payload) \in Nat
      BY <1>1, <1>6
    <3>3. QED
      BY <1>1, <1>13, <3>1, <3>2
  <2>2. QED
    BY <1>3, <1>6, <2>1
<1>16. Live'
  BY <1>1, <1>3, <1>4, <1>14, <1>15 DEF Live
<1>17. Current' = begun.req /\ Current = policy.req
  BY <1>2, <1>9, <1>12 DEF Current, Counting
<1>18. (Live /\ Current' = Current) \/ (~Live /\ Current' = taskId)
  BY <1>3, <1>5, <1>8, <1>17
<1>19. Current' \in 0 .. taskId
  <2>1. Live => Current \in 0 .. taskId - 1
    BY DEF Protocol, Tasks
  <2>2. QED
    BY <1>2, <1>18, <2>1
<1>20. Begun(config, request, Taken', st.req)
  <2>1. st.req # None
    BY <1>2, <1>3, <1>5, <1>8, <1>9
  <2>2. QED
    BY <1>5, <1>15, <2>1 DEF Begun
<1>21. Shape(config, request, t)
  <2>1. t.instrs # << >>
    BY <1>8, <1>11 DEF Formed
  <2>2. Open(t.instrs) \/ Closing(t.instrs)
    BY <1>8, <1>11 DEF Formed
  <2>3. t.payload = GroupOf(config, request, k)
    BY <1>6, <1>11
  <2>4. QED
    BY <1>2, <1>3, <2>1, <2>2, <2>3 DEF Shape, Counting
<1>22. Closing(t.instrs) => Taken' = size
  <2>1. ASSUME Closing(t.instrs), k # n PROVE FALSE
    <3>1. Open(t.instrs) /\ t.instrs \in Seq(InstrOf(config))
      BY <1>8, <1>11, <2>1 DEF Formed
    <3>2. QED
      BY <2>1, <3>1, OpenNotClosing
  <2>2. QED
    BY <1>3, <1>15, <2>1
<1>23. \A i \in DOMAIN workerQ : ~Closing(workerQ[i].task.instrs)
  BY <1>4 DEF Protocol, Tasks
<1>24. Live => ~Answers(Pending, Current)
  BY <1>4 DEF Protocol, Jobs
<1>25. Speculating' => Open(t.instrs)
  BY <1>8, <1>9, <1>11, <1>12 DEF Speculating
<1>26. Taken' + Len(buffer') = Taken + Len(buffer)
  BY <1>1, <1>6, <1>13, <1>15
<1>27. Carries(buffer', config, request, Taken')
  BY <1>13, <1>15
<1>28. config.policy \notin PerImage => st.n = config.groups
  BY <1>8, <1>9
<1>29. t.req = Current'
  BY <1>11, <1>17
<1>30. QED
  BY <1>2, <1>4, <1>9, <1>11, <1>12, <1>16, <1>18, <1>19, <1>20, <1>21, <1>22, <1>23, <1>24, <1>25,
     <1>26, <1>27, <1>28, <1>29, QueuedKeeps

(* All the patches a counting policy waits for have arrived.                *)
LEMMA CallCountKeeps ==
    ASSUME Agreed, Protocol, Serving, CallPolicy, Policy \in CountPolicies, CountReady(buffer),
           config' = config, UNCHANGED << workerVars, resultQ, clientVars >>
    PROVE  Protocol'
<1> DEFINE size == Size(config, request)
           payload == SubSeq(buffer, 1, Expected(buffer))
           t == Task(taskId, taskId, payload, WholeModel)
<1>1. /\ Given(config, request) /\ Taken \in Nat /\ size \in Nat /\ size > 0 /\ Len(buffer) \in Nat
      /\ Taken + Len(buffer) + Len(schedQ) + Len(todo) = size
      /\ Len(schedQ) \in Nat /\ Len(todo) \in Nat
      /\ Taken = size => buffer = << >>
  BY Serves
<1>2. /\ Counting /\ buffer # << >> /\ taskId \in Nat /\ config \in Configs /\ NoTask.id = None
      /\ taskId # None /\ policy \in PolicyType(config)
      /\ config.policy \notin PerImage => policy.n = config.groups
      /\ buffer \in Seq(PatchRecord)
  BY DEF Counting, Policy, CountReady, Protocol, Types, NoTask, Task, None
<1>3. Taken = 0
  <2>1. Taken \in {0, size}
    BY <1>2 DEF Protocol, Stream
  <2>2. QED
    BY <1>1, <1>2, <2>1
<1>4. Carries(buffer, config, request, 0)
  BY <1>3 DEF Protocol, Stream
<1>5. Expected(buffer) = size /\ Len(buffer) = size /\ payload = PatchesOf(config, request)
  BY <1>1, <1>2, <1>4, CountTaken
<1>6. Len(payload) = size
  BY <1>5 DEF Size
<1>7. phase \in {"send", "wait"} /\ resultQ = << >> /\ ~Live
  <2>1. Taken # size
    BY <1>1, <1>3
  <2>2. phase # "done" /\ resultQ = << >>
    BY <2>1 DEF Protocol, Stream, Tasks
  <2>3. QED
    BY <1>3, <2>2 DEF Serving, Live
<1>8. WholeModel \in Seq(InstrOf(config)) /\ Closing(WholeModel) /\ WholeModel # << >>
  <2>1. WholeModel \in Seq(InstrOf(config)) /\ Closing(WholeModel)
    BY <1>2, WholeModelEnds DEF Ends, Answering
  <2>2. Len(WholeModel) >= 2
    BY <2>1 DEF Closing
  <2>3. QED
    BY <2>1, <2>2
<1>9. Decide(policy, buffer, Completed, taskId) = Answer(policy, t)
  BY DEF Decide, DecideCount
<1>10. t \in TaskOf(config) /\ t.id = taskId /\ t.req = taskId /\ t.payload = payload
       /\ t.instrs = WholeModel
  <2>1. payload \in Seq(PatchRecord)
    BY <1>1, <1>2, <1>5
  <2> HIDE DEF payload
  <2>2. QED
    BY <1>2, <1>8, <2>1 DEF Task, TaskOf
<1> HIDE DEF t, payload
<1>11. /\ pc = "decide" /\ policy' = policy /\ events' = {} /\ pc' = pc
       /\ buffer' = SubSeq(buffer, Len(payload) + 1, Len(buffer))
       /\ taskId' = taskId + 1 /\ workerQ' = Append(workerQ, TaskMessage(t))
       /\ UNCHANGED queueVars
  <2>1. t # NoTask
    BY <1>2, <1>10
  <2>2. Answer(policy, t).st = policy /\ Answer(policy, t).task = t
    BY DEF Answer
  <2>3. QED
    BY <1>9, <1>10, <2>1, <2>2 DEF CallPolicy
<1>12. buffer' = << >>
  <2>1. buffer' = SubSeq(buffer, size + 1, size)
    BY <1>5, <1>6, <1>11
  <2>2. QED
    BY <1>1, <1>2, <2>1
<1>13. /\ schedQ' = schedQ /\ todo' = todo /\ request' = request /\ phase' = phase
       /\ resultQ' = resultQ
  BY <1>11 DEF queueVars, clientVars
<1>14. Len(schedQ) = 0 /\ Len(todo) = 0 /\ Len(buffer') = 0
  BY <1>1, <1>3, <1>5, <1>12
<1>15. Taken' = size /\ Taken' + Len(buffer') = Taken + Len(buffer)
  <2>1. Taken' = size - Len(buffer') - Len(schedQ) - Len(todo)
    BY <1>13 DEF Taken
  <2>2. QED
    BY <1>1, <1>3, <1>5, <1>14, <2>1
<1>16. Live'
  BY <1>1, <1>7, <1>13, <1>15 DEF Live
<1>17. Current' = taskId /\ Current' \in 0 .. taskId
  <2>1. Current' = (taskId + 1) - 1
    BY <1>2, <1>11 DEF Current, Counting
  <2>2. QED
    BY <1>2, <2>1
<1>18. Shape(config, request, t)
  BY <1>2, <1>5, <1>8, <1>10 DEF Shape, Counting
<1>19. \A i \in DOMAIN workerQ : ~Closing(workerQ[i].task.instrs)
  BY <1>7 DEF Protocol, Tasks
<1>20. Carries(buffer', config, request, Taken')
  BY <1>1, <1>12, <1>15, CarriesAll
<1>21. ~Speculating'
  BY <1>2 DEF Speculating, Counting, CountPolicies, DynamicPolicies
<1>22. QED
  BY <1>2, <1>7, <1>10, <1>11, <1>15, <1>16, <1>17, <1>18, <1>19, <1>20, <1>21, QueuedKeeps

(* Feedback leaves room for further layers.                                 *)
LEMMA CallFeedbackKeeps ==
    ASSUME Agreed, Protocol, Serving, CallPolicy, Policy \in DynamicPolicies, ~GroupReady(buffer),
           Completed # None, MoreApprox(policy, Completed) > 0,
           config' = config, UNCHANGED << workerVars, resultQ, clientVars >>
    PROVE  Protocol'
<1> DEFINE size == Size(config, request)
           k == MoreApprox(policy, Completed)
           st == [policy EXCEPT !.latest = @ + k]
           instrs == SingleLayers(policy.latest, k)
           t == Task(taskId, policy.req, << >>, instrs)
<1>1. /\ Given(config, request) /\ Taken \in Nat /\ size \in Nat /\ Len(buffer) \in Nat
  BY Serves
<1>2. /\ ~Counting /\ taskId \in Nat /\ config \in Configs /\ NoTask.id = None
      /\ taskId # None /\ policy \in PolicyType(config)
      /\ config.policy \notin PerImage => policy.n = config.groups
      /\ buffer \in Seq(PatchRecord)
  BY DEF Counting, Policy, Protocol, Types, NoTask, Task, None, CountPolicies, DynamicPolicies
<1>3. Completed \in Int
  BY CompletedType DEF Protocol
<1>4. /\ k \in 0 .. TotalLayers - policy.latest /\ k > 0
      /\ policy.group # None /\ policy.group < policy.n
  BY <1>2, <1>3, MoreApproxType
<1>5. /\ Live /\ \A i \in DOMAIN workerQ : Open(workerQ[i].task.instrs)
      /\ ~Answers(Pending, Current)
  BY <1>4 DEF Protocol, Unfinished, Speculating, Policy
<1>6. Decide(policy, buffer, Completed, taskId) = Answer(st, t)
  BY <1>4 DEF Decide, DecideFeedback, CountPolicies, DynamicPolicies
<1> HIDE DEF k
<1>7. /\ TotalLayers \in Nat /\ policy.latest \in 0 .. TotalLayers /\ policy.req \in Int
      /\ TotalLayers = config.layers
  BY <1>2, Configured DEF PolicyType, TotalLayers
<1>8. instrs \in Seq(InstrOf(config)) /\ Open(instrs) /\ Len(instrs) = k
  BY <1>2, <1>4, <1>7, SingleLayersSteps DEF Steps, Quiescent
<1> HIDE DEF instrs
<1>9. /\ st \in PolicyType(config) /\ st.req = policy.req /\ st.group = policy.group
      /\ st.n = policy.n
  <2>1. policy.latest + k \in 0 .. config.layers
    BY <1>4, <1>7
  <2>2. QED
    BY <1>2, <2>1 DEF PolicyType
<1>10. t \in TaskOf(config) /\ t.id = taskId /\ t.req = policy.req /\ t.payload = << >>
       /\ t.instrs = instrs
  <2>1. << >> \in Seq(PatchRecord)
    OBVIOUS
  <2>2. QED
    BY <1>2, <1>7, <1>8, <2>1 DEF Task, TaskOf
<1> HIDE DEF t, st
<1>11. /\ pc = "decide" /\ policy' = st /\ events' = {} /\ pc' = pc
       /\ buffer' = SubSeq(buffer, Len(<< >>) + 1, Len(buffer))
       /\ taskId' = taskId + 1 /\ workerQ' = Append(workerQ, TaskMessage(t))
       /\ UNCHANGED queueVars
  <2>1. t # NoTask
    BY <1>2, <1>10
  <2>2. Answer(st, t).st = st /\ Answer(st, t).task = t
    BY DEF Answer
  <2>3. QED
    BY <1>6, <1>10, <2>1, <2>2 DEF CallPolicy
<1>12. buffer' = buffer
  BY <1>2, <1>11
<1>13. /\ schedQ' = schedQ /\ todo' = todo /\ request' = request /\ phase' = phase
       /\ resultQ' = resultQ
  BY <1>11 DEF queueVars, clientVars
<1>14. Taken' = Taken /\ Live'
  <2>1. Taken' = Taken
    BY <1>12, <1>13 DEF Taken
  <2>2. QED
    BY <1>5, <1>13, <2>1 DEF Live
<1>15. Current' = Current /\ Current = policy.req /\ Current' \in 0 .. taskId
  <2>1. Current' = Current /\ Current = policy.req
    BY <1>2, <1>9, <1>11 DEF Current, Counting
  <2>2. Current \in 0 .. taskId - 1
    BY <1>5 DEF Protocol, Tasks
  <2>3. QED
    BY <1>2, <2>1, <2>2
<1>16. Shape(config, request, t)
  <2>1. t.instrs # << >>
    BY <1>4, <1>8, <1>10
  <2>2. QED
    BY <1>8, <1>10, <2>1 DEF Shape
<1>17. ~Closing(t.instrs)
  BY <1>8, <1>10, OpenNotClosing
<1>18. \A i \in DOMAIN workerQ : ~Closing(workerQ[i].task.instrs)
  <2> SUFFICES ASSUME NEW i \in DOMAIN workerQ PROVE ~Closing(workerQ[i].task.instrs)
    OBVIOUS
  <2> DEFINE w == workerQ[i].task
  <2>1. workerQ \in Seq(MessageOf(config))
    BY DEF Protocol, Types
  <2>2. workerQ[i] \in MessageOf(config)
    BY <2>1
  <2>3. w.instrs \in Seq(InstrOf(config))
    BY <2>2 DEF MessageOf, TaskOf
  <2>4. QED
    BY <1>5, <2>3, OpenNotClosing
<1>19. Carries(buffer', config, request, Taken')
  BY <1>12, <1>14 DEF Protocol, Stream
<1>20. Begun(config, request, Taken', st.req)
  BY <1>2, <1>9, <1>14 DEF Protocol, Stream
<1>21. phase # "done"
  BY <1>5 DEF Live
<1>22. Taken' + Len(buffer') = Taken + Len(buffer)
  BY <1>12, <1>14
<1>23. QED
  BY <1>2, <1>5, <1>8, <1>9, <1>10, <1>11, <1>14, <1>15, <1>16, <1>17, <1>18, <1>19, <1>20,
     <1>21, <1>22, QueuedKeeps

(* A call of the policy, whatever it finds.                                 *)
LEMMA CallPolicyKeeps ==
    ASSUME Agreed, Protocol, CallPolicy, config' = config,
           UNCHANGED << workerVars, resultQ, clientVars >>
    PROVE  Protocol'
<1>1. pc = "decide"
  BY DEF CallPolicy
<1>2. Serving
  BY <1>1 DEF Protocol, Starting
<1>3. CASE Decide(policy, buffer, Completed, taskId) = Answer(policy, NoTask)
  <2>1. /\ Answer(policy, NoTask).st = policy /\ Answer(policy, NoTask).task = NoTask
    BY DEF Answer
  <2>2. /\ policy' = policy /\ events' = {} /\ pc' = "poll"
        /\ UNCHANGED << queueVars, buffer, taskId, workerQ >>
    BY <1>3, <2>1 DEF CallPolicy
  <2>3. QED
    BY <1>1, <1>2, <2>2, DeclinedKeeps
<1>4. CASE Policy \in CountPolicies
  <2>1. CASE CountReady(buffer)
    BY <1>2, <1>4, <2>1, CallCountKeeps
  <2>2. CASE ~CountReady(buffer)
    BY <1>3, <1>4, <2>2 DEF Decide, DecideCount
  <2>3. QED
    BY <2>1, <2>2
<1>5. CASE Policy \notin CountPolicies /\ GroupReady(buffer)
  BY <1>2, <1>5, CallGroupKeeps
<1>6. CASE Policy \notin CountPolicies /\ ~GroupReady(buffer)
  <2>1. CASE Policy \in DynamicPolicies /\ Completed # None /\ MoreApprox(policy, Completed) > 0
    BY <1>2, <1>6, <2>1, CallFeedbackKeeps
  <2>2. CASE ~(Policy \in DynamicPolicies /\ Completed # None /\ MoreApprox(policy, Completed) > 0)
    <3>1. DecideFeedback(policy, Completed, taskId) = Answer(policy, NoTask)
      BY <2>2 DEF DecideFeedback
    <3>2. QED
      BY <1>3, <1>6, <3>1 DEF Decide
  <2>3. QED
    BY <2>1, <2>2
<1>7. QED
  BY <1>4, <1>5, <1>6

-----------------------------------------------------------------------------
(* The protocol holds in every step.                                        *)
LEMMA NextKeeps ==
    ASSUME Agreed, Protocol, [Next]_vars PROVE Protocol'
<1>1. CASE UNCHANGED vars
  BY <1>1, StutterKeeps DEF vars
<1>2. CASE ClientStep /\ config' = config
  BY <1>2, SendConfigKeeps, ReceiveTimeSyncKeeps, SendPatchKeeps, ReceiveResultKeeps DEF ClientStep
<1>3. CASE SchedulerStep /\ UNCHANGED << workerVars, resultQ, clientVars >> /\ config' = config
  <2>1. CASE Idle
    <3>1. UNCHANGED vars
      BY <1>3, <2>1 DEF Idle, vars
    <3>2. QED
      BY <1>1, <3>1
  <2>2. CASE \E p \in 0 .. Len(schedQ), f \in 0 .. Len(feedbackQ) : Drain(p, f)
    BY <1>3, <2>2, DrainKeeps
  <2>3. QED
    BY <1>3, <2>1, <2>2, ConfigureKeeps, ForwardTimeSyncKeeps, StopKeeps, CallPolicyKeeps
    DEF SchedulerStep
<1>4. CASE TakeMessage /\ config' = config
  BY <1>4, TakeEarly, TakeOver, TakeTask
<1>5. CASE Launch /\ config' = config
  BY <1>5, LaunchKeeps, RaiseKeeps
<1>6. CASE Reap /\ config' = config
  BY <1>6, ReapKeeps
<1>7. CASE Finished
  BY <1>1, <1>7 DEF Finished
<1>8. QED
  BY <1>1, <1>2, <1>3, <1>4, <1>5, <1>6, <1>7 DEF Next, WorkerStep

LEMMA SpecProtocol ==
    ASSUME Agreed PROVE Spec => []Protocol
<1>1. Init => Protocol
  BY InitProtocol
<1>2. Protocol /\ [Next]_vars => Protocol'
  BY NextKeeps
<1>3. QED
  BY <1>1, <1>2, PTL DEF Spec

-----------------------------------------------------------------------------
(* What a payload is, read off its first patch.                             *)
LEMMA HeadOfGroup ==
    ASSUME Agreed, NEW c, NEW r, Given(c, r), NEW k \in 0 .. c.groupsOf[r]
    PROVE  Head(GroupOf(c, r, k)) = PatchOf(c, r, k)
<1>1. c.groupSize[k] \in Nat /\ c.groupSize[k] > 0
  BY GivenType DEF Agreed, Given
<1> DEFINE n == c.groupSize[k]
           x == PatchOf(c, r, k)
<1>2. GroupOf(c, r, k) = [i \in 1 .. n |-> x]
  BY DEF GroupOf
<1>3. n \in Nat /\ n > 0
  BY <1>1
<1> HIDE DEF n, x
<1>4. Head([i \in 1 .. n |-> x]) = x
  BY <1>3
<1>5. QED
  BY <1>2, <1>4 DEF x

LEMMA HeadOfRequest ==
    ASSUME Agreed, NEW c, NEW r, Given(c, r)
    PROVE  Head(PatchesOf(c, r)).req = r
<1>1. 0 \in 0 .. c.groupsOf[r]
  BY GivenType
<1>2. c.groupSize[0] \in Nat /\ c.groupSize[0] > 0
  BY <1>1, GivenType DEF Agreed, Given
<1>3. Offset(c, r, 0) = 0
  BY <1>1, OffsetNext
<1>4. 1 \in 1 .. c.groupSize[0] /\ Offset(c, r, 0) + 1 = 1
  BY <1>2, <1>3
<1>5. PatchesOf(c, r)[1] = PatchOf(c, r, 0)
  BY <1>1, <1>4, PatchesAt
<1>6. Head(PatchesOf(c, r)) = PatchesOf(c, r)[1]
  OBVIOUS
<1>7. QED
  BY <1>5, <1>6 DEF PatchOf

LEMMA WholeGroupsHold ==
    ASSUME Agreed, Protocol PROVE WholeGroups
<1> SUFFICES ASSUME NEW i \in DOMAIN workerQ, workerQ[i].type = "TASK",
                    workerQ[i].task.payload # << >>
             PROVE  workerQ[i].task.payload =
                        IF Policy \in CountPolicies
                        THEN Patches(Head(workerQ[i].task.payload).req)
                        ELSE Group(Head(workerQ[i].task.payload).req,
                                   Head(workerQ[i].task.payload).gid)
  BY DEF WholeGroups
<1> DEFINE payload == workerQ[i].task.payload
<1>1. Serving
  <2> SUFFICES ASSUME ~Serving PROVE FALSE
    OBVIOUS
  <2> DEFINE a == Message("CONFIG")
             b == Message("TIME_SYNC")
  <2>1. a.type # "TASK" /\ b.type # "TASK"
    BY DEF Message
  <2>2. workerQ = << >> \/ workerQ = << a >> \/ workerQ = << a, b >> \/ workerQ = << b >>
    BY DEF Protocol, Starting
  <2> HIDE DEF a, b
  <2>3. workerQ[i] = a \/ workerQ[i] = b
    BY <2>2
  <2>4. QED
    BY <2>1, <2>3
<1>2. phase # "done"
  <2>1. Message("STOP").type # "TASK"
    BY DEF Message
  <2>2. QED
    BY <1>1, <2>1 DEF Protocol, Tasks
<1>3. Shape(config, request, workerQ[i].task) /\ Given(config, request)
  BY <1>1, <1>2 DEF Protocol, Tasks, Types
<1>4. CASE Policy \in CountPolicies
  <2>1. payload = PatchesOf(config, request)
    BY <1>3, <1>4 DEF Shape, Policy
  <2>2. Head(payload).req = request
    BY <1>3, <2>1, HeadOfRequest
  <2>3. QED
    BY <1>4, <2>1, <2>2, SamePatches
<1>5. CASE Policy \notin CountPolicies
  <2>1. PICK k \in 0 .. config.groupsOf[request] : payload = GroupOf(config, request, k)
    BY <1>3, <1>5 DEF Shape, Policy
  <2>2. Head(payload) = PatchOf(config, request, k)
    BY <1>3, <2>1, HeadOfGroup
  <2>3. Head(payload).req = request /\ Head(payload).gid = k
    BY <1>3, <2>2, PatchGroup
  <2>4. QED
    BY <1>5, <2>1, <2>3, SamePatches
<1>6. QED
  BY <1>4, <1>5

(* Every task carries one whole group of one request, or for the counting   *)
(* policies the whole request: decide() cuts the buffer where the group     *)
(* ends, and nothing else is in the buffer.                                 *)
THEOREM PipelineWholeGroups ==
    ASSUME Agreed PROVE Spec => []WholeGroups
<1>1. Protocol => WholeGroups
  BY WholeGroupsHold
<1>2. QED
  BY <1>1, SpecProtocol, PTL

-----------------------------------------------------------------------------
LEMMA SessionsReleasedHold ==
    ASSUME Agreed, Protocol PROVE SessionsReleased
<1>1. CASE ~Serving
  <2>1. sessions = << >> /\ phase # "done"
    BY <1>1 DEF Protocol, Starting, Serving
  <2>2. Cardinality(DOMAIN sessions) = 0
    BY <2>1, FS_EmptySet
  <2>3. QED
    BY <2>1, <2>2 DEF SessionsReleased
<1>2. CASE Serving
  <2> DEFINE two == {Current, Pending[1].req}
  <2>1. DOMAIN sessions \subseteq two
    BY <1>2 DEF Protocol, Released, Freed
  <2>2. IsFiniteSet(two) /\ Cardinality(two) <= 2
    <3>1. IsFiniteSet({Current}) /\ Cardinality({Current}) = 1
      BY FS_Singleton
    <3>2. two = {Current} \cup {Pending[1].req}
      OBVIOUS
    <3>3. /\ IsFiniteSet({Current} \cup {Pending[1].req})
          /\ \/ Cardinality({Current} \cup {Pending[1].req}) = 1
             \/ Cardinality({Current} \cup {Pending[1].req}) = 1 + 1
      BY <3>1, FS_AddElement
    <3>4. QED
      BY <3>2, <3>3
  <2>3. Cardinality(DOMAIN sessions) <= 2
    <3>1. Cardinality(DOMAIN sessions) <= Cardinality(two) /\ IsFiniteSet(DOMAIN sessions)
      BY <2>1, <2>2, FS_Subset
    <3>2. Cardinality(DOMAIN sessions) \in Nat /\ Cardinality(two) \in Nat
      BY <2>2, <3>1, FS_CardinalityType
    <3>3. QED
      BY <2>2, <3>1, <3>2
  <2>4. ASSUME phase = "done", task = NoTask, monitorQ = << >> PROVE sessions = << >>
    <3>1. JobsOf(task) = << >>
      <4>1. task.instrs = << >>
        BY <2>4 DEF NoTask, Task
      <4>2. DOMAIN << >> = {}
        OBVIOUS
      <4>3. JobsOf(task) = [i \in {} |-> JobOf(task.instrs[i], task)]
        BY <4>1, <4>2 DEF JobsOf
      <4>4. QED
        BY <4>3
    <3>2. Pending = << >>
      BY <2>4, <3>1 DEF Pending
    <3>3. ~Live /\ \A q : ~Freed(Pending, q)
      BY <2>4, <3>2 DEF Live, Freed
    <3>4. DOMAIN sessions = {}
      BY <1>2, <3>3 DEF Protocol, Released
    <3>5. sessions = [q \in DOMAIN sessions |-> sessions[q]]
      BY DEF Protocol, Types
    <3>6. QED
      BY <3>4, <3>5
  <2>5. QED
    BY <2>3, <2>4 DEF SessionsReleased
<1>3. QED
  BY <1>1, <1>2

(* No session is leaked: FREE_SESSION is the last instruction of every      *)
(* answer, an instruction that raises drops its session, and a request      *)
(* only begins behind the release of the one before.                        *)
THEOREM PipelineSessionsReleased ==
    ASSUME Agreed PROVE Spec => []SessionsReleased
<1>1. Protocol => SessionsReleased
  BY SessionsReleasedHold
<1>2. QED
  BY <1>1, SpecProtocol, PTL

-----------------------------------------------------------------------------
(* The downlink holds one message at most: the answer of the time           *)
(* synchronisation before the first request, results after it.              *)
Downlink ==
    \/ resultQ = << >>
    \/ \E m : resultQ = << m >> /\ (Serving => ~m.sync) /\ (~Serving => m.sync)

LEMMA DownlinkTail ==
    ASSUME NEW q, NEW m, q = << m >> PROVE Tail(q) = << >>
  OBVIOUS

(* The worker answers a TIME_SYNC, and there is none once requests are sent. *)
LEMMA TakeSilent ==
    ASSUME Protocol, Serving, TakeMessage, config' = config PROVE resultQ' = resultQ
<1>1. workerQ # << >> /\ workerQ \in Seq(MessageOf(config))
  BY DEF TakeMessage, Protocol, Types
<1>2. 1 \in DOMAIN workerQ /\ Head(workerQ) = workerQ[1] /\ Head(workerQ) \in MessageOf(config)
  BY <1>1
<1>3. Message("STOP").type = "STOP"
  BY DEF Message
<1>4. Head(workerQ).type # "TIME_SYNC"
  BY <1>2, <1>3 DEF Protocol, Tasks
<1>5. Head(workerQ).type \in {"CONFIG", "STOP", "TASK"}
  BY <1>2, <1>4 DEF MessageOf
<1>6. QED
  BY <1>5 DEF TakeMessage

LEMMA DownlinkKeeps ==
    ASSUME Agreed, Protocol, Downlink, [Next]_vars PROVE Downlink'
<1>1. CASE resultQ' = resultQ /\ (Serving' <=> Serving)
  BY <1>1 DEF Downlink
<1>2. CASE resultQ # << >> /\ resultQ' = Tail(resultQ)
  BY <1>2, DownlinkTail DEF Downlink
<1>3. ASSUME SendConfig \/ SendPatch PROVE resultQ' = resultQ /\ (Serving' <=> Serving)
  BY <1>3 DEF SendConfig, SendPatch, Serving
<1>4. ASSUME ReceiveTimeSync \/ ReceiveResult
      PROVE  resultQ # << >> /\ resultQ' = Tail(resultQ)
  BY <1>4 DEF ReceiveTimeSync, ReceiveResult
<1>5. ASSUME UNCHANGED << resultQ, clientVars >>
      PROVE  resultQ' = resultQ /\ (Serving' <=> Serving)
  BY <1>5 DEF clientVars, Serving
<1>6. CASE UNCHANGED vars \/ Finished \/ UNCHANGED << workerVars, resultQ, clientVars >>
  BY <1>1, <1>5, <1>6 DEF vars, Finished
<1>7. CASE Launch
  BY <1>1, <1>5, <1>7 DEF Launch
<1>8. CASE Reap /\ config' = config
  <2>1. Reaping
    BY <1>8, ReapOf
  <2>2. phase' = phase
    BY <1>8 DEF Reap, clientVars
  <2> DEFINE x == [sync |-> FALSE, req |-> Oldest.req, final |-> sessions[Oldest.req].final]
  <2>3. resultQ' = IF Delivers THEN Append(resultQ, x) ELSE resultQ
    BY <1>8 DEF Reap, Delivers, Oldest
  <2>4. ~x.sync
    OBVIOUS
  <2> HIDE DEF x
  <2>5. CASE Delivers
    <3>1. resultQ' = << x >> /\ Serving'
      BY <2>1, <2>3, <2>5 DEF Reaping
    <3>2. QED
      BY <2>4, <3>1 DEF Downlink
  <2>6. CASE ~Delivers
    BY <1>1, <2>2, <2>3, <2>6 DEF Serving
  <2>7. QED
    BY <2>5, <2>6
<1>9. CASE TakeMessage /\ config' = config
  <2>1. phase' = phase /\ workerQ # << >> /\ task = NoTask
    BY <1>9 DEF TakeMessage, clientVars
  <2>2. CASE Serving
    BY <1>1, <1>9, <2>1, <2>2, TakeSilent DEF Serving
  <2>3. CASE ~Serving
    <3> DEFINE a == Message("CONFIG")
               b == Message("TIME_SYNC")
               x == [sync |-> TRUE, req |-> None, final |-> << >>]
    <3>1. resultQ = << >> /\ (workerQ = << a >> \/ workerQ = << a, b >> \/ workerQ = << b >>)
      BY <2>1, <2>3 DEF Protocol, Starting
    <3>2. Head(workerQ) = a \/ Head(workerQ) = b
      <4> HIDE DEF a, b
      <4>1. QED
        BY <3>1
    <3>3. a.type = "CONFIG" /\ b.type = "TIME_SYNC"
      BY DEF Message
    <3>4. resultQ' = resultQ \/ resultQ' = Append(resultQ, x)
      BY <1>9, <3>2, <3>3 DEF TakeMessage
    <3>5. x.sync
      OBVIOUS
    <3> HIDE DEF x
    <3>6. resultQ' = << >> \/ resultQ' = << x >>
      BY <3>1, <3>4
    <3>7. ~Serving'
      BY <2>1, <2>3 DEF Serving
    <3>8. QED
      BY <3>5, <3>6, <3>7 DEF Downlink
  <2>4. QED
    BY <2>2, <2>3
<1>10. QED
  BY <1>1, <1>2, <1>3, <1>4, <1>6, <1>7, <1>8, <1>9 DEF Next, ClientStep, WorkerStep

(* What the results come to.                                                *)
LEMMA ResultsAre ==
    ASSUME Downlink PROVE Results # {} <=> Serving /\ resultQ # << >>
<1>1. CASE resultQ = << >>
  <2>1. DOMAIN resultQ = {}
    BY <1>1
  <2>2. QED
    BY <1>1, <2>1 DEF Results
<1>2. CASE resultQ # << >>
  <2>1. PICK m : resultQ = << m >> /\ (Serving => ~m.sync) /\ (~Serving => m.sync)
    BY <1>2 DEF Downlink
  <2>2. DOMAIN resultQ = {1} /\ resultQ[1] = m
    BY <2>1
  <2>3. {resultQ[i] : i \in DOMAIN resultQ} = {m}
    BY <2>2
  <2>4. QED
    BY <1>2, <2>1, <2>3 DEF Results
<1>3. QED
  BY <1>1, <1>2

(* What the counters of Service come to.                                    *)
Counters ==
    /\ request \in Nat
    /\ resultQ # << >> /\ Serving => phase = "wait"
    /\ Results # {} <=> Serving /\ resultQ # << >>

LEMMA CountersAre ==
    ASSUME Agreed, Protocol, Downlink PROVE Counters
<1>1. request \in Nat
  BY GivenType DEF Protocol, Types
<1>2. QED
  BY <1>1, ResultsAre DEF Protocol, Tasks, Counters

LEMMA ServiceInit == ASSUME Init PROVE Promise!Init /\ Downlink
<1>1. phase = "config" /\ request = 1 /\ resultQ = << >>
  BY DEF Init
<1>2. Downlink /\ Results = {}
  <2>1. Downlink
    BY <1>1 DEF Downlink
  <2>2. QED
    BY <1>1, <2>1, ResultsAre
<1>3. QED
  BY <1>1, <1>2 DEF Promise!Init, Sent, Received, Over

LEMMA ServiceNext ==
    ASSUME Agreed, Protocol, Downlink, Protocol', Downlink', [Next]_vars
    PROVE  [Promise!Next]_Promise!vars
<1> DEFINE asked == Sent
           computed == IF Results # {} THEN request ELSE Received
           delivered == Received
<1>1. Counters /\ Counters'
  <2>1. Protocol' /\ Downlink' => Counters'
    BY CountersAre, PTL
  <2>2. QED
    BY <2>1, CountersAre
<1>2. CASE UNCHANGED << phase, request, resultQ >>
  <2>1. asked' = asked /\ delivered' = delivered /\ computed' = computed
    BY <1>2 DEF Sent, Received, Over, Results
  <2>2. QED
    BY <2>1 DEF Promise!vars
<1>3. CASE SendConfig
  <2>1. request' = request /\ phase = "config" /\ phase' = "sync"
    BY <1>3 DEF SendConfig
  <2>2. Results = {} /\ Results' = {}
    BY <1>1, <2>1 DEF Counters, Serving
  <2>3. QED
    BY <2>1, <2>2 DEF Promise!vars, Sent, Received, Over
<1>4. CASE ReceiveTimeSync
  <2>1. request' = request /\ phase = "sync" /\ phase' = "send"
    BY <1>4 DEF ReceiveTimeSync
  <2>2. Results = {} /\ Results' = {}
    BY <1>1, <2>1 DEF Counters, Serving
  <2>3. QED
    BY <2>1, <2>2 DEF Promise!vars, Sent, Received, Over
<1>5. CASE SendPatch
  <2>1. request' = request /\ phase = "send" /\ phase' \in {"send", "wait"} /\ resultQ' = resultQ
    BY <1>5 DEF SendPatch
  <2>2. Results = {} /\ Results' = {}
    BY <1>1, <2>1 DEF Counters, Serving
  <2>3. CASE phase' = "send"
    BY <1>2, <2>1, <2>3
  <2>4. CASE phase' = "wait"
    <3>1. /\ asked = request - 1 /\ delivered = request - 1 /\ computed = request - 1
          /\ asked' = request /\ delivered' = request - 1 /\ computed' = request - 1
          /\ request \in Nat
      BY <1>1, <2>1, <2>2, <2>4 DEF Counters, Sent, Received, Over
    <3>2. delivered = asked /\ asked' = asked + 1 /\ computed' = computed /\ delivered' = delivered
      BY <3>1
    <3>3. QED
      BY <3>2 DEF Promise!Next, Promise!Ask
  <2>5. QED
    BY <2>1, <2>3, <2>4
<1>6. CASE ReceiveResult
  <2>1. /\ phase = "wait" /\ resultQ # << >>
        /\ \/ request' = request + 1 /\ phase' = "send"
           \/ request' = request /\ phase' = "done"
    BY <1>6 DEF ReceiveResult
  <2>2. Results # {} /\ Results' = {} /\ request \in Nat
    BY <1>1, <2>1 DEF Counters, Serving
  <2>3. /\ asked = request /\ delivered = request - 1 /\ computed = request
        /\ asked' = request /\ delivered' = request /\ computed' = request
    <3>1. asked = request /\ delivered = request - 1 /\ computed = request
      BY <2>1, <2>2 DEF Sent, Received, Over
    <3>2. CASE request' = request + 1 /\ phase' = "send"
      <4>1. Sent' = request' - 1 /\ Received' = request' - 1
        BY <3>2 DEF Sent, Received, Over
      <4>2. request' - 1 = request
        BY <2>2, <3>2
      <4>3. QED
        BY <2>2, <3>1, <4>1, <4>2
    <3>3. CASE request' = request /\ phase' = "done"
      BY <2>2, <3>1, <3>3 DEF Sent, Received, Over
    <3>4. QED
      BY <2>1, <3>2, <3>3
  <2>4. delivered < computed /\ delivered' = computed /\ asked' = asked /\ computed' = computed
    BY <2>2, <2>3
  <2>5. QED
    BY <2>4 DEF Promise!Next, Promise!Deliver
<1>7. CASE Reap /\ config' = config
  <2>1. phase' = phase /\ request' = request
    BY <1>7 DEF Reap, clientVars
  <2>2. CASE ~Delivers
    <3>1. resultQ' = resultQ
      BY <1>7, <2>2 DEF Reap, Delivers, Oldest
    <3>2. QED
      BY <1>2, <2>1, <3>1
  <2>3. CASE Delivers
    <3> DEFINE x == [sync |-> FALSE, req |-> Oldest.req, final |-> sessions[Oldest.req].final]
    <3>1. phase = "wait" /\ resultQ = << >> /\ Serving /\ Serving'
      BY <1>7, <2>3, ReapOf DEF Reaping
    <3>2. resultQ' = Append(resultQ, x)
      BY <1>7, <2>3 DEF Reap, Delivers, Oldest
    <3> HIDE DEF x
    <3>3. resultQ' # << >>
      BY <3>1, <3>2
    <3>4. Results = {} /\ Results' # {} /\ request \in Nat
      BY <1>1, <3>1, <3>3 DEF Counters
    <3>5. /\ asked = request /\ delivered = request - 1 /\ computed = request - 1
          /\ asked' = request /\ delivered' = request - 1 /\ computed' = request
      BY <2>1, <3>1, <3>4 DEF Sent, Received, Over
    <3>6. computed < asked /\ computed' = asked /\ asked' = asked /\ delivered' = delivered
      BY <3>4, <3>5
    <3>7. QED
      BY <3>6 DEF Promise!Next, Promise!Compute
  <2>4. QED
    BY <2>2, <2>3
<1>8. CASE TakeMessage /\ config' = config
  <2>1. phase' = phase /\ request' = request
    BY <1>8 DEF TakeMessage, clientVars
  <2>2. CASE Serving
    BY <1>2, <1>8, <2>1, <2>2, TakeSilent
  <2>3. CASE ~Serving
    <3>1. Results = {} /\ Results' = {}
      BY <1>1, <2>1, <2>3 DEF Counters, Serving
    <3>2. QED
      BY <2>1, <3>1 DEF Promise!vars, Sent, Received, Over
  <2>4. QED
    BY <2>2, <2>3
<1>9. CASE Launch \/ UNCHANGED vars \/ Finished \/ UNCHANGED << workerVars, resultQ, clientVars >>
  BY <1>2, <1>9 DEF Launch, vars, Finished, clientVars
<1>10. QED
  BY <1>3, <1>4, <1>5, <1>6, <1>7, <1>8, <1>9 DEF Next, ClientStep, WorkerStep

(* Seen from the client the server is Service: the answer of a request is   *)
(* computed once and after all of it was sent, is delivered once, and the   *)
(* next request waits for it.                                               *)
THEOREM PipelineImplementsSafety ==
    ASSUME Agreed PROVE Spec => Promise!Safety
<1>1. Init => Promise!Init /\ Downlink
  BY ServiceInit
<1>2. Protocol /\ Downlink /\ [Next]_vars => Downlink'
  BY DownlinkKeeps
<1>3. Protocol /\ Downlink /\ Protocol' /\ Downlink' /\ [Next]_vars => [Promise!Next]_Promise!vars
  BY ServiceNext
<1>4. QED
  BY <1>1, <1>2, <1>3, SpecProtocol, PTL DEF Spec, Promise!Safety


-----------------------------------------------------------------------------
(* The same of every configuration.                                         *)
Suits(c) ==
    /\ c.executor # "sam3"
    /\ c.policy = "GroupTrigger" => c.layers % c.groups = 0
    /\ c.policy \in Corrects0 => c.executor \in Denses \cup {"vggt"}
    /\ c.policy \in Corrects0 \cup {"VGGTInterleaved"} => c.correct
    /\ \/ c.policy = "BatchCountBased" /\ ~c.approxOnly
       \/ /\ c.mode = "final_correct" => c.policy \in Together
          /\ c.mode = "global_first" =>
                c.policy \in {"COCOWindowInterleaved", "COCOWindowDynamic"}
    /\ c.exit /\ c.policy \in DynamicPolicies => c.ahead > 0
Fitting == \A c \in Configs : Suits(c)

(* The configuration under way is one of them.                              *)
LEMMA FittingSuits ==
    ASSUME Fitting, config \in Configs PROVE Suited
<1>1. Suits(config)
  BY DEF Fitting
<1>2. QED
  BY <1>1 DEF Suits, Suited, ExecutorName, Policy, TotalLayers, NumGroups, ApproxOnly, GlobalMode,
              EarlyExit, AheadLayers, CorrectionOn

-----------------------------------------------------------------------------
(* The tasks of a queue, one after the other.                               *)
Messages(q) == q \in Seq(MessageOf(config))
Version(msg) == Newest(msg.task.payload)
Linked(f, e, q, b) ==
    /\ f \in [0 .. Len(q) -> Stages] /\ f[0] = e /\ f[Len(q)] = b
    /\ \A i \in 1 .. Len(q) : Runs(f[i - 1], q[i].task.instrs, Version(q[i]), f[i])
Chain(e, q, b) == Messages(q) /\ \E f : Linked(f, e, q, b)

(* Chains: of no task, the first one, one more.                             *)
LEMMA ChainNil ==
    /\ \A a \in Stages : Chain(a, << >>, a)
    /\ \A a, b : Chain(a, << >>, b) => b = a /\ a \in Stages
<1>1. Messages(<< >>)
  BY DEF Messages
<1>2. ASSUME NEW a \in Stages PROVE Chain(a, << >>, a)
  <2> DEFINE f == [i \in 0 .. 0 |-> a]
  <2>1. f \in [0 .. 0 -> Stages] /\ f[0] = a
    OBVIOUS
  <2> HIDE DEF f
  <2>2. Linked(f, a, << >>, a)
    BY <2>1 DEF Linked
  <2>3. QED
    BY <1>1, <2>2 DEF Chain
<1>3. ASSUME NEW a, NEW b, Chain(a, << >>, b) PROVE b = a /\ a \in Stages
  <2>1. PICK f : Linked(f, a, << >>, b)
    BY <1>3 DEF Chain
  <2>2. f \in [0 .. 0 -> Stages] /\ f[0] = a /\ f[0] = b /\ 0 \in 0 .. 0
    BY <2>1 DEF Linked
  <2>3. QED
    BY <2>2
<1>4. QED
  BY <1>2, <1>3

LEMMA ChainHead ==
    ASSUME NEW e, NEW q, NEW b, Chain(e, q, b), q # << >>
    PROVE  \E m : Runs(e, Head(q).task.instrs, Version(Head(q)), m) /\ Chain(m, Tail(q), b)
<1> DEFINE M == MessageOf(config)
           n == Len(q)
           t == Tail(q)
           x == Head(q)
<1>1. q \in Seq(M)
  BY DEF Chain, Messages
<1>2. PICK f : Linked(f, e, q, b)
  BY DEF Chain
<1> DEFINE g == [i \in 0 .. n - 1 |-> f[i + 1]]
<1> HIDE DEF M
<1>3. /\ t \in Seq(M) /\ Len(t) = n - 1 /\ n \in Nat /\ n >= 1 /\ x = q[1]
      /\ \A i \in 1 .. n - 1 : t[i] = q[i + 1]
  BY <1>1
<1>4. /\ f \in [0 .. n -> Stages] /\ f[0] = e /\ f[n] = b
      /\ \A i \in 1 .. n : Runs(f[i - 1], q[i].task.instrs, Version(q[i]), f[i])
  BY <1>2 DEF Linked
<1> HIDE DEF n, t, x
<1>5. Runs(e, x.task.instrs, Version(x), f[1])
  <2>1. 1 \in 1 .. n /\ 1 - 1 = 0
    BY <1>3
  <2>2. Runs(f[1 - 1], q[1].task.instrs, Version(q[1]), f[1])
    BY <1>4, <2>1
  <2>3. QED
    BY <1>3, <1>4, <2>1, <2>2
<1>6. /\ g \in [0 .. n - 1 -> Stages] /\ g[0] = f[1] /\ g[n - 1] = b
      /\ \A i \in 0 .. n - 1 : g[i] = f[i + 1]
  BY <1>3, <1>4
<1> HIDE DEF g
<1>7. ASSUME NEW i \in 1 .. n - 1
      PROVE  Runs(g[i - 1], t[i].task.instrs, Version(t[i]), g[i])
  <2>1. i \in 0 .. n - 1 /\ i - 1 \in 0 .. n - 1 /\ i + 1 \in 1 .. n /\ (i + 1) - 1 = i
        /\ (i - 1) + 1 = i
    BY <1>3
  <2>2. g[i] = f[i + 1] /\ g[i - 1] = f[i] /\ t[i] = q[i + 1]
    BY <1>3, <1>6, <2>1
  <2>3. Runs(f[(i + 1) - 1], q[i + 1].task.instrs, Version(q[i + 1]), f[i + 1])
    BY <1>4, <2>1
  <2>4. QED
    BY <2>1, <2>2, <2>3
<1>8. Linked(g, f[1], t, b)
  BY <1>3, <1>6, <1>7 DEF Linked
<1>9. Chain(f[1], t, b)
  BY <1>3, <1>8 DEF Chain, Messages, M
<1>10. QED
  BY <1>5, <1>9 DEF t, x

LEMMA ChainAppend ==
    ASSUME NEW e, NEW q, NEW b, Chain(e, q, b), NEW msg \in MessageOf(config), NEW d,
           Runs(b, msg.task.instrs, Version(msg), d)
    PROVE  Chain(e, Append(q, msg), d)
<1> DEFINE M == MessageOf(config)
           n == Len(q)
           u == Append(q, msg)
<1>1. q \in Seq(M) /\ msg \in M
  BY DEF Chain, Messages
<1>2. PICK f : Linked(f, e, q, b)
  BY DEF Chain
<1> DEFINE h == [i \in 0 .. n + 1 |-> IF i <= n THEN f[i] ELSE d]
<1>0. d \in Stages
  BY RunEnds
<1> HIDE DEF M
<1>3. /\ u \in Seq(M) /\ Len(u) = n + 1 /\ n \in Nat /\ u[n + 1] = msg
      /\ \A i \in 1 .. n : u[i] = q[i]
  BY <1>1
<1>4. /\ f \in [0 .. n -> Stages] /\ f[0] = e /\ f[n] = b
      /\ \A i \in 1 .. n : Runs(f[i - 1], q[i].task.instrs, Version(q[i]), f[i])
  BY <1>2 DEF Linked
<1> HIDE DEF n, u
<1>5. /\ h \in [0 .. n + 1 -> Stages] /\ h[n + 1] = d
      /\ \A i \in 0 .. n : h[i] = f[i]
  BY <1>0, <1>3, <1>4
<1> HIDE DEF h
<1>6. ASSUME NEW i \in 1 .. n + 1 PROVE Runs(h[i - 1], u[i].task.instrs, Version(u[i]), h[i])
  <2>1. CASE i <= n
    <3>1. i \in 1 .. n /\ i \in 0 .. n /\ i - 1 \in 0 .. n
      BY <1>3, <2>1
    <3>2. h[i] = f[i] /\ h[i - 1] = f[i - 1] /\ u[i] = q[i]
      BY <1>3, <1>5, <3>1
    <3>3. QED
      BY <1>4, <3>1, <3>2
  <2>2. CASE ~(i <= n)
    <3>1. i = n + 1 /\ i - 1 = n /\ n \in 0 .. n
      BY <1>3, <2>2
    <3>2. h[i] = d /\ h[i - 1] = b /\ u[i] = msg
      BY <1>3, <1>4, <1>5, <3>1
    <3>3. QED
      BY <3>2
  <2>3. QED
    BY <2>1, <2>2
<1>7. h[0] = e
  <2>1. 0 \in 0 .. n
    BY <1>3
  <2>2. QED
    BY <1>4, <1>5, <2>1
<1>8. Linked(h, e, u, d)
  BY <1>3, <1>5, <1>6, <1>7 DEF Linked
<1>9. Chain(e, u, d)
  BY <1>3, <1>8 DEF Chain, Messages, M
<1>10. QED
  BY <1>9 DEF u

(* What has been delivered stays so, and nothing is loaded after it.        *)
Closed(a, b) == a.ans => b.ans /\ b.in = a.in

(* A stage never leaves the answer behind: once answered, of the same       *)
(* groups.                                                                  *)
LEMMA AfterClosed ==
    ASSUME config \in Configs, NEW a \in Stages, NEW instr, NEW v, Allowed(a, instr, v)
    PROVE  Closed(a, After(a, instr, v))
<1>1. CASE instr.op \in Skippable
  BY <1>1, AfterKeeps DEF Closed
<1>2. CASE instr.op \notin Skippable
  <2>1. instr.op \in {"EXIT_ALL", "SEND_RESPONSE", "FREE_SESSION"}
    BY <1>2 DEF Allowed, Skippable
  <2>2. a \in StageType
    BY DEF Stages
  <2>3. After(a, instr, v) \in {Delivering(a), a}
    BY <2>1 DEF After
  <2>4. Delivering(a).in = a.in /\ Delivering(a).ans
    BY <2>2 DEF Delivering, StageType
  <2>5. QED
    BY <2>3, <2>4 DEF Closed
<1>3. QED
  BY <1>1, <1>2

LEMMA RunClosed ==
    ASSUME config \in Configs, NEW a, NEW s, NEW v, NEW b, Runs(a, s, v, b)
    PROVE  Closed(a, b)
<1>1. PICK f : Passes(f, a, s, v, b)
  BY DEF Runs
<1> DEFINE I == InstrOf(config)
           n == Len(s)
<1>2. s \in Seq(I)
  BY DEF Runs, Instrs
<1> HIDE DEF I
<1>3. n \in Nat
  BY <1>2
<1>4. /\ f \in [0 .. n -> Stages] /\ f[0] = a /\ f[n] = b
      /\ \A i \in 1 .. n : Allowed(f[i - 1], s[i], v) /\ f[i] = After(f[i - 1], s[i], v)
  BY <1>1 DEF Passes
<1> HIDE DEF n
<1> DEFINE T == {i \in Nat : i <= n => Closed(a, f[i])}
<1>5. 0 \in T
  BY <1>4 DEF Closed
<1>6. \A i \in Nat : i \in T => i + 1 \in T
  <2> SUFFICES ASSUME NEW i \in Nat, i + 1 <= n, Closed(a, f[i]) PROVE Closed(a, f[i + 1])
    BY <1>3
  <2>1. i \in 0 .. n /\ i + 1 \in 1 .. n /\ (i + 1) - 1 = i
    BY <1>3
  <2>2. f[i] \in Stages
    BY <1>4, <2>1
  <2>3. Allowed(f[(i + 1) - 1], s[i + 1], v) /\ f[i + 1] = After(f[(i + 1) - 1], s[i + 1], v)
    BY <1>4, <2>1
  <2>4. Allowed(f[i], s[i + 1], v) /\ f[i + 1] = After(f[i], s[i + 1], v)
    BY <2>1, <2>3
  <2>5. Closed(f[i], f[i + 1])
    BY <2>2, <2>4, AfterClosed
  <2>6. QED
    BY <2>5 DEF Closed
<1>7. Nat \subseteq T
  <2> HIDE DEF T
  <2>1. QED
    BY <1>5, <1>6, SetInduction
<1>8. QED
  BY <1>3, <1>4, <1>7

LEMMA ChainClosed ==
    ASSUME config \in Configs, NEW e, NEW q, NEW b, Chain(e, q, b)
    PROVE  Closed(e, b) /\ e \in Stages /\ b \in Stages
<1>1. PICK f : Linked(f, e, q, b)
  BY DEF Chain
<1> DEFINE M == MessageOf(config)
           n == Len(q)
<1>2. q \in Seq(M)
  BY DEF Chain, Messages
<1> HIDE DEF M
<1>3. n \in Nat
  BY <1>2
<1>4. /\ f \in [0 .. n -> Stages] /\ f[0] = e /\ f[n] = b
      /\ \A i \in 1 .. n : Runs(f[i - 1], q[i].task.instrs, Version(q[i]), f[i])
  BY <1>1 DEF Linked
<1> HIDE DEF n
<1> DEFINE T == {i \in Nat : i <= n => Closed(e, f[i])}
<1>5. 0 \in T
  BY <1>4 DEF Closed
<1>6. \A i \in Nat : i \in T => i + 1 \in T
  <2> SUFFICES ASSUME NEW i \in Nat, i + 1 <= n, Closed(e, f[i]) PROVE Closed(e, f[i + 1])
    BY <1>3
  <2>1. i + 1 \in 1 .. n /\ (i + 1) - 1 = i
    BY <1>3
  <2>2. Runs(f[(i + 1) - 1], q[i + 1].task.instrs, Version(q[i + 1]), f[i + 1])
    BY <1>4, <2>1
  <2>3. Runs(f[i], q[i + 1].task.instrs, Version(q[i + 1]), f[i + 1])
    BY <2>1, <2>2
  <2>4. Closed(f[i], f[i + 1])
    BY <2>3, RunClosed
  <2>5. QED
    BY <2>4 DEF Closed
<1>7. Nat \subseteq T
  <2> HIDE DEF T
  <2>1. QED
    BY <1>5, <1>6, SetInduction
<1>8. 0 \in 0 .. n /\ n \in 0 .. n
  BY <1>3
<1>9. QED
  BY <1>3, <1>4, <1>7, <1>8

-----------------------------------------------------------------------------
(* What a payload brings the image up to.                                   *)
LEMMA GreatestIs ==
    ASSUME NEW S, S \subseteq Int, NEW x \in S, \A y \in S : y <= x
    PROVE  Max(S) = x
<1>1. \A y \in S : x >= y
  OBVIOUS
<1>2. ASSUME NEW z \in S, \A y \in S : z >= y PROVE z = x
  <2>1. z >= x /\ z <= x /\ z \in Int /\ x \in Int
    BY <1>2
  <2>2. QED
    BY <2>1
<1>3. Max(S) \in S /\ \A y \in S : Max(S) >= y
  BY <1>1 DEF Max
<1>4. QED
  BY <1>2, <1>3

(* The newest group in a payload is the group sent last.                    *)
LEMMA NewestGroup ==
    ASSUME Agreed, NEW c, NEW r, Given(c, r), NEW k \in 0 .. c.groupsOf[r],
           NEW p, p = GroupOf(c, r, k)
    PROVE  Newest(p) = k
<1>1. /\ p \in Seq(PatchRecord) /\ Len(p) = c.groupSize[k]
      /\ \A i \in 1 .. c.groupSize[k] : p[i] = PatchOf(c, r, k)
  BY GroupOfType
<1>2. c.groupSize[k] \in Nat /\ c.groupSize[k] > 0
  BY GivenType DEF Agreed, Given
<1>3. PatchOf(c, r, k).gid = k
  BY PatchGroup
<1>4. \A i \in 1 .. Len(p) : p[i].gid = k
  BY <1>1, <1>3
<1>5. 1 \in 1 .. Len(p) /\ p # << >>
  BY <1>1, <1>2
<1>6. Groups(p) = {k}
  BY <1>4, <1>5 DEF Groups
<1>7. Max(Groups(p)) = k
  <2>1. c.groupsOf[r] \in Nat
    BY GivenType
  <2>2. k \in Int
    BY <2>1
  <2>3. QED
    BY <1>6, <2>2, GreatestIs
<1>8. QED
  BY <1>5, <1>7 DEF Newest

LEMMA NewestRequest ==
    ASSUME Agreed, NEW c, NEW r, Given(c, r), NEW p, p = PatchesOf(c, r)
    PROVE  Newest(p) = c.groupsOf[r]
<1> DEFINE n == c.groupsOf[r]
<1>1. n \in Nat /\ n \in 0 .. n
  BY GivenType
<1>2. /\ p \in Seq(PatchRecord) /\ Len(p) \in Nat /\ Len(p) = Size(c, r)
      /\ Offset(c, r, n + 1) <= Size(c, r)
      /\ \A i \in 1 .. c.groupSize[n] : p[Offset(c, r, n) + i] = PatchOf(c, r, n)
  BY <1>1, PatchesAt DEF Size
<1>3. c.groupSize[n] \in Nat /\ c.groupSize[n] > 0
  BY <1>1, GivenType DEF Agreed, Given
<1>4. Offset(c, r, n) \in Nat /\ Offset(c, r, n + 1) = Offset(c, r, n) + c.groupSize[n]
  BY <1>1, OffsetNext
<1>5. Offset(c, r, n) + 1 \in 1 .. Len(p) /\ p[Offset(c, r, n) + 1] = PatchOf(c, r, n)
  <2>1. 1 \in 1 .. c.groupSize[n]
    BY <1>3
  <2>2. p[Offset(c, r, n) + 1] = PatchOf(c, r, n)
    BY <1>2, <2>1
  <2>3. QED
    BY <1>2, <1>3, <1>4, <2>2
<1>6. n \in Groups(p)
  <2>1. PatchOf(c, r, n).gid = n
    BY <1>1, PatchGroup
  <2>2. QED
    BY <1>5, <2>1 DEF Groups
<1>7. ASSUME NEW y \in Groups(p) PROVE y \in Int /\ y <= n
  <2>1. PICK i \in 1 .. Len(p) : y = p[i].gid
    BY <1>7 DEF Groups
  <2>2. i - 1 \in 0 .. Size(c, r) - 1
    BY <1>2
  <2>3. PICK g \in 0 .. n : Offset(c, r, g) <= i - 1 /\ i - 1 < Offset(c, r, g + 1)
    BY <2>2, GroupAt
  <2>4. Offset(c, r, g) \in Nat /\ Offset(c, r, g + 1) \in Nat
    <3>1. Offset(c, r, g) \in Nat /\ Offset(c, r, g + 1) = Offset(c, r, g) + c.groupSize[g]
      BY <2>3, OffsetNext
    <3>2. c.groupSize[g] \in Nat
      BY <2>3, GivenType
    <3>3. QED
      BY <3>1, <3>2
  <2>5. Offset(c, r, g) < i /\ i <= Offset(c, r, g + 1) /\ i \in Nat
    BY <1>2, <2>3, <2>4
  <2>6. p[i] = PatchOf(c, r, g)
    BY <2>3, <2>5, CarriedPatch
  <2>7. y = g
    BY <2>1, <2>3, <2>6, PatchGroup
  <2>8. QED
    BY <1>1, <2>3, <2>7
<1>8. Max(Groups(p)) = n
  <2>1. Groups(p) \subseteq Int
    BY <1>7
  <2>2. QED
    BY <1>6, <1>7, <2>1, GreatestIs
<1>9. p # << >>
  BY <1>2, <1>5
<1>10. QED
  BY <1>8, <1>9 DEF Newest

-----------------------------------------------------------------------------
(* Where the request under way is: its session, the instructions of its     *)
(* task that are left, the tasks behind it, and the policy's fields.        *)
Sess == IF Current \in DOMAIN sessions THEN sessions[Current] ELSE NewSession
Left == IF task.req = Current THEN task.instrs ELSE << >>

(* Its session is at a stage from which what is left of the task and the    *)
(* tasks behind it may come, and they take it to rest.                      *)
Rests(st, n, b) == IF Counting THEN Served(b, n) ELSE AtRest(st, st.group, b)
Course(s, i, v, q, st, n, x) ==
    \E a, e, b : /\ Match(s, a) /\ Runs(a, i, v, e) /\ Chain(e, q, b) /\ Rests(st, n, b)
                 /\ x => a.ans
Concluded == Counting \/ Concludes(policy, policy.group)
Underway == ~Concluded \/ workerQ # << >> \/ Left # << >> \/ Answers(monitorQ, Current)
Courses ==
    Serving /\ Live /\ Underway =>
        \E s, i, v, q, st, n, x :
            /\ s = Sess /\ s \in SessionType /\ i = Left /\ v = Newest(task.payload) /\ q = workerQ
            /\ st = policy /\ n = config.groupsOf[request] /\ (x <=> Answers(monitorQ, Current))
            /\ Course(s, i, v, q, st, n, x)

(* The groups taken so far are those the policy counts.                     *)
Arrived ==
    /\ policy.group \in 0 .. config.groupsOf[request]
    /\ Taken = Offset(config, request, policy.group + 1)
    /\ Concludes(policy, policy.group) => policy.group = config.groupsOf[request]
    /\ config.policy \in PerImage /\ config.groupsOf[request] > 0 =>
          policy.n = config.groupsOf[request]
Grouped ==
    Serving => /\ policy.group \in Nat \cup {None}
               /\ Counting => policy = NewPolicy
               /\ Live /\ ~Counting => Arrived
Stores ==
    Serving => /\ \A q \in DOMAIN sessions : q \in 0 .. taskId /\ sessions[q] \in SessionType
               /\ task # NoTask => task.req \in 0 .. taskId
AllAnswered(res, n) == \A i \in Images : Complete(res.final[i], n)
Delivered ==
    Serving /\ resultQ # << >> =>
        \E res, n : res = Head(resultQ) /\ n = config.groupsOf[request] /\ AllAnswered(res, n)
Holding == Grouped /\ Stores /\ Delivered /\ Courses

-----------------------------------------------------------------------------
(* All this reads nothing that changes but what it is given.                *)
LEMMA CourseSame ==
    ASSUME config' = config
    PROVE  \A s, i, v, q, st, n, x : Course(s, i, v, q, st, n, x)' <=> Course(s, i, v, q, st, n, x)
  BY DEF Course, Rests, Counting, AtRest, Served, Between, Concludes, WholeFits, EarlyExit,
     GlobalMode, Stages, StageType, Versions, Detecting, ExecutorName, None, Front, VGGTBound,
     CostUpTo, TotalLayers, StageCost, NumGroups, LayerSplit, Policy, Boundary, Corrects0,
     Chain, Messages, Linked, Runs, Instrs, Passes, Allowed, LoadAllowed, PrepareAllowed, Ready,
     GlobalAllowed, ApproxAllowed, CorrectAllowed, HeadAllowed, Regions, MultiLevel, Denses,
     After, Loading, Preparing, Covering, Approximating, Correcting, Producing, Delivering,
     Match, State, TokensOK, CachesOK, DepthOK, FreshOK, WholeOK, OutOK, Complete, Good,
     Images, Layers, Parts, Whole, Restless, Forgetful

(* What does not change with the state.                                     *)
LEMMA OutcomeSame ==
    ASSUME config' = config
    PROVE  \A res, n : AllAnswered(res, n)' <=> AllAnswered(res, n)
  BY DEF AllAnswered, Complete, Good, ExecutorName, EarlyExit, TotalLayers, None, Images

LEMMA SessionSame ==
    ASSUME config' = config PROVE SessionType' = SessionType /\ NewSession' = NewSession
  BY DEF SessionType, Versions, Parts, Regions, Layers, Images, OutcomeType, Whole, NumGroups,
     TotalLayers, None, NewSession

LEMMA ConcludesSame ==
    ASSUME config' = config
    PROVE  \A st, g : Concludes(st, g)' <=> Concludes(st, g)
  BY DEF Concludes, Policy, NumGroups

LEMMA NewPolicySame ==
    ASSUME config' = config PROVE NewPolicy' = NewPolicy
  BY DEF NewPolicy, Policy, NumGroups

-----------------------------------------------------------------------------
(* Steps that leave the request where it is.                                *)
LEMMA HoldsEarly == ASSUME ~Serving' PROVE Holding'
  BY DEF Holding, Grouped, Stores, Delivered, Courses

(* The invariant holds at the start.                                        *)
LEMMA InitHolding == ASSUME Init PROVE Holding
<1>1. ~Serving
  BY DEF Init, Serving
<1>2. QED
  BY <1>1 DEF Holding, Grouped, Stores, Delivered, Courses

(* The parts of the invariant in the next state.                            *)
LEMMA CoursesThen ==
    ASSUME config' = config, NEW s, NEW i, NEW v, NEW q, NEW st, NEW n, NEW x,
           Serving' /\ Live' /\ Underway' =>
               /\ s = Sess' /\ s \in SessionType /\ i = Left' /\ v = Newest(task.payload)'
               /\ q = workerQ' /\ st = policy' /\ n = config.groupsOf[request']
               /\ (x <=> Answers(monitorQ', Current'))
               /\ Course(s, i, v, q, st, n, x)
    PROVE  Courses'
<1> SUFFICES ASSUME Serving', Live', Underway' PROVE Courses'
  BY DEF Courses
<1>1. SessionType' = SessionType
  BY SessionSame
<1>2. Course(s, i, v, q, st, n, x)'
  BY CourseSame
<1>3. QED
  BY <1>1, <1>2 DEF Courses

LEMMA CoursesOf ==
    ASSUME Courses, Serving, Live, Underway
    PROVE  /\ Sess \in SessionType
           /\ \E x : /\ x <=> Answers(monitorQ, Current)
                     /\ Course(Sess, Left, Newest(task.payload), workerQ, policy,
                               config.groupsOf[request], x)
  BY DEF Courses

LEMMA StoresThen ==
    ASSUME config' = config, Stores, Serving' => Serving, taskId' = taskId,
           UNCHANGED << sessions, task >>
    PROVE  Stores'
<1>1. SessionType' = SessionType
  BY SessionSame
<1>2. NoTask' = NoTask
  BY DEF NoTask, Task
<1>3. QED
  BY <1>1, <1>2 DEF Stores

LEMMA ArrivedThen ==
    ASSUME config' = config, Arrived, UNCHANGED << policy, request >>, Taken' = Taken
    PROVE  Arrived'
<1>1. Concludes(policy, policy.group)' <=> Concludes(policy, policy.group)
  BY ConcludesSame
<1>2. QED
  BY <1>1 DEF Arrived

LEMMA GroupedThen ==
    ASSUME config' = config, Grouped, Serving' => Serving, UNCHANGED policy,
           Live' => Live /\ request' = request /\ Taken' = Taken
    PROVE  Grouped'
<1>1. NewPolicy' = NewPolicy /\ (Counting' <=> Counting)
  BY NewPolicySame DEF Counting
<1>2. Serving' /\ Live' /\ ~Counting' => Arrived'
  BY <1>1, ArrivedThen DEF Grouped
<1>3. QED
  BY <1>1, <1>2 DEF Grouped

LEMMA DeliveredThen ==
    ASSUME config' = config, Delivered, Serving' => Serving, 
           resultQ' = << >> \/ (resultQ' = resultQ /\ request' = request)
    PROVE  Delivered'
<1> SUFFICES ASSUME Serving', resultQ' # << >> PROVE Delivered'
  BY DEF Delivered
<1>1. PICK res, n : res = Head(resultQ) /\ n = config.groupsOf[request] /\ AllAnswered(res, n)
  BY DEF Delivered
<1>2. AllAnswered(res, n)'
  BY <1>1, OutcomeSame
<1>3. res = Head(resultQ') /\ n = config'.groupsOf[request']
  BY <1>1
<1>4. QED
  BY <1>2, <1>3 DEF Delivered

(* Steps that touch neither policy nor worker.                              *)
LEMMA UnderwaySame ==
    ASSUME config' = config, UNCHANGED << policy, taskId >>
    PROVE  (Concluded' <=> Concluded) /\ Current' = Current /\ (Counting' <=> Counting)
<1>1. Concludes(policy, policy.group)' <=> Concludes(policy, policy.group)
  BY ConcludesSame
<1>2. QED
  BY <1>1 DEF Concluded, Counting, Current

LEMMA StaysHolding ==
    ASSUME Holding, config' = config, Serving' => Serving, Live' => Live, Taken' = Taken,
           UNCHANGED << sessions, task, monitorQ, workerQ, policy, taskId, request, resultQ >>
    PROVE  Holding'
<1>1. Stores' /\ Delivered' /\ Grouped'
  BY StoresThen, DeliveredThen, GroupedThen DEF Holding
<1>2. (Concluded' <=> Concluded) /\ Current' = Current
  BY UnderwaySame
<1>3. Left' = Left /\ Sess' = Sess
  <2>1. NewSession' = NewSession
    BY SessionSame
  <2>2. QED
    BY <1>2, <2>1 DEF Left, Sess
<1>4. Underway' <=> Underway
  BY <1>2, <1>3 DEF Underway
<1>5. Newest(task.payload)' = Newest(task.payload)
  OBVIOUS
<1>6. Courses'
  <2> SUFFICES ASSUME Serving', Live', Underway' PROVE Courses'
    BY DEF Courses
  <2>1. Courses /\ Serving /\ Live /\ Underway
    BY <1>4 DEF Holding
  <2>2. /\ Sess \in SessionType
        /\ \E x : /\ x <=> Answers(monitorQ, Current)
                  /\ Course(Sess, Left, Newest(task.payload), workerQ, policy,
                            config.groupsOf[request], x)
    BY <2>1, CoursesOf
  <2>3. PICK x : /\ x <=> Answers(monitorQ, Current)
                 /\ Course(Sess, Left, Newest(task.payload), workerQ, policy,
                           config.groupsOf[request], x)
    BY <2>2
  <2> DEFINE s == Sess
             i == Left
             v == Newest(task.payload)
             n == config.groupsOf[request]
  <2>4. /\ s = Sess' /\ s \in SessionType /\ i = Left' /\ v = Newest(task.payload)'
        /\ workerQ = workerQ' /\ policy = policy' /\ n = config.groupsOf[request']
        /\ (x <=> Answers(monitorQ', Current'))
        /\ Course(s, i, v, workerQ, policy, n, x)
    BY <1>2, <1>3, <1>5, <2>2, <2>3
  <2> HIDE DEF s, i, v, n
  <2>5. QED
    BY <2>4, CoursesThen
<1>7. QED
  BY <1>1, <1>6 DEF Holding

(* ... or find none under way.                                              *)
LEMMA IdleHolding ==
    ASSUME Holding, config' = config, Serving' => Serving, ~Live',
           UNCHANGED << sessions, task, policy, taskId >>,
           resultQ' = << >> \/ (resultQ' = resultQ /\ request' = request)
    PROVE  Holding'
<1>1. Stores' /\ Delivered' /\ Grouped'
  BY StoresThen, DeliveredThen, GroupedThen DEF Holding
<1>2. Courses'
  BY DEF Courses
<1>3. QED
  BY <1>1, <1>2 DEF Holding

-----------------------------------------------------------------------------
(* The client's steps, and those of the scheduler that queue no task.       *)
LEMMA SyncHolds ==
    ASSUME Agreed, Protocol, ReceiveTimeSync, config' = config PROVE Holding'
<1>1. /\ phase = "sync" /\ resultQ # << >> /\ resultQ' = Tail(resultQ)
      /\ phase' = "send" /\ todo' = Patches(request)
      /\ UNCHANGED << schedQ, buffer, policy, taskId, sessions, task, request >>
  BY DEF ReceiveTimeSync, schedulerVars, workerVars
<1>2. /\ schedQ = << >> /\ buffer = << >> /\ sessions = << >> /\ task = NoTask
      /\ policy = NewPolicy /\ Tail(resultQ) = << >>
  BY <1>1 DEF Protocol, Starting, Serving
<1>3. Given(config, request) /\ config \in Configs
  BY DEF Protocol, Types
<1>4. /\ Size(config, request) \in Nat /\ Len(PatchesOf(config, request)) = Size(config, request)
  BY <1>3, Fresh
<1>5. Taken' = 0
  <2>1. Len(buffer') = 0 /\ Len(schedQ') = 0 /\ Len(todo') = Size(config, request)
    BY <1>1, <1>2, <1>4, SamePatches
  <2>2. QED
    BY <1>1, <1>4, <2>1 DEF Taken
<1>6. ~Live' /\ resultQ' = << >>
  BY <1>1, <1>2, <1>5 DEF Live
<1>7. policy' = NewPolicy' /\ policy'.group \in Nat \cup {None}
  <2>1. NewPolicy.group = None
    BY <1>3, NewPolicyType
  <2>2. NewPolicy' = NewPolicy
    BY NewPolicySame
  <2>3. QED
    BY <1>1, <1>2, <2>1, <2>2
<1>8. Grouped'
  BY <1>6, <1>7 DEF Grouped
<1>9. Stores'
  <2>1. NoTask' = NoTask
    BY DEF NoTask, Task
  <2>2. DOMAIN sessions' = {} /\ task' = NoTask'
    BY <1>1, <1>2, <2>1
  <2>3. QED
    BY <2>2 DEF Stores
<1>10. Delivered' /\ Courses'
  BY <1>6 DEF Delivered, Courses
<1>11. QED
  BY <1>8, <1>9, <1>10 DEF Holding

(* The steps of the client, the links and the end.                          *)
LEMMA SendPatchHolds ==
    ASSUME Agreed, Protocol, Holding, SendPatch, config' = config PROVE Holding'
<1>1. /\ phase = "send" /\ todo # << >> /\ schedQ' = Append(schedQ, Head(todo))
      /\ todo' = Tail(todo)
      /\ UNCHANGED << workerQ, buffer, policy, taskId, sessions, task, monitorQ, resultQ, request >>
  BY DEF SendPatch, workerVars
<1>2. Serving
  BY <1>1 DEF Serving
<1>3. /\ Size(config, request) \in Nat /\ Len(buffer) \in Nat
      /\ Len(schedQ) \in Nat /\ Len(todo) \in Nat
      /\ todo \in Seq(PatchRecord) /\ schedQ \in Seq(PatchRecord)
  BY <1>2, Serves DEF Protocol, Types
<1>4. Len(todo') = Len(todo) - 1 /\ Len(schedQ') = Len(schedQ) + 1
  <2> DEFINE P == PatchRecord
             x == Head(todo)
  <2>1. /\ todo \in Seq(P) /\ todo # << >> /\ schedQ \in Seq(P) /\ x \in P
        /\ todo' = Tail(todo) /\ schedQ' = Append(schedQ, x)
    BY <1>1, <1>3
  <2> HIDE DEF P, x
  <2>2. QED
    BY <2>1
<1>5. Taken' = Taken
  BY <1>1, <1>3, <1>4 DEF Taken
<1>6. Live' => Live
  BY <1>1, <1>5 DEF Live
<1>7. QED
  BY <1>1, <1>2, <1>5, <1>6, StaysHolding

LEMMA ReceiveResultHolds ==
    ASSUME Agreed, Protocol, Holding, ReceiveResult, config' = config PROVE Holding'
<1>1. /\ phase = "wait" /\ resultQ # << >> /\ resultQ' = Tail(resultQ)
      /\ UNCHANGED << schedQ, buffer, policy, taskId, sessions, task >>
      /\ \/ /\ request < MaxRequests /\ request' = request + 1 /\ phase' = "send"
            /\ todo' = Patches(request + 1)
         \/ phase' = "done"
  BY DEF ReceiveResult, workerVars
<1>2. Serving
  BY <1>1 DEF Serving
<1>3. Taken = Size(config, request) /\ Tail(resultQ) = << >>
  BY <1>1, <1>2 DEF Protocol, Tasks
<1>4. buffer = << >> /\ schedQ = << >>
  BY <1>2, <1>3, Serves
<1>5. ~Live'
  <2>1. CASE phase' = "done"
    BY <2>1 DEF Live
  <2>2. CASE phase' # "done"
    <3>1. Given(config, request) /\ config.groupsOf \in Seq(Nat)
      BY PipelineAssumption DEF Protocol, Types, Given
    <3>2. Given(config, request')
      BY <1>1, <2>2, <3>1 DEF Given, MaxRequests, GroupsOf
    <3>3. /\ Size(config, request') \in Nat
          /\ Len(PatchesOf(config, request')) = Size(config, request')
      BY <3>2, Fresh
    <3>4. Len(buffer') = 0 /\ Len(schedQ') = 0 /\ Len(todo') = Size(config, request')
      BY <1>1, <1>4, <2>2, <3>3, SamePatches
    <3>5. Taken' = 0
      BY <3>3, <3>4 DEF Taken
    <3>6. QED
      BY <3>5 DEF Live
  <2>3. QED
    BY <2>1, <2>2
<1>6. resultQ' = << >>
  BY <1>1, <1>3
<1>7. QED
  BY <1>1, <1>2, <1>5, <1>6, IdleHolding

LEMMA DrainHolds ==
    ASSUME Agreed, Protocol, Holding, NEW p, NEW f, Drain(p, f), config' = config,
           UNCHANGED << workerVars, resultQ, clientVars >>
    PROVE  Holding'
<1>1. /\ p \in 0 .. Len(schedQ)
      /\ buffer' = buffer \o SubSeq(schedQ, 1, p)
      /\ schedQ' = SubSeq(schedQ, p + 1, Len(schedQ))
      /\ UNCHANGED << workerQ, policy, taskId, sessions, task, monitorQ, resultQ, phase, request,
                      todo >>
  BY DEF Drain, workerVars, clientVars
<1>2. CASE ~Serving'
  BY <1>2, HoldsEarly
<1>3. CASE Serving'
  <2>1. Serving
    BY <1>1, <1>3 DEF Serving
  <2>2. /\ Size(config, request) \in Nat /\ Len(buffer) \in Nat
        /\ Len(schedQ) \in Nat /\ Len(todo) \in Nat
        /\ buffer \in Seq(PatchRecord) /\ schedQ \in Seq(PatchRecord)
    BY <2>1, Serves DEF Protocol, Types
  <2>3. Len(buffer') = Len(buffer) + p /\ Len(schedQ') = Len(schedQ) - p
    <3> DEFINE q == schedQ
               a == buffer
               x == SubSeq(q, 1, p)
    <3>1. q \in Seq(PatchRecord) /\ a \in Seq(PatchRecord) /\ p \in 0 .. Len(q)
          /\ buffer' = a \o SubSeq(q, 1, p) /\ schedQ' = SubSeq(q, p + 1, Len(q))
      BY <1>1, <2>2
    <3> HIDE DEF q, a
    <3>2. x \in Seq(PatchRecord) /\ Len(x) = p
      BY <3>1
    <3>3. Len(schedQ') = Len(q) - p
      BY <3>1
    <3> HIDE DEF x
    <3>4. Behind(buffer', a, x)
      BY <3>1 DEF Behind, x
    <3>5. Len(buffer') = Len(a) + Len(x)
      BY <3>1, <3>2, <3>4, QueueJoin
    <3>6. QED
      BY <3>2, <3>3, <3>5 DEF q, a
  <2>4. Taken' = Taken
    BY <1>1, <2>2, <2>3 DEF Taken
  <2>5. Live' => Live
    BY <1>1, <2>4 DEF Live
  <2>6. QED
    BY <1>1, <2>1, <2>4, <2>5, StaysHolding
<1>4. QED
  BY <1>2, <1>3

LEMMA ControlHolds ==
    ASSUME Protocol, Holding, Configure \/ ForwardTimeSync \/ Stop, config' = config,
           UNCHANGED << workerVars, resultQ, clientVars >>
    PROVE  Holding'
<1>1. /\ controlQ # << >>
      /\ UNCHANGED << sessions, task, resultQ, phase, request >>
      /\ Stop => UNCHANGED << policy, taskId >>
      /\ ~Stop => Head(controlQ) # "STOP"
  BY DEF Configure, ForwardTimeSync, Stop, Control, workerVars, clientVars
<1>2. CASE ~Serving'
  BY <1>2, HoldsEarly
<1>3. CASE Serving'
  <2>1. Serving
    BY <1>1, <1>3 DEF Serving
  <2>2. phase = "done" /\ controlQ = << "STOP" >>
    BY <1>1, <2>1 DEF Protocol, Tasks
  <2>3. Stop
    BY <1>1, <2>2
  <2>4. ~Live'
    BY <1>1, <2>2 DEF Live
  <2>5. QED
    BY <1>1, <2>1, <2>3, <2>4, IdleHolding
<1>4. QED
  BY <1>2, <1>3

LEMMA StutterHolds ==
    ASSUME Holding, config' = config, UNCHANGED vars PROVE Holding'
<1>1. UNCHANGED << schedQ, buffer, workerQ, policy, taskId, sessions, task, monitorQ, resultQ,
                   phase, request, todo >>
  BY DEF vars, schedulerVars, workerVars, clientVars
<1>2. Taken' = Taken /\ Live' = Live /\ Serving' = Serving
  BY <1>1 DEF Taken, Live, Serving
<1>3. QED
  BY <1>1, <1>2, StaysHolding

(* The policy has nothing to queue.                                         *)
LEMMA DeclinedHolds ==
    ASSUME Protocol, Holding, config' = config, policy' = policy,
           UNCHANGED << queueVars, buffer, taskId, workerQ, workerVars, resultQ, clientVars >>
    PROVE  Holding'
<1>1. UNCHANGED << schedQ, buffer, workerQ, policy, taskId, sessions, task, monitorQ, resultQ,
                   phase, request, todo >>
  BY DEF queueVars, workerVars, clientVars
<1>2. Taken' = Taken /\ Live' = Live /\ Serving' = Serving
  BY <1>1 DEF Taken, Live, Serving
<1>3. QED
  BY <1>1, <1>2, StaysHolding

-----------------------------------------------------------------------------
(* A task the GPU thread begins.                                            *)
LEMMA TakeHolds ==
    ASSUME Agreed, Protocol, Holding, TakeMessage, config' = config PROVE Holding'
<1>1. /\ task = NoTask /\ workerQ # << >> /\ workerQ' = Tail(workerQ)
      /\ UNCHANGED << schedQ, buffer, policy, taskId, monitorQ, phase, request, todo >>
  BY DEF TakeMessage, queueVars, clientVars
<1>2. Serving' <=> Serving
  BY <1>1 DEF Serving
<1>3. CASE ~Serving
  BY <1>2, <1>3, HoldsEarly
<1> DEFINE M == MessageOf(config)
           msg == Head(workerQ)
           t == msg.task
<1>4. workerQ \in Seq(M) /\ 1 \in DOMAIN workerQ /\ msg = workerQ[1] /\ msg \in M
  <2>1. workerQ \in Seq(M)
    BY DEF Protocol, Types
  <2> HIDE DEF M
  <2>2. QED
    BY <1>1, <2>1, QueueFirst
<1> HIDE DEF M
<1>5. CASE Serving /\ phase = "done"
  <2>1. msg = Message("STOP")
    BY <1>4, <1>5 DEF Protocol, Tasks
  <2>2. sessions' = sessions /\ task' = task /\ resultQ' = resultQ
    BY <2>1 DEF TakeMessage, Message
  <2>3. ~Live'
    BY <1>1, <1>5 DEF Live
  <2>4. QED
    BY <1>1, <1>2, <2>2, <2>3, IdleHolding
<1>6. CASE Serving /\ phase # "done"
  <2>1. msg.type = "TASK" /\ Live /\ t.req = Current
    BY <1>4, <1>6 DEF Protocol, Tasks
  <2>2. /\ task' = t /\ resultQ' = resultQ
        /\ sessions' = IF t.req \in DOMAIN sessions THEN sessions ELSE Kept(t.req, NewSession)
    BY <2>1 DEF TakeMessage
  <2>3. t \in TaskOf(config)
    BY <1>4 DEF M, MessageOf
  <2>4. Taken' = Taken /\ Live' /\ Current' = Current /\ (Concluded' <=> Concluded)
    BY <1>1, <2>1, <2>2, UnderwaySame DEF Taken, Live
  <2>5. Current \in 0 .. taskId - 1 /\ taskId \in Nat /\ config \in Configs
    BY <1>6, <2>1 DEF Protocol, Tasks, Types
  <2>6. NewSession' = NewSession /\ SessionType' = SessionType /\ NewSession \in SessionType
    BY <2>5, SessionSame, StartMatches
  <2>7. Sess' = Sess
    BY <2>1, <2>2, <2>4, <2>6 DEF Sess, Kept
  <2>8. Left = << >> /\ Left' = t.instrs
    BY <1>1, <2>1, <2>2, <2>4 DEF Left, NoTask, Task
  <2> HIDE DEF msg, t
  <2>9. Underway
    BY <1>1 DEF Underway
  <2>10. Courses
    BY DEF Holding
  <2>11. /\ Sess \in SessionType
         /\ \E x : /\ x <=> Answers(monitorQ, Current)
                   /\ Course(Sess, Left, Newest(task.payload), workerQ, policy,
                             config.groupsOf[request], x)
    BY <1>6, <2>1, <2>9, <2>10, CoursesOf
  <2>12. PICK x : /\ x <=> Answers(monitorQ, Current)
                  /\ Course(Sess, Left, Newest(task.payload), workerQ, policy,
                            config.groupsOf[request], x)
    BY <2>11
  <2> DEFINE n == config.groupsOf[request]
             s == Sess
             v == Newest(task.payload)
             w == Version(msg)
             q == Tail(workerQ)
             i == t.instrs
  <2>13. PICK a, e, b : /\ Match(s, a) /\ Runs(a, << >>, v, e) /\ Chain(e, workerQ, b)
                        /\ Rests(policy, n, b) /\ (x => a.ans)
    BY <2>8, <2>12 DEF Course
  <2> HIDE DEF n, s, v
  <2>14. e = a
    BY <2>13, RunNil
  <2>15. PICK m : Runs(a, i, w, m) /\ Chain(m, q, b)
    BY <1>1, <2>13, <2>14, ChainHead DEF msg, t
  <2> HIDE DEF w, q, i
  <2>16. Course(s, i, w, q, policy, n, x)
    BY <2>13, <2>15 DEF Course
  <2>17. w = Newest(task.payload)'
    BY <2>2 DEF w, Version, t
  <2>18. /\ s = Sess' /\ s \in SessionType /\ i = Left' /\ w = Newest(task.payload)'
         /\ q = workerQ' /\ policy = policy' /\ n = config.groupsOf[request']
         /\ (x <=> Answers(monitorQ', Current'))
    BY <1>1, <2>4, <2>7, <2>8, <2>11, <2>12, <2>17 DEF s, i, q, n
  <2>19. Courses'
    BY <2>16, <2>18, CoursesThen
  <2>20. Stores'
    <3>1. \A y \in DOMAIN sessions : y \in 0 .. taskId /\ sessions[y] \in SessionType
      BY <1>6 DEF Holding, Stores
    <3>2. t.req \in 0 .. taskId
      BY <2>1, <2>5
    <3>3. \A y \in DOMAIN sessions' : y \in 0 .. taskId /\ sessions'[y] \in SessionType
      BY <2>2, <2>6, <3>1, <3>2 DEF Kept
    <3>4. QED
      BY <1>1, <2>2, <2>6, <3>2, <3>3 DEF Stores
  <2>21. Grouped' /\ Delivered'
    BY <1>1, <1>2, <2>1, <2>2, <2>4, GroupedThen, DeliveredThen DEF Holding
  <2>22. QED
    BY <2>19, <2>20, <2>21 DEF Holding
<1>7. QED
  BY <1>3, <1>5, <1>6

(* What the GPU thread is about to launch may come: it does not raise.      *)
Due(s, a, v) == Match(s, a) /\ a \in Stages /\ Allowed(a, Instruction, v)

(* The worker's task and the policy's course.                               *)
LEMMA MineCourse ==
    ASSUME Agreed, Protocol, Holding, task # NoTask, Live, task.req = Current
    PROVE  /\ Context = Sess /\ Sess \in SessionType /\ config \in Configs
           /\ Left = task.instrs /\ task.instrs # << >>
           /\ \E x : /\ x <=> Answers(monitorQ, Current)
                     /\ Course(Sess, Left, Newest(task.payload), workerQ, policy,
                               config.groupsOf[request], x)
<1>1. Serving /\ task.instrs # << >>
  BY NextJob
<1>2. Context = Sess /\ Left = task.instrs
  BY DEF Context, Sess, Left
<1>3. Underway
  BY <1>1, <1>2 DEF Underway
<1>4. Courses /\ config \in Configs
  BY DEF Holding, Protocol, Types
<1>5. QED
  BY <1>1, <1>2, <1>3, <1>4, CoursesOf

LEMMA MineNext ==
    ASSUME Agreed, Protocol, Holding, task # NoTask, Live, task.req = Current
    PROVE  \E a : Due(Context, a, Newest(task.payload))
<1>1. /\ Context = Sess /\ Left = task.instrs /\ task.instrs # << >>
      /\ \E x : /\ x <=> Answers(monitorQ, Current)
                /\ Course(Sess, Left, Newest(task.payload), workerQ, policy,
                          config.groupsOf[request], x)
  BY MineCourse
<1>2. PICK x : Course(Sess, Left, Newest(task.payload), workerQ, policy,
                      config.groupsOf[request], x)
  BY <1>1
<1> DEFINE s == Sess
           i == Left
           v == Newest(task.payload)
           n == config.groupsOf[request]
<1>3. PICK a, e, b : Match(s, a) /\ Runs(a, i, v, e)
  BY <1>2 DEF Course
<1> HIDE DEF s, i, v, n
<1>4. a \in Stages /\ Allowed(a, Head(i), v)
  BY <1>1, <1>3, RunHead DEF i
<1>5. QED
  BY <1>1, <1>3, <1>4 DEF Due, s, i, v, Instruction

(* An instruction of a task does not raise, and finds what it reads.        *)
LEMMA NoRaise ==
    ASSUME Agreed, Protocol, Holding, task # NoTask
    PROVE  /\ ~Raises(Context, Instruction)
           /\ Live /\ task.req = Current /\ ~Skipped(Context, Instruction) =>
                 Finds(Context, Instruction)
<1>1. CASE ~(Live /\ task.req = Current)
  <2>1. Instruction.op = "FREE_SESSION"
    BY <1>1, NextJob
  <2>2. QED
    BY <1>1, <2>1, RaisesEarly DEF AnswerOps
<1>2. CASE Live /\ task.req = Current
  <2>1. Context \in SessionType /\ config \in Configs
    BY <1>2, MineCourse
  <2>2. PICK a : Due(Context, a, Newest(task.payload))
    BY <1>2, MineNext
  <2> DEFINE s == Context
             v == Newest(task.payload)
             i == Instruction
  <2>3. /\ s \in SessionType /\ a \in Stages /\ Match(s, a) /\ Allowed(a, i, v)
    BY <2>1, <2>2 DEF Due
  <2> HIDE DEF s, v, i
  <2>4. ~Skipped(s, i) => Finds(s, i)
    BY <2>1, <2>3, MatchSound
  <2>5. Finds(s, i) => ~Raises(s, i)
    BY DEF Finds
  <2>6. Skipped(s, i) => ~Raises(s, i)
    BY DEF Raises
  <2>7. QED
    BY <2>4, <2>5, <2>6 DEF s, i
<1>3. QED
  BY <1>1, <1>2

(* The session of the request under way when its next instruction has run.  *)
LEMMA MineMoves ==
    ASSUME config \in Configs, NEW s \in SessionType, NEW i, NEW v, NEW w, NEW q, NEW st, NEW n,
           NEW x, Course(s, i, v, q, st, n, x), i # << >>,
           NEW exits \in Exits(s, Head(i)), NEW t, t = Dispatch(s, Head(i), v, exits),
           NEW y, y => x \/ Head(i).op \in AnswerOps, w = v \/ Tail(i) = << >>
    PROVE  t \in SessionType /\ Course(t, Tail(i), w, q, st, n, y)
<1>1. PICK a, e, b : /\ Match(s, a) /\ Runs(a, i, v, e) /\ Chain(e, q, b)
                     /\ Rests(st, n, b) /\ (x => a.ans)
  BY DEF Course
<1> DEFINE h == Head(i)
           c == After(a, h, v)
           j == Tail(i)
<1>2. a \in Stages /\ Allowed(a, h, v) /\ Runs(c, j, v, e)
  BY <1>1, RunHead
<1> HIDE DEF h, j
<1>3. t \in SessionType /\ Match(t, c)
  <2> DEFINE d == c
  <2>1. d = After(a, h, v)
    OBVIOUS
  <2> HIDE DEF d
  <2>2. t \in SessionType /\ Match(t, d)
    BY <1>1, <1>2, <2>1, MatchKeeps DEF h
  <2>3. QED
    BY <2>2 DEF d
<1>4. Closed(a, c)
  BY <1>2, AfterClosed
<1>5. h.op \in AnswerOps => c.ans
  <2>1. a \in StageType
    BY <1>2 DEF Stages
  <2>2. h.op = "SEND_RESPONSE" => c = Delivering(a)
    BY DEF After
  <2>3. Delivering(a).ans
    BY <2>1 DEF Delivering, StageType
  <2>4. h.op = "FREE_SESSION" => a.ans
    BY <1>2 DEF Allowed
  <2>5. QED
    BY <1>4, <2>2, <2>3, <2>4 DEF AnswerOps, Closed
<1> HIDE DEF c
<1>6. y => c.ans
  BY <1>1, <1>4, <1>5 DEF Closed, h
<1>7. Runs(c, j, w, e)
  <2>1. CASE w = v
    BY <1>2, <2>1
  <2>2. CASE j = << >>
    <3>1. e = c /\ c \in Stages
      BY <1>2, <2>2, RunNil, RunEnds
    <3>2. QED
      BY <2>2, <3>1, RunNil
  <2>3. QED
    BY <2>1, <2>2 DEF j
<1>8. Course(t, j, w, q, st, n, y)
  BY <1>1, <1>3, <1>6, <1>7 DEF Course
<1>9. QED
  BY <1>3, <1>8 DEF j

(* The worker launches an instruction: the session takes one step of its    *)
(* course.                                                                  *)
LEMMA LaunchHolds ==
    ASSUME Agreed, Protocol, Holding, Launch, config' = config PROVE Holding'
<1>1. /\ Serving /\ task # NoTask /\ task \in TaskOf(config) /\ task.instrs # << >>
      /\ UNCHANGED << schedQ, workerQ, buffer, policy, taskId, resultQ, phase, request, todo >>
      /\ (Live /\ task.req = Current) \/ Instruction.op = "FREE_SESSION"
  BY LaunchOf, NextJob
<1>2. ~Raises(Context, Instruction)
  BY <1>1, NoRaise
<1> DEFINE v == Newest(task.payload)
           j == Job(Instruction)
           J == JobType(config)
<1>3. PICK exits \in Exits(Context, Instruction) :
         sessions' = Kept(task.req, Dispatch(Context, Instruction, v, exits))
  BY <1>2 DEF Launch
<1>4. /\ monitorQ' = Append(monitorQ, j)
      /\ task' = IF Len(task.instrs) = 1 THEN NoTask ELSE [task EXCEPT !.instrs = Tail(@)]
      /\ j.req = task.req /\ j.op = Instruction.op
  BY <1>2 DEF Launch, Job
<1> DEFINE t == Dispatch(Context, Instruction, v, exits)
<1>5. /\ Serving' /\ Taken' = Taken /\ (Live' <=> Live)
      /\ Current' = Current /\ (Concluded' <=> Concluded)
  BY <1>1, UnderwaySame DEF Serving, Taken, Live
<1>6. /\ config \in Configs /\ taskId \in Nat
      /\ SessionType' = SessionType /\ NewSession' = NewSession /\ NewSession \in SessionType
      /\ \A q \in DOMAIN sessions : q \in 0 .. taskId /\ sessions[q] \in SessionType
      /\ task.req \in 0 .. taskId
  BY <1>1, SessionSame, StartMatches DEF Protocol, Types, Holding, Stores
<1>7. Context \in SessionType
  BY <1>6 DEF Context
<1>8. /\ task'.req = task.req \/ task' = NoTask
      /\ Len(task.instrs) = 1 => task' = NoTask /\ Tail(task.instrs) = << >>
      /\ Len(task.instrs) # 1 => task' = [task EXCEPT !.instrs = Tail(@)]
      /\ Len(task.instrs) # 1 => /\ task'.req = task.req /\ task'.payload = task.payload
                                 /\ task'.instrs = Tail(task.instrs)
  <2> DEFINE I == InstrOf(config)
             z == task.instrs
  <2>1. z \in Seq(I) /\ z # << >>
    BY <1>1 DEF TaskOf
  <2> HIDE DEF I, z
  <2>2. Len(z) = 1 => Tail(z) = << >>
    <3> DEFINE u == Tail(z)
    <3>1. u \in Seq(I) /\ Len(u) = Len(z) - 1
      BY <2>1, QueueTail
    <3> HIDE DEF u
    <3>2. Len(z) = 1 => u = << >>
      BY <3>1
    <3>3. QED
      BY <3>2 DEF u
  <2>3. Len(z) # 1 => task' = [task EXCEPT !.instrs = Tail(z)]
    BY <1>4 DEF z
  <2>4. Len(z) # 1 => task'.req = task.req /\ task'.payload = task.payload
                      /\ task'.instrs = Tail(z)
    BY <1>1, <2>3 DEF TaskOf
  <2>5. QED
    BY <1>4, <2>2, <2>4 DEF z
<1>9. NoTask' = NoTask /\ NoTask.req = None /\ NoTask.instrs = << >>
  BY DEF NoTask, Task
<1>10. Answers(monitorQ', Current) <=>
          Answers(monitorQ, Current) \/ (task.req = Current /\ Instruction.op \in AnswerOps)
  <2> DEFINE q == monitorQ
             p == Append(q, j)
  <2>1. q \in Seq(J) /\ j \in J
    <3>1. j \in J
      <4>1. Instruction \in InstrOf(config)
        BY <1>1 DEF TaskOf, Instruction
      <4>2. task.req \in Int /\ task.id \in Int
        BY <1>1 DEF TaskOf
      <4>3. QED
        BY <4>1, <4>2 DEF Job, JobType, InstrOf
    <3>2. QED
      BY <3>1 DEF Protocol, Types
  <2> HIDE DEF q, j, J
  <2>2. /\ DOMAIN p = DOMAIN q \cup {Len(q) + 1} /\ p[Len(q) + 1] = j
        /\ \A k \in DOMAIN q : p[k] = q[k]
    BY <2>1
  <2> HIDE DEF p
  <2>3. Answers(p, Current) <=>
           Answers(q, Current) \/ (j.req = Current /\ j.op \in AnswerOps)
    BY <2>2 DEF Answers
  <2>4. QED
    BY <1>4, <2>3 DEF p, q
<1> HIDE DEF v, j, J
<1>11. t \in SessionType /\ Courses'
  <2>1. CASE Live /\ task.req = Current
    <3>1. /\ Context = Sess /\ Left = task.instrs
          /\ \E x : /\ x <=> Answers(monitorQ, Current)
                    /\ Course(Sess, Left, Newest(task.payload), workerQ, policy,
                              config.groupsOf[request], x)
      BY <1>1, <2>1, MineCourse
    <3>2. PICK x : /\ x <=> Answers(monitorQ, Current)
                   /\ Course(Sess, Left, Newest(task.payload), workerQ, policy,
                             config.groupsOf[request], x)
      BY <3>1
    <3> DEFINE n == config.groupsOf[request]
               s == Context
               i == task.instrs
               w == Newest(task'.payload)
               y == Answers(monitorQ', Current)
    <3>3. Course(s, i, v, workerQ, policy, n, x) /\ s \in SessionType /\ i # << >>
      BY <1>1, <1>7, <3>1, <3>2 DEF v
    <3>4. y => x \/ Head(i).op \in AnswerOps
      BY <1>10, <3>2 DEF Instruction
    <3>5. w = v \/ Tail(i) = << >>
      <4>1. Len(i) # 1 => task'.payload = task.payload
        BY <1>8
      <4>2. QED
        BY <1>8, <4>1 DEF v
    <3>6. exits \in Exits(s, Head(i)) /\ t = Dispatch(s, Head(i), v, exits)
      BY DEF Instruction
    <3>7. Sess' = t
      BY <1>3, <1>5, <2>1 DEF Sess, Kept
    <3>8. Left' = Tail(i)
      <4>1. CASE Len(i) = 1
        BY <1>8, <1>9, <4>1 DEF Left
      <4>2. CASE Len(i) # 1
        BY <1>5, <1>8, <2>1, <4>2 DEF Left
      <4>3. QED
        BY <4>1, <4>2
    <3> HIDE DEF n, s, i, w, y, t
    <3>9. t \in SessionType /\ Course(t, Tail(i), w, workerQ, policy, n, y)
      BY <1>6, <3>3, <3>4, <3>5, <3>6, MineMoves
    <3>10. /\ t = Sess' /\ t \in SessionType /\ Tail(i) = Left' /\ w = Newest(task.payload)'
           /\ workerQ = workerQ' /\ policy = policy' /\ n = config.groupsOf[request']
           /\ (y <=> Answers(monitorQ', Current'))
      BY <1>1, <1>5, <3>7, <3>8, <3>9 DEF w, y, n
    <3> DEFINE k == Tail(i)
    <3>11. Courses'
      <4> HIDE DEF k
      <4>1. /\ t = Sess' /\ t \in SessionType /\ k = Left' /\ w = Newest(task.payload)'
            /\ workerQ = workerQ' /\ policy = policy' /\ n = config.groupsOf[request']
            /\ (y <=> Answers(monitorQ', Current'))
            /\ Course(t, k, w, workerQ, policy, n, y)
        BY <3>9, <3>10 DEF k
      <4>2. QED
        BY <4>1, CoursesThen
    <3>12. QED
      BY <3>9, <3>11
  <2>2. CASE ~(Live /\ task.req = Current)
    <3>1. Instruction.op = "FREE_SESSION"
      BY <1>1, <2>2
    <3>2. t = Context
      <4>1. ~Skipped(Context, Instruction)
        BY <3>1 DEF Skipped, Skippable
      <4>2. QED
        BY <1>7, <3>1, <4>1, DispatchIs
    <3>3. Courses'
      <4> SUFFICES ASSUME Live', Underway' PROVE Courses'
        BY DEF Courses
      <4>1. Live /\ task.req # Current
        BY <1>5, <2>2
      <4>2. Sess' = Sess
        BY <1>3, <1>5, <1>6, <4>1 DEF Sess, Kept
      <4>3. Left = << >> /\ Left' = << >>
        BY <1>5, <1>8, <1>9, <4>1 DEF Left
      <4>4. Answers(monitorQ', Current) <=> Answers(monitorQ, Current)
        BY <1>10, <4>1
      <4>5. Underway /\ Courses
        BY <1>1, <1>5, <4>3, <4>4 DEF Underway, Holding
      <4>6. /\ Sess \in SessionType
            /\ \E x : /\ x <=> Answers(monitorQ, Current)
                      /\ Course(Sess, Left, Newest(task.payload), workerQ, policy,
                                config.groupsOf[request], x)
        BY <1>1, <4>1, <4>5, CoursesOf
      <4>7. PICK x : /\ x <=> Answers(monitorQ, Current)
                     /\ Course(Sess, Left, Newest(task.payload), workerQ, policy,
                               config.groupsOf[request], x)
        BY <4>6
      <4> DEFINE n == config.groupsOf[request]
                 s == Sess
                 w == Newest(task'.payload)
      <4>8. PICK a, e, b : /\ Match(s, a) /\ Runs(a, << >>, v, e) /\ Chain(e, workerQ, b)
                           /\ Rests(policy, n, b) /\ (x => a.ans)
        BY <4>3, <4>7 DEF Course, v
      <4> HIDE DEF n, s, w
      <4>9. Runs(a, << >>, w, e)
        <5>1. e = a /\ a \in Stages
          BY <4>8, RunNil, RunEnds
        <5>2. QED
          BY <5>1, RunNil
      <4>10. Course(s, << >>, w, workerQ, policy, n, x)
        BY <4>8, <4>9 DEF Course
      <4>11. /\ s = Sess' /\ s \in SessionType /\ << >> = Left' /\ w = Newest(task.payload)'
             /\ workerQ = workerQ' /\ policy = policy' /\ n = config.groupsOf[request']
             /\ (x <=> Answers(monitorQ', Current'))
        BY <1>1, <1>5, <4>2, <4>3, <4>4, <4>6, <4>7 DEF s, w, n
      <4>12. QED
        BY <4>10, <4>11, CoursesThen
    <3>4. QED
      BY <1>7, <3>2, <3>3
  <2>3. QED
    BY <2>1, <2>2
<1>12. Stores'
  <2>1. sessions' = Kept(task.req, t)
    BY <1>3
  <2> HIDE DEF t
  <2>2. \A q \in DOMAIN sessions' : q \in 0 .. taskId /\ sessions'[q] \in SessionType
    BY <1>6, <1>11, <2>1 DEF Kept
  <2>3. task' # NoTask => task'.req \in 0 .. taskId
    BY <1>6, <1>8
  <2>4. QED
    BY <1>1, <1>6, <1>9, <2>2, <2>3 DEF Stores
<1>13. Grouped' /\ Delivered'
  BY <1>1, <1>5, GroupedThen, DeliveredThen DEF Holding
<1>14. QED
  BY <1>11, <1>12, <1>13 DEF Holding

-----------------------------------------------------------------------------
(* Once the answer has been launched, every image has its result.           *)
LEMMA AnsweredCourse ==
    ASSUME config \in Configs, NEW s, NEW i, NEW v, NEW q, NEW st, NEW n, NEW x,
           Course(s, i, v, q, st, n, x), x
    PROVE  /\ Counting \/ Concludes(st, st.group)
           /\ \A im \in Images : Complete(s.final[im], IF Counting THEN n ELSE st.group)
<1>1. PICK a, e, b : /\ Match(s, a) /\ Runs(a, i, v, e) /\ Chain(e, q, b)
                     /\ Rests(st, n, b) /\ (x => a.ans)
  BY DEF Course
<1>2. Closed(a, e)
  BY <1>1, RunClosed
<1>3. Closed(e, b)
  BY <1>1, ChainClosed
<1>4. a.ans /\ b.ans /\ b.in = a.in
  BY <1>1, <1>2, <1>3 DEF Closed
<1>5. \A im \in Images : Complete(s.final[im], a.in)
  BY <1>1, <1>4 DEF Match
<1>6. CASE Counting
  BY <1>1, <1>4, <1>5, <1>6 DEF Rests, Served
<1>7. CASE ~Counting
  <2>1. AtRest(st, st.group, b)
    BY <1>1, <1>7 DEF Rests
  <2>2. Concludes(st, st.group) /\ b.in = st.group
    BY <1>4, <2>1 DEF AtRest, Between, Served
  <2>3. QED
    BY <1>4, <1>5, <1>7, <2>2
<1>8. QED
  BY <1>6, <1>7

(* An answer that is no longer on its way.                                  *)
LEMMA CourseUnder ==
    ASSUME NEW s, NEW i, NEW v, NEW q, NEW st, NEW n, NEW x, NEW y,
           Course(s, i, v, q, st, n, x), y => x
    PROVE  Course(s, i, v, q, st, n, y)
  BY DEF Course

(* The reaper has seen the oldest job.                                      *)
LEMMA ReapHolds ==
    ASSUME Agreed, Protocol, Holding, Reap, config' = config PROVE Holding'
<1> DEFINE job == Head(monitorQ)
           frees == job.req \in DOMAIN sessions /\ job.op = "FREE_SESSION"
           x == [sync |-> FALSE, req |-> job.req, final |-> sessions[job.req].final]
           J == JobType(config)
<1>1. /\ monitorQ # << >> /\ monitorQ' = Tail(monitorQ)
      /\ resultQ' = IF Delivers THEN Append(resultQ, x) ELSE resultQ
      /\ sessions' = IF frees THEN [q \in DOMAIN sessions \ {job.req} |-> sessions[q]]
                     ELSE sessions
      /\ UNCHANGED << schedQ, workerQ, buffer, policy, taskId, task, phase, request, todo >>
  BY DEF Reap, clientVars, Delivers, Oldest
<1>2. Reaping /\ Serving /\ Serving' /\ Taken' = Taken /\ Current' = Current
  BY ReapOf DEF Reaping
<1>3. /\ Delivers => /\ Live /\ resultQ = << >> /\ job.req = Current
                     /\ job.req \in DOMAIN sessions /\ job.op = "SEND_RESPONSE"
      /\ ~Delivers => (Live' <=> Live)
  BY <1>1, <1>2 DEF Reaping, Delivers, Oldest, Live
<1>4. monitorQ \in Seq(J) /\ config \in Configs
  BY DEF Protocol, Types
<1> HIDE DEF J
<1>5. /\ 1 \in DOMAIN monitorQ /\ job = monitorQ[1]
      /\ Answers(monitorQ', Current) => Answers(monitorQ, Current)
      /\ Len(monitorQ) \in Nat /\ Len(monitorQ) >= 1 /\ Len(monitorQ') = Len(monitorQ) - 1
      /\ monitorQ' \in Seq(J)
  <2> DEFINE q == monitorQ
             p == Tail(q)
  <2>1. q \in Seq(J) /\ q # << >>
    BY <1>1, <1>4
  <2> HIDE DEF q, p
  <2>2. /\ p \in Seq(J) /\ Len(p) = Len(q) - 1 /\ Len(q) \in Nat /\ Len(q) >= 1
        /\ Head(q) = q[1] /\ \A i \in 1 .. Len(q) - 1 : p[i] = q[i + 1]
    BY <2>1, QueueTail DEF p
  <2>3. DOMAIN q = 1 .. Len(q) /\ DOMAIN p = 1 .. Len(q) - 1
    BY <2>1, <2>2
  <2>4. \A i \in DOMAIN p : i + 1 \in DOMAIN q /\ p[i] = q[i + 1]
    BY <2>2, <2>3
  <2>5. Answers(p, Current) => Answers(q, Current)
    BY <2>4 DEF Answers
  <2>6. 1 \in DOMAIN q
    BY <2>2, <2>3
  <2>7. QED
    BY <1>1, <2>2, <2>5, <2>6 DEF p, q
<1> HIDE DEF job, x
<1>6. job.op \in AnswerOps /\ job.req = Current => Answers(monitorQ, Current)
  BY <1>5 DEF Answers
<1>7. /\ SessionType' = SessionType /\ NewSession' = NewSession /\ NoTask' = NoTask
      /\ (Concluded' <=> Concluded) /\ (Counting' <=> Counting)
  BY <1>1, SessionSame, UnderwaySame DEF NoTask, Task
<1>8. Courses /\ Grouped /\ Stores /\ Delivered
  BY DEF Holding
<1>9. Stores'
  <2>1. \A q \in DOMAIN sessions' : q \in DOMAIN sessions /\ sessions'[q] = sessions[q]
    BY <1>1
  <2>2. QED
    BY <1>1, <1>2, <1>7, <1>8, <2>1 DEF Stores
<1>10. ASSUME Live, Answers(monitorQ, Current)
       PROVE  /\ Concluded
              /\ \A im \in Images : Complete(Sess.final[im], IF Counting
                                       THEN config.groupsOf[request] ELSE policy.group)
  <2>1. Underway
    BY <1>10 DEF Underway
  <2>2. \E y : /\ y <=> Answers(monitorQ, Current)
               /\ Course(Sess, Left, Newest(task.payload), workerQ, policy,
                         config.groupsOf[request], y)
    BY <1>2, <1>8, <1>10, <2>1, CoursesOf
  <2>3. PICK y : /\ y <=> Answers(monitorQ, Current)
                 /\ Course(Sess, Left, Newest(task.payload), workerQ, policy,
                           config.groupsOf[request], y)
    BY <2>2
  <2> DEFINE s == Sess
             i == Left
             v == Newest(task.payload)
             n == config.groupsOf[request]
  <2>4. Course(s, i, v, workerQ, policy, n, y) /\ y
    BY <1>10, <2>3
  <2> HIDE DEF s, i, v, n
  <2>5. /\ Counting \/ Concludes(policy, policy.group)
        /\ \A im \in Images : Complete(s.final[im], IF Counting THEN n ELSE policy.group)
    BY <1>4, <2>4, AnsweredCourse
  <2>6. QED
    BY <2>5 DEF Concluded, s, n
<1>11. CASE Delivers
  <2>1. Live /\ Answers(monitorQ, Current)
    BY <1>3, <1>6, <1>11 DEF AnswerOps
  <2>2. resultQ' = << x >> /\ resultQ' # << >> /\ Head(resultQ') = x
    <3>1. resultQ' = << x >>
      BY <1>1, <1>3, <1>11
    <3>2. QED
      BY <3>1, QueueOne, Zenon
  <2>3. ~Live'
    BY <2>2 DEF Live
  <2>4. x.final = Sess.final
    BY <1>3, <1>11 DEF x, Sess
  <2> DEFINE n == config.groupsOf[request]
  <2>5. ~Counting => policy.group = n
    BY <1>2, <1>8, <1>10, <2>1 DEF Grouped, Arrived, Concluded
  <2>6. AllAnswered(x, n)
    <3>1. \A im \in Images : Complete(Sess.final[im], n)
      BY <1>10, <2>1, <2>5
    <3>2. QED
      BY <2>4, <3>1 DEF AllAnswered
  <2> HIDE DEF n
  <2>7. Delivered'
    <3> DEFINE res == x
    <3>1. AllAnswered(res, n)
      BY <2>6
    <3>2. res = Head(resultQ') /\ n = config'.groupsOf[request']
      BY <1>1, <2>2 DEF n
    <3> SUFFICES \E r, k : /\ r = Head(resultQ') /\ k = config'.groupsOf[request']
                           /\ AllAnswered(r, k)'
      BY DEF Delivered
    <3>3. PICK r, k : r = Head(resultQ') /\ k = config'.groupsOf[request'] /\ AllAnswered(r, k)
      BY <3>1, <3>2
    <3>4. AllAnswered(r, k)'
      BY <3>3, OutcomeSame
    <3>5. QED
      BY <3>3, <3>4
  <2>8. Courses'
    BY <2>3 DEF Courses
  <2>9. Grouped'
    BY <1>1, <1>2, <1>8, <2>3, GroupedThen
  <2>10. QED
    BY <1>9, <2>7, <2>8, <2>9 DEF Holding
<1>12. CASE ~Delivers
  <2>1. resultQ' = resultQ /\ (Live' <=> Live)
    BY <1>1, <1>3, <1>12
  <2>2. Grouped' /\ Delivered'
    BY <1>1, <1>2, <1>8, <2>1, GroupedThen, DeliveredThen
  <2>3. Left' = Left
    BY <1>1, <1>2 DEF Left
  <2>4. Courses'
    <3> SUFFICES ASSUME Live', Underway' PROVE Courses'
      BY DEF Courses
    <3>1. Live
      BY <2>1
    <3>2. CASE frees /\ job.req = Current
      <4>1. Answers(monitorQ, Current) /\ Concluded
        BY <1>6, <1>10, <3>1, <3>2 DEF AnswerOps
      <4>2. /\ JobsLive(Pending, Current) /\ Pending[1] = job /\ Pending # << >>
            /\ Pending \in Seq(J) /\ Pending' = Tail(Pending)
        BY <1>2, <3>1 DEF Reaping, J, Oldest, job
      <4>3. /\ Len(Pending) = Len(monitorQ) + Len(task.instrs) /\ Len(task.instrs) \in Nat
            /\ Answers(Pending, Current) /\ 1 \in DOMAIN Pending
        <5> DEFINE q == monitorQ
                   t == JobsOf(task)
                   p == Pending
        <5>1. q \in Seq(J) /\ t \in Seq(J) /\ Behind(p, q, t) /\ Len(t) = Len(task.instrs)
          BY PendingType, JobsOfType DEF Protocol, Types, J, Pending, Behind
        <5> HIDE DEF q, t, p
        <5>2. /\ p \in Seq(J) /\ Len(p) = Len(q) + Len(t) /\ Len(q) \in Nat /\ Len(t) \in Nat
          BY <5>1, QueueJoin
        <5>3. 1 \in DOMAIN p
          BY <1>5, <5>2 DEF q
        <5>4. Answers(p, Current)
          BY <3>2, <4>2, <5>3 DEF p, Answers, AnswerOps
        <5>5. QED
          BY <5>1, <5>2, <5>3, <5>4 DEF q, p
      <4>4. workerQ = << >>
        BY <1>2, <3>1, <4>3 DEF Protocol, Jobs
      <4>5. Len(Pending) = 1
        <5>1. Current \in Int
          BY <1>2, <3>1 DEF Protocol, Tasks, Types
        <5>2. \/ Pending[1].op = "FREE_SESSION" => 1 = Len(Pending)
              \/ Pending[1].req < Current
          BY <4>2, <4>3 DEF JobsLive
        <5>3. ~(Pending[1].req < Current)
          BY <3>2, <4>2, <5>1
        <5>4. QED
          BY <3>2, <4>2, <5>2, <5>3
      <4>6. Len(monitorQ') = 0 /\ Len(task.instrs) = 0
        BY <1>5, <4>3, <4>5
      <4>7. ~Answers(monitorQ', Current)
        <5> DEFINE p == monitorQ'
        <5>1. p \in Seq(J) /\ Len(p) = 0
          BY <1>5, <4>6
        <5> HIDE DEF p
        <5>2. DOMAIN p = {}
          BY <5>1
        <5>3. ~Answers(p, Current)
          BY <5>2 DEF Answers
        <5>4. QED
          BY <5>3 DEF p
      <4>8. Left = << >>
        <5> DEFINE I == InstrOf(config)
                   z == task.instrs
        <5>1. z \in Seq(I) /\ Len(z) = 0
          BY <4>6 DEF Protocol, Types, TaskOf
        <5> HIDE DEF I, z
        <5>2. z = << >>
          BY <5>1
        <5>3. QED
          BY <5>2 DEF Left, z
      <4>9. ~Underway'
        BY <1>1, <1>2, <1>7, <2>3, <4>1, <4>4, <4>7, <4>8 DEF Underway
      <4>10. QED
        BY <4>9
    <3>3. CASE ~(frees /\ job.req = Current)
      <4>1. Sess' = Sess
        <5>1. Current \in DOMAIN sessions' <=> Current \in DOMAIN sessions
          BY <1>1, <3>3
        <5>2. Current \in DOMAIN sessions => sessions'[Current] = sessions[Current]
          BY <1>1, <3>3
        <5>3. QED
          BY <1>2, <1>7, <5>1, <5>2 DEF Sess
      <4>2. Underway
        BY <1>1, <1>2, <1>5, <1>7, <2>3 DEF Underway
      <4>3. /\ Sess \in SessionType
            /\ \E y : /\ y <=> Answers(monitorQ, Current)
                      /\ Course(Sess, Left, Newest(task.payload), workerQ, policy,
                                config.groupsOf[request], y)
        BY <1>2, <1>8, <3>1, <4>2, CoursesOf
      <4>4. PICK y : /\ y <=> Answers(monitorQ, Current)
                     /\ Course(Sess, Left, Newest(task.payload), workerQ, policy,
                               config.groupsOf[request], y)
        BY <4>3
      <4> DEFINE s == Sess
                 i == Left
                 v == Newest(task.payload)
                 n == config.groupsOf[request]
                 z == Answers(monitorQ', Current)
      <4>5. Course(s, i, v, workerQ, policy, n, y) /\ (z => y)
        BY <1>5, <4>4
      <4>6. /\ s = Sess' /\ s \in SessionType /\ i = Left' /\ v = Newest(task.payload)'
            /\ workerQ = workerQ' /\ policy = policy' /\ n = config.groupsOf[request']
            /\ (z <=> Answers(monitorQ', Current'))
        BY <1>1, <1>2, <2>3, <4>1, <4>3
      <4> HIDE DEF s, i, v, n, z
      <4>7. Course(s, i, v, workerQ, policy, n, z)
        BY <4>5, CourseUnder
      <4>8. QED
        BY <4>6, <4>7, CoursesThen
    <3>4. QED
      BY <3>2, <3>3
  <2>5. QED
    BY <1>9, <2>2, <2>4 DEF Holding
<1>13. QED
  BY <1>11, <1>12

-----------------------------------------------------------------------------
(* A task is queued: the course goes through it.                            *)
Placed(s, i, v, q, x, b) ==
    \E a, e : Match(s, a) /\ Runs(a, i, v, e) /\ Chain(e, q, b) /\ (x => a.ans)

(* One more task behind those in the queue.                                 *)
LEMMA PlacedMore ==
    ASSUME NEW s, NEW i, NEW v, NEW q, NEW x, NEW b, Placed(s, i, v, q, x, b),
           NEW msg \in MessageOf(config), NEW d, Runs(b, msg.task.instrs, Version(msg), d),
           NEW st, NEW n, Rests(st, n, d), NEW u, u = Append(q, msg)
    PROVE  Course(s, i, v, u, st, n, x)
<1>1. PICK a, e : Match(s, a) /\ Runs(a, i, v, e) /\ Chain(e, q, b) /\ (x => a.ans)
  BY DEF Placed
<1>2. Chain(e, u, d)
  BY <1>1, ChainAppend
<1>3. QED
  BY <1>1, <1>2 DEF Course

(* The scheduler queues a task: the invariant goes on.                      *)
LEMMA QueuedHolds ==
    ASSUME Holding, Serving, config' = config, resultQ = << >>, taskId \in Nat,
           taskId' = taskId + 1, UNCHANGED << sessions, task, monitorQ, resultQ, phase, request >>,
           NEW msg \in MessageOf(config), workerQ' = Append(workerQ, msg),
           NEW s, s = Sess', s \in SessionType, NEW i, i = Left', NEW v, v = Newest(task.payload),
           NEW x, x <=> Answers(monitorQ', Current'), NEW b, Placed(s, i, v, workerQ, x, b),
           NEW d, Runs(b, msg.task.instrs, Version(msg), d),
           NEW st, st = policy', NEW n, n = config.groupsOf[request], Rests(st, n, d), Grouped'
    PROVE  Holding'
<1> DEFINE q == Append(workerQ, msg)
<1>1. Course(s, i, v, q, st, n, x)
  BY PlacedMore
<1>2. v = Newest(task.payload)' /\ n = config.groupsOf[request'] /\ q = workerQ'
  OBVIOUS
<1> HIDE DEF q
<1>3. Courses'
  BY <1>1, <1>2, CoursesThen
<1>4. Stores'
  <2>1. SessionType' = SessionType /\ NoTask' = NoTask
    BY SessionSame DEF NoTask, Task
  <2>2. \A m \in 0 .. taskId : m \in 0 .. taskId'
    OBVIOUS
  <2>3. /\ \A y \in DOMAIN sessions : y \in 0 .. taskId /\ sessions[y] \in SessionType
        /\ task # NoTask => task.req \in 0 .. taskId
    BY DEF Holding, Stores
  <2>4. QED
    BY <2>1, <2>2, <2>3 DEF Stores
<1>5. Delivered'
  BY DEF Delivered
<1>6. QED
  BY <1>3, <1>4, <1>5 DEF Holding

(* Before the first task of a request, nothing of it is anywhere.           *)
LEMMA FreshPlace ==
    ASSUME Protocol, Serving, ~Live, phase # "done", config' = config,
           UNCHANGED << sessions, task, monitorQ >>, Current' = taskId
    PROVE  /\ Sess' = NewSession /\ Left' = << >> /\ ~Answers(monitorQ', Current')
           /\ workerQ = << >>
<1> DEFINE J == JobType(config)
           p == Pending
           t == JobsOf(task)
           q == monitorQ
<1>1. JobsOver(p, Current) /\ Current \in {None} \cup 0 .. taskId - 1 /\ taskId \in Nat
  BY DEF Protocol, Jobs, Tasks, Types
<1>2. Current < taskId /\ Current # taskId
  BY <1>1 DEF None
<1>3. /\ q \in Seq(J) /\ t \in Seq(J) /\ Behind(p, q, t) /\ Len(t) = Len(task.instrs)
      /\ \A i \in 1 .. Len(task.instrs) : t[i] = JobOf(task.instrs[i], task)
  BY PendingType, JobsOfType DEF Protocol, Types, Pending, Behind
<1>4. /\ p \in Seq(J) /\ Len(p) = Len(q) + Len(t) /\ Len(q) \in Nat /\ Len(t) \in Nat
      /\ \A i \in 1 .. Len(q) : p[i] = q[i]
      /\ \A i \in 1 .. Len(t) : p[Len(q) + i] = t[i]
  <2>1. q \in Seq(J) /\ t \in Seq(J) /\ Behind(p, q, t)
    BY <1>3
  <2> HIDE DEF J, p, q, t
  <2>2. QED
    BY <2>1, QueueJoin
<1>5. Released /\ workerQ \in Seq(MessageOf(config)) /\ task.instrs \in Seq(InstrOf(config))
  BY DEF Protocol, Types, TaskOf
<1>6. \A y \in DOMAIN sessions : y # taskId
  <2> SUFFICES ASSUME NEW y \in DOMAIN sessions PROVE y # taskId
    OBVIOUS
  <2>1. p # << >> /\ p[1].req = y
    BY <1>5 DEF Released, Freed
  <2>2. y = Current
    BY <1>1, <2>1 DEF JobsOver
  <2>3. QED
    BY <1>2, <2>2
<1>7. Sess' = NewSession
  <2>1. NewSession' = NewSession
    BY SessionSame
  <2>2. QED
    BY <1>6, <2>1 DEF Sess
<1> HIDE DEF J, p, q, t
<1>8. \A i \in 1 .. Len(p) : p[i].req = Current
  <2>1. p = << >> \/ (Len(p) = 1 /\ p[1].req = Current)
    BY <1>1 DEF JobsOver
  <2>2. QED
    BY <1>4, <2>1
<1>9. ~Answers(q, taskId)
  <2> SUFFICES ASSUME NEW j \in DOMAIN q PROVE q[j].req # taskId
    BY DEF Answers
  <2>1. j \in 1 .. Len(q) /\ j \in 1 .. Len(p)
    BY <1>3, <1>4
  <2>2. QED
    BY <1>2, <1>4, <1>8, <2>1
<1>10. task.req = taskId => task.instrs = << >>
  <2> SUFFICES ASSUME task.req = taskId, task.instrs # << >> PROVE FALSE
    OBVIOUS
  <2> DEFINE z == task.instrs
             I == InstrOf(config)
  <2>1. z \in Seq(I) /\ z # << >>
    BY <1>5
  <2> HIDE DEF z, I
  <2>2. 1 \in 1 .. Len(z) /\ Len(z) \in Nat
    BY <2>1
  <2>3. t[1] = JobOf(task.instrs[1], task) /\ 1 \in 1 .. Len(t)
    BY <1>3, <2>2 DEF z
  <2>4. t[1].req = taskId
    BY <2>3 DEF JobOf
  <2>5. p[Len(q) + 1] = t[1] /\ Len(q) + 1 \in 1 .. Len(p)
    BY <1>4, <2>3
  <2>6. QED
    BY <1>2, <1>8, <2>4, <2>5
<1>11. Left' = << >>
  BY <1>10 DEF Left
<1>12. workerQ = << >>
  <2>1. \A i \in DOMAIN workerQ : FALSE
    BY DEF Protocol, Tasks
  <2> DEFINE M == MessageOf(config)
             w == workerQ
  <2>2. w \in Seq(M) /\ DOMAIN w = {}
    BY <1>5, <2>1
  <2> HIDE DEF M, w
  <2>3. w = << >>
    BY <2>2
  <2>4. QED
    BY <2>3 DEF w
<1>13. QED
  BY <1>7, <1>9, <1>11, <1>12 DEF q

(* A request that has no session yet.                                       *)
LEMMA PlacedFresh ==
    ASSUME config \in Configs, NEW v
    PROVE  /\ NewSession \in SessionType
           /\ Placed(NewSession, << >>, v, << >>, FALSE, Start)
<1>1. Start \in Stages /\ NewSession \in SessionType /\ Match(NewSession, Start)
  BY StartMatches
<1>2. Runs(Start, << >>, v, Start)
  BY <1>1, RunNil
<1>3. Chain(Start, << >>, Start)
  BY <1>1, ChainNil
<1>4. QED
  BY <1>1, <1>2, <1>3 DEF Placed

(* ... and before a later one, the ones before it lead to rest.             *)
LEMMA PlacedOn ==
    ASSUME Holding, Serving, Live, Underway
    PROVE  /\ Sess \in SessionType
           /\ \E x, b : /\ x <=> Answers(monitorQ, Current)
                        /\ Placed(Sess, Left, Newest(task.payload), workerQ, x, b)
                        /\ Rests(policy, config.groupsOf[request], b)
<1>1. Courses
  BY DEF Holding
<1>2. /\ Sess \in SessionType
      /\ \E x : /\ x <=> Answers(monitorQ, Current)
                /\ Course(Sess, Left, Newest(task.payload), workerQ, policy,
                          config.groupsOf[request], x)
  BY <1>1, CoursesOf
<1>3. PICK x : /\ x <=> Answers(monitorQ, Current)
               /\ Course(Sess, Left, Newest(task.payload), workerQ, policy,
                         config.groupsOf[request], x)
  BY <1>2
<1> DEFINE s == Sess
           i == Left
           v == Newest(task.payload)
           n == config.groupsOf[request]
<1>4. PICK a, e, b : /\ Match(s, a) /\ Runs(a, i, v, e) /\ Chain(e, workerQ, b)
                     /\ Rests(policy, n, b) /\ (x => a.ans)
  BY <1>3 DEF Course
<1> HIDE DEF s, i, v, n
<1>5. Placed(s, i, v, workerQ, x, b) /\ Rests(policy, n, b)
  BY <1>4 DEF Placed
<1>6. QED
  BY <1>2, <1>3, <1>5 DEF s, i, v, n

-----------------------------------------------------------------------------
(* A call of a counting policy.                                             *)
LEMMA CountCalled ==
    ASSUME Agreed, Protocol, Serving, CallPolicy, Policy \in CountPolicies, CountReady(buffer),
           config' = config, UNCHANGED << workerVars, resultQ, clientVars >>
    PROVE  /\ phase # "done" /\ resultQ = << >> /\ ~Live /\ Counting /\ config \in Configs
           /\ taskId \in Nat /\ taskId' = taskId + 1 /\ policy' = policy /\ Current' = taskId
           /\ Live' /\ Given(config, request)
           /\ UNCHANGED << sessions, task, monitorQ, resultQ, phase, request >>
           /\ \E m \in MessageOf(config) :
                 /\ workerQ' = Append(workerQ, m)
                 /\ m.task.instrs = WholeModel /\ m.task.payload = PatchesOf(config, request)
<1> DEFINE size == Size(config, request)
           payload == SubSeq(buffer, 1, Expected(buffer))
           t == Task(taskId, taskId, payload, WholeModel)
<1>1. /\ Given(config, request) /\ Taken \in Nat /\ size \in Nat /\ size > 0 /\ Len(buffer) \in Nat
      /\ Taken + Len(buffer) + Len(schedQ) + Len(todo) = size
      /\ Len(schedQ) \in Nat /\ Len(todo) \in Nat
      /\ Taken = size => buffer = << >>
  BY Serves
<1>2. /\ Counting /\ buffer # << >> /\ taskId \in Nat /\ config \in Configs /\ NoTask.id = None
      /\ taskId # None /\ policy \in PolicyType(config)
      /\ config.policy \notin PerImage => policy.n = config.groups
      /\ buffer \in Seq(PatchRecord)
  BY DEF Counting, Policy, CountReady, Protocol, Types, NoTask, Task, None
<1>3. Taken = 0
  <2>1. Taken \in {0, size}
    BY <1>2 DEF Protocol, Stream
  <2>2. QED
    BY <1>1, <1>2, <2>1
<1>4. Carries(buffer, config, request, 0)
  BY <1>3 DEF Protocol, Stream
<1>5. Expected(buffer) = size /\ Len(buffer) = size /\ payload = PatchesOf(config, request)
  BY <1>1, <1>2, <1>4, CountTaken
<1>6. Len(payload) = size
  BY <1>5 DEF Size
<1>7. phase \in {"send", "wait"} /\ resultQ = << >> /\ ~Live
  <2>1. Taken # size
    BY <1>1, <1>3
  <2>2. phase # "done" /\ resultQ = << >>
    BY <2>1 DEF Protocol, Stream, Tasks
  <2>3. QED
    BY <1>3, <2>2 DEF Serving, Live
<1>8. WholeModel \in Seq(InstrOf(config)) /\ Closing(WholeModel) /\ WholeModel # << >>
  <2>1. WholeModel \in Seq(InstrOf(config)) /\ Closing(WholeModel)
    BY <1>2, WholeModelEnds DEF Ends, Answering
  <2>2. Len(WholeModel) >= 2
    BY <2>1 DEF Closing
  <2>3. QED
    BY <2>1, <2>2
<1>9. Decide(policy, buffer, Completed, taskId) = Answer(policy, t)
  BY DEF Decide, DecideCount
<1>10. t \in TaskOf(config) /\ t.id = taskId /\ t.req = taskId /\ t.payload = payload
       /\ t.instrs = WholeModel
  <2>1. payload \in Seq(PatchRecord)
    BY <1>1, <1>2, <1>5
  <2> HIDE DEF payload
  <2>2. QED
    BY <1>2, <1>8, <2>1 DEF Task, TaskOf
<1> HIDE DEF t, payload
<1>11. /\ pc = "decide" /\ policy' = policy /\ events' = {} /\ pc' = pc
       /\ buffer' = SubSeq(buffer, Len(payload) + 1, Len(buffer))
       /\ taskId' = taskId + 1 /\ workerQ' = Append(workerQ, TaskMessage(t))
       /\ UNCHANGED queueVars
  <2>1. t # NoTask
    BY <1>2, <1>10
  <2>2. Answer(policy, t).st = policy /\ Answer(policy, t).task = t
    BY DEF Answer
  <2>3. QED
    BY <1>9, <1>10, <2>1, <2>2 DEF CallPolicy
<1>12. buffer' = << >>
  <2>1. buffer' = SubSeq(buffer, size + 1, size)
    BY <1>5, <1>6, <1>11
  <2>2. QED
    BY <1>1, <1>2, <2>1
<1>13. /\ schedQ' = schedQ /\ todo' = todo /\ request' = request /\ phase' = phase
       /\ resultQ' = resultQ
  BY <1>11 DEF queueVars, clientVars
<1>14. Len(schedQ) = 0 /\ Len(todo) = 0 /\ Len(buffer') = 0
  BY <1>1, <1>3, <1>5, <1>12
<1>15. Taken' = size /\ Taken' + Len(buffer') = Taken + Len(buffer)
  <2>1. Taken' = size - Len(buffer') - Len(schedQ) - Len(todo)
    BY <1>13 DEF Taken
  <2>2. QED
    BY <1>1, <1>3, <1>5, <1>14, <2>1
<1>16. Live'
  BY <1>1, <1>7, <1>13, <1>15 DEF Live
<1>17. Current' = taskId /\ Current' \in 0 .. taskId
  <2>1. Current' = (taskId + 1) - 1
    BY <1>2, <1>11 DEF Current, Counting
  <2>2. QED
    BY <1>2, <2>1
<1>18. TaskMessage(t) \in MessageOf(config) /\ TaskMessage(t).task = t
  BY <1>10 DEF TaskMessage, MessageOf
<1>19. UNCHANGED << sessions, task, monitorQ, resultQ, phase, request >>
  BY DEF workerVars, clientVars
<1>20. QED
  BY <1>1, <1>2, <1>5, <1>7, <1>10, <1>11, <1>16, <1>17, <1>18, <1>19

(* The policy is called with a whole request.                               *)
LEMMA CallCountHolds ==
    ASSUME Agreed, Fitting, Protocol, Holding, Serving, CallPolicy, Policy \in CountPolicies,
           CountReady(buffer), config' = config, UNCHANGED << workerVars, resultQ, clientVars >>
    PROVE  Holding'
<1> DEFINE n == config.groupsOf[request]
           p == PatchesOf(config, request)
<1>1. /\ phase # "done" /\ resultQ = << >> /\ ~Live /\ Counting /\ config \in Configs
      /\ taskId \in Nat /\ taskId' = taskId + 1 /\ policy' = policy /\ Current' = taskId
      /\ Live' /\ Given(config, request)
      /\ UNCHANGED << sessions, task, monitorQ, resultQ, phase, request >>
      /\ \E m \in MessageOf(config) :
            /\ workerQ' = Append(workerQ, m)
            /\ m.task.instrs = WholeModel /\ m.task.payload = p
  BY CountCalled
<1>2. PICK m \in MessageOf(config) : /\ workerQ' = Append(workerQ, m)
                                     /\ m.task.instrs = WholeModel /\ m.task.payload = p
  BY <1>1
<1>3. Suited
  BY <1>1, FittingSuits
<1>4. n \in Versions
  <2>1. IF config.progressive THEN n = config.groups ELSE n = 0
    BY <1>1 DEF Agreed, Given, Counting
  <2>2. config.groups \in Nat
    BY <1>1, Configured DEF NumGroups
  <2>3. QED
    BY <2>1, <2>2 DEF Versions, NumGroups
<1>5. Version(m) = n
  BY <1>1, <1>2, NewestRequest DEF Version
<1>6. PICK d : Runs(Start, WholeModel, n, d) /\ Served(d, n)
  BY <1>1, <1>3, <1>4, WholeModelRuns
<1>7. Runs(Start, m.task.instrs, Version(m), d)
  BY <1>2, <1>5, <1>6
<1> DEFINE v == Newest(task.payload)
<1>8. /\ Sess' = NewSession /\ Left' = << >> /\ ~Answers(monitorQ', Current') /\ workerQ = << >>
  BY <1>1, FreshPlace
<1>9. /\ NewSession \in SessionType /\ Placed(NewSession, << >>, v, << >>, FALSE, Start)
  BY <1>1, PlacedFresh
<1>10. Grouped'
  <2>1. NewPolicy' = NewPolicy /\ (Counting' <=> Counting)
    BY NewPolicySame DEF Counting
  <2>2. QED
    BY <1>1, <2>1 DEF Holding, Grouped
<1>11. Rests(policy, n, d)
  BY <1>1, <1>6 DEF Rests
<1>12. Placed(NewSession, << >>, v, workerQ, FALSE, Start)
  BY <1>8, <1>9
<1> DEFINE s == NewSession
           i == << >>
           x == FALSE
           b == Start
           st == policy
<1>13. /\ s = Sess' /\ s \in SessionType /\ i = Left' /\ (x <=> Answers(monitorQ', Current'))
       /\ v = Newest(task.payload) /\ n = config.groupsOf[request] /\ st = policy'
       /\ Placed(s, i, v, workerQ, x, b) /\ Runs(b, m.task.instrs, Version(m), d)
       /\ Rests(st, n, d)
  BY <1>1, <1>7, <1>8, <1>9, <1>11, <1>12
<1> HIDE DEF n, p, v, s, i, x, b, st
<1>14. QED
  BY <1>1, <1>2, <1>10, <1>13, QueuedHolds

-----------------------------------------------------------------------------
(* A call of a group-driven policy for a complete group.                    *)
LEMMA CompletedWithin ==
    ASSUME Types PROVE Completed \in Int /\ (Completed = None \/ Completed >= 0)
<1>1. config.layers \in Nat /\ events \in SUBSET (0 .. config.layers)
  BY Configured DEF Types, TotalLayers
<1>2. CASE events = {}
  BY <1>2 DEF Completed, None
<1>3. CASE events # {}
  <2>1. PICK x \in events : TRUE
    BY <1>3
  <2>2. Max(events) \in events
    BY <1>1, <2>1, GreatestBelow
  <2>3. Max(events) \in 0 .. config.layers
    BY <1>1, <2>2
  <2>4. Completed = Max(events)
    BY <1>3 DEF Completed
  <2>5. QED
    BY <1>1, <2>3, <2>4
<1>4. QED
  BY <1>2, <1>3

Called(k, begun, done, m) ==
    /\ AtHead(k)
    /\ done = Completed /\ (done = None \/ done >= 0)
    /\ begun = Admit(policy, PatchOf(config, request, k), taskId)
    /\ begun.req = IF k = 0 THEN taskId ELSE policy.req
    /\ begun.group = k
    /\ policy' = Ahead(begun, PlanFor(begun, k, done).latest)
    /\ PlanFor(begun, k, done).latest \in 0 .. config.layers
    /\ workerQ' = Append(workerQ, m)
    /\ m.task.instrs = PlanFor(begun, k, done).instrs
    /\ m.task.payload = GroupOf(config, request, k)
    /\ Taken' = Offset(config, request, k + 1)
    /\ Current' = begun.req /\ Current = policy.req

(* The policy is called with the next group of a request.                   *)
LEMMA GroupCalled ==
    ASSUME Agreed, Protocol, Serving, CallPolicy, Policy \notin CountPolicies, GroupReady(buffer),
           config' = config, UNCHANGED << workerVars, resultQ, clientVars >>
    PROVE  /\ ~Counting /\ config \in Configs /\ Given(config, request) /\ taskId \in Nat
           /\ phase # "done" /\ Taken # Size(config, request)
           /\ resultQ = << >> /\ taskId' = taskId + 1 /\ Live'
           /\ UNCHANGED << sessions, task, monitorQ, resultQ, phase, request >>
           /\ \E k \in 0 .. config.groupsOf[request], begun \in PolicyType(config),
                 done \in Int, m \in MessageOf(config) : Called(k, begun, done, m)
<1> DEFINE n == config.groupsOf[request]
           size == Size(config, request)
           head == Head(buffer)
           begun == Admit(policy, head, taskId)
           plan == PlanFor(begun, head.gid, Completed)
           st == [begun EXCEPT !.latest = plan.latest]
           payload == Payload(buffer)
           req == IF begun.req = None THEN taskId ELSE begun.req
           t == Task(taskId, req, payload, plan.instrs)
<1>1. /\ Given(config, request) /\ Taken \in Nat /\ size \in Nat /\ Len(buffer) \in Nat
      /\ Taken + Len(buffer) + Len(schedQ) + Len(todo) = size
      /\ Len(schedQ) \in Nat /\ Len(todo) \in Nat
  BY Serves
<1>2. /\ ~Counting /\ buffer # << >> /\ taskId \in Nat /\ config \in Configs /\ NoTask.id = None
      /\ taskId # None /\ policy \in PolicyType(config)
      /\ config.policy \notin PerImage => policy.n = config.groups
  BY DEF Counting, Policy, GroupReady, Protocol, Types, NoTask, Task, None
<1>0. PICK k \in 0 .. n : AtHead(k)
  BY <1>2, GroupAtHead
<1>3. /\ Taken = Offset(config, request, k)
      /\ k > 0 => policy.req # None
      /\ Carries(buffer, config, request, Offset(config, request, k))
      /\ head = PatchOf(config, request, k) /\ head.gid = k
      /\ k > 0 => Live
      /\ k = 0 => ~Live
      /\ Offset(config, request, k + 1) = Taken + config.groupSize[k]
      /\ Offset(config, request, k + 1) > Taken
      /\ k = n => Offset(config, request, k + 1) = size
  BY <1>0 DEF AtHead
<1>4. phase \in {"send", "wait"} /\ resultQ = << >> /\ Taken # size
  BY <1>2, GroupAtHead
<1>5. n \in Nat /\ k \in Nat /\ k + 1 \in 0 .. n + 1
  <2>1. n \in Nat
    BY <1>1, GivenType
  <2> HIDE DEF n
  <2>2. QED
    BY <2>1
<1>6. payload = GroupOf(config, request, k) /\ Len(payload) = config.groupSize[k]
      /\ Len(payload) \in 0 .. Len(buffer) /\ Len(payload) > 0
  <2>1. /\ payload = GroupOf(config, request, k) /\ Len(payload) = config.groupSize[k]
        /\ config.groupSize[k] <= Len(buffer)
    BY <1>1, <1>2, <1>3, GroupTaken
  <2>2. config.groupSize[k] \in Nat /\ config.groupSize[k] > 0
    BY <1>1, <1>3, GivenType DEF Agreed, Given
  <2>3. QED
    BY <1>1, <2>1, <2>2
<1>7. Decide(policy, buffer, Completed, taskId) = Answer(st, t)
  BY DEF Decide, DecideGroup
<1>8. /\ begun \in PolicyType(config) /\ plan.latest \in 0 .. config.layers
      /\ begun.req = IF k = 0 THEN taskId ELSE policy.req
      /\ begun.group = k
      /\ config.policy \notin PerImage => begun.n = config.groups
      /\ Formed(plan.instrs, k = n)
      /\ config.policy \in DynamicPolicies /\ k < begun.n => Open(plan.instrs)
  <2>1. Completed \in Int
    BY CompletedType DEF Protocol
  <2>2. plan = PlanFor(begun, k, Completed)
    BY <1>3
  <2> HIDE DEF begun, plan, head
  <2>3. begun = Admit(policy, head, taskId)
    BY DEF begun
  <2>4. /\ Agreed /\ config \in Configs /\ Policy \notin CountPolicies /\ Given(config, request)
        /\ k \in 0 .. config.groupsOf[request] /\ policy \in PolicyType(config)
        /\ taskId \in Nat /\ head = PatchOf(config, request, k)
    BY <1>1, <1>2, <1>3
  <2>5. k > 0 => policy.req # None
    BY <1>3
  <2>6. config.policy \notin PerImage => policy.n = config.groups
    BY <1>2
  <2>7. Admitted(begun, plan, Completed, policy, request, k, taskId)
    BY <2>1, <2>2, <2>3, <2>4, <2>5, <2>6, GroupAdmitted
  <2>8. QED
    BY <2>7 DEF Admitted
<1> HIDE DEF begun, plan
<1>9. /\ st \in PolicyType(config) /\ st.req = begun.req /\ st.group = k /\ st.n = begun.n
  BY <1>8 DEF PolicyType
<1>10. req = begun.req /\ req \in Int
  BY <1>2, <1>3, <1>5, <1>8 DEF PolicyType
<1>11. t \in TaskOf(config) /\ t.id = taskId /\ t.req = begun.req /\ t.payload = payload
       /\ t.instrs = plan.instrs
  <2>1. payload \in Seq(PatchRecord)
    BY <1>1, <1>3, <1>6, GroupOfType
  <2>2. plan.instrs \in Seq(InstrOf(config))
    BY <1>8 DEF Formed
  <2> HIDE DEF payload
  <2>3. QED
    BY <1>2, <1>10, <2>1, <2>2 DEF Task, TaskOf
<1> HIDE DEF t, st, payload, req, head
<1>12. /\ pc = "decide" /\ policy' = st /\ events' = {} /\ pc' = pc
       /\ buffer' = SubSeq(buffer, Len(payload) + 1, Len(buffer))
       /\ taskId' = taskId + 1 /\ workerQ' = Append(workerQ, TaskMessage(t))
       /\ UNCHANGED queueVars
  <2>1. t # NoTask
    BY <1>2, <1>11
  <2>2. Answer(st, t).st = st /\ Answer(st, t).task = t
    BY DEF Answer
  <2>3. QED
    BY <1>7, <1>11, <2>1, <2>2 DEF CallPolicy
<1>13. /\ Carries(buffer', config, request, Taken + Len(payload))
       /\ Len(buffer') = Len(buffer) - Len(payload)
  <2>1. Carries(buffer, config, request, Taken)
    BY <1>3
  <2> DEFINE m == Len(payload)
  <2>2. m \in 0 .. Len(buffer)
    BY <1>6
  <2>3. buffer' = SubSeq(buffer, m + 1, Len(buffer))
    BY <1>12
  <2> HIDE DEF m
  <2>4. Size(config, request) \in Nat
    BY <1>1
  <2>5. /\ Carries(SubSeq(buffer, m + 1, Len(buffer)), config, request, Taken + m)
        /\ Len(SubSeq(buffer, m + 1, Len(buffer))) = Len(buffer) - m
    BY <2>1, <2>2, <2>4, CarriesCut
  <2>6. Carries(buffer', config, request, Taken + m) /\ Len(buffer') = Len(buffer) - m
    BY <2>3, <2>5, Zenon
  <2>7. QED
    BY <2>6 DEF m
<1>14. /\ schedQ' = schedQ /\ todo' = todo /\ request' = request /\ phase' = phase
       /\ resultQ' = resultQ
  BY <1>12 DEF queueVars, clientVars
<1>15. Taken' = Offset(config, request, k + 1) /\ Taken' = Taken + Len(payload)
  <2>1. Taken' = Taken + Len(payload)
    <3>1. Taken' = size - Len(buffer') - Len(schedQ) - Len(todo)
      BY <1>14 DEF Taken
    <3>2. Len(payload) \in Nat
      BY <1>1, <1>6
    <3>3. QED
      BY <1>1, <1>13, <3>1, <3>2
  <2>2. QED
    BY <1>3, <1>6, <2>1
<1>16. Live'
  BY <1>1, <1>3, <1>4, <1>14, <1>15 DEF Live
<1>17. Current' = begun.req /\ Current = policy.req
  BY <1>2, <1>9, <1>12 DEF Current, Counting
<1>18. TaskMessage(t) \in MessageOf(config) /\ TaskMessage(t).task = t
  BY <1>11 DEF TaskMessage, MessageOf
<1>19. UNCHANGED << sessions, task, monitorQ, resultQ, phase, request >>
  BY DEF workerVars, clientVars
<1>20. begun = Admit(policy, PatchOf(config, request, k), taskId)
       /\ plan = PlanFor(begun, k, Completed) /\ st = Ahead(begun, plan.latest)
  BY <1>3 DEF begun, plan, st, head, Ahead
<1>21. Completed \in Int /\ (Completed = None \/ Completed >= 0)
  BY CompletedWithin DEF Protocol
<1>22. Called(k, begun, Completed, TaskMessage(t))
  BY <1>0, <1>6, <1>8, <1>11, <1>12, <1>15, <1>17, <1>18, <1>20, <1>21 DEF Called
<1>23. QED
  BY <1>1, <1>2, <1>4, <1>8, <1>12, <1>16, <1>18, <1>19, <1>21, <1>22

(* The policy's state once it has admitted a group.                         *)
LEMMA BegunSo ==
    ASSUME Agreed, config \in Configs, Policy \notin CountPolicies, NEW r, Given(config, r),
           NEW k \in 0 .. config.groupsOf[r], NEW st \in PolicyType(config), NEW id,
           k > 0 => st.req # None, config.policy \notin PerImage => st.n = config.groups,
           k > 0 /\ config.policy \in PerImage => st.n = config.groupsOf[r],
           NEW begun, begun = Admit(st, PatchOf(config, r, k), id)
    PROVE  /\ begun.latest = IF k = 0 THEN 0 ELSE st.latest
           /\ k > 0 => begun.n = st.n /\ k \in Regions /\ k - 1 \in Versions
           /\ k \in Versions
           /\ config.policy \in PerImage /\ config.groupsOf[r] > 0 => begun.n = config.groupsOf[r]
           /\ Concludes(begun, k) => k = config.groupsOf[r]
<1> DEFINE n == config.groupsOf[r]
           head == PatchOf(config, r, k)
<1>1. head.gid = k /\ head.n = n /\ n \in Nat /\ k \in Nat
  BY PatchGroup, GivenType
<1>2. /\ st.n \in Nat \ {0} /\ config.layers \in Nat /\ config.groups \in Nat \ {0}
  BY Configured DEF PolicyType, TotalLayers, NumGroups
<1>3. head.gid # 0 => st.req # None
  BY <1>1
<1> HIDE DEF head
<1>4. /\ begun.latest = IF k = 0 THEN 0 ELSE st.latest
      /\ config.policy \in PerImage /\ n > 0 => begun.n = n
      /\ config.policy \in PerImage /\ ~(n > 0) => begun.n \in {1, st.n}
      /\ config.policy \notin PerImage => begun.n = st.n
  BY <1>1, <1>3, AdmitFields DEF head
<1> HIDE DEF n
<1>5. k <= n
  BY DEF n
<1>6. n <= config.groups /\ (Policy \in Corrects0 => n <= 1)
  <2>1. n <= IF config.policy \in {"ADE20KApproxCorrect", "NYUApproxCorrect"}
             THEN 1 ELSE config.groups
    BY DEF Agreed, Given, Policy, n
  <2>2. QED
    BY <1>1, <1>2, <2>1 DEF Policy, Corrects0
<1>7. k \in Versions /\ (k > 0 => k \in Regions /\ k - 1 \in Versions)
  BY <1>1, <1>2, <1>5, <1>6, Sizes DEF NumGroups
<1>8. k > 0 => begun.n = st.n
  <2>1. k > 0 => n > 0
    BY <1>1, <1>5
  <2>2. k > 0 /\ config.policy \in PerImage => st.n = n
    BY DEF n
  <2>3. QED
    BY <1>4, <2>1, <2>2
<1>9. Concludes(begun, k) => k = n
  BY <1>1, <1>2, <1>4, <1>5, <1>6 DEF Concludes, PerImage, Policy, NumGroups, Corrects0
<1>10. QED
  BY <1>4, <1>7, <1>8, <1>9 DEF n

(* Rest depends on the layers and the groups alone.                         *)
LEMMA AtRestAlike ==
    ASSUME NEW st, NEW begun, st.latest = begun.latest, st.n = begun.n, NEW k, NEW b
    PROVE  /\ Concludes(begun, k) <=> Concludes(st, k)
           /\ AtRest(st, k, b) => AtRest(begun, k, b)
<1>1. Concludes(begun, k) <=> Concludes(st, k)
  BY DEF Concludes
<1>2. Front(begun, k) = Front(st, k)
  BY DEF Front
<1>3. QED
  BY <1>1, <1>2 DEF AtRest

(* The group after the one the policy has counted.                          *)
LEMMA NextGroup ==
    ASSUME Agreed, Protocol, Grouped, Serving, ~Counting, Taken # Size(config, request),
           NEW k \in 0 .. config.groupsOf[request], AtHead(k), k > 0
    PROVE  /\ Live /\ policy.req # None /\ k = policy.group + 1
           /\ ~Concludes(policy, policy.group)
           /\ config.policy \in PerImage => policy.n = config.groupsOf[request]
<1> DEFINE n == config.groupsOf[request]
           g == policy.group
<1>1. Live /\ policy.req # None /\ Taken = Offset(config, request, k)
  BY DEF AtHead
<1>2. Given(config, request) /\ n \in Nat
  BY GivenType DEF Protocol, Types
<1>3. /\ g \in 0 .. n /\ Taken = Offset(config, request, g + 1)
      /\ Concludes(policy, g) => g = n
      /\ config.policy \in PerImage /\ n > 0 => policy.n = n
  BY <1>1 DEF Grouped, Arrived
<1> HIDE DEF n, g
<1>4. k \in 0 .. n
  BY DEF n
<1>5. k \in 0 .. n + 1 /\ g + 1 \in 0 .. n + 1 /\ n > 0 /\ k \in Nat /\ g \in Nat
  BY <1>2, <1>3, <1>4
<1>6. k = g + 1
  <2>1. /\ Offset(config, request, k) \in Int
        /\ k < g + 1 => Offset(config, request, k) < Offset(config, request, g + 1)
        /\ g + 1 < k => Offset(config, request, g + 1) < Offset(config, request, k)
    BY <1>2, <1>5, OffsetOrder DEF n
  <2>2. Offset(config, request, k) = Offset(config, request, g + 1)
    BY <1>1, <1>3
  <2>3. ~(k < g + 1) /\ ~(g + 1 < k)
    BY <2>1, <2>2
  <2>4. QED
    BY <1>5, <2>3
<1>7. ~Concludes(policy, g)
  BY <1>2, <1>3, <1>4, <1>6
<1>8. QED
  BY <1>1, <1>3, <1>5, <1>6, <1>7 DEF n, g

(* The policy queues the plan of a group: it runs from where the policy     *)
(* rested.                                                                  *)
LEMMA CallGroupHolds ==
    ASSUME Agreed, Fitting, Protocol, Holding, Serving, CallPolicy, Policy \notin CountPolicies,
           GroupReady(buffer), config' = config, UNCHANGED << workerVars, resultQ, clientVars >>
    PROVE  Holding'
<1> DEFINE n == config.groupsOf[request]
<1>1. /\ ~Counting /\ config \in Configs /\ Given(config, request) /\ taskId \in Nat
      /\ phase # "done" /\ Taken # Size(config, request)
      /\ resultQ = << >> /\ taskId' = taskId + 1 /\ Live'
      /\ UNCHANGED << sessions, task, monitorQ, resultQ, phase, request >>
      /\ \E k \in 0 .. n, begun \in PolicyType(config), done \in Int, m \in MessageOf(config) :
            Called(k, begun, done, m)
  BY GroupCalled
<1>2. PICK k \in 0 .. n, begun \in PolicyType(config), done \in Int, m \in MessageOf(config) :
         Called(k, begun, done, m)
  BY <1>1
<1> DEFINE plan == PlanFor(begun, k, done)
           st == Ahead(begun, plan.latest)
<1>3. /\ AtHead(k) /\ (done = None \/ done >= 0)
      /\ begun = Admit(policy, PatchOf(config, request, k), taskId)
      /\ begun.req = IF k = 0 THEN taskId ELSE policy.req
      /\ begun.group = k
      /\ policy' = st /\ plan.latest \in 0 .. config.layers
      /\ workerQ' = Append(workerQ, m)
      /\ m.task.instrs = plan.instrs /\ m.task.payload = GroupOf(config, request, k)
      /\ Taken' = Offset(config, request, k + 1)
      /\ Current' = begun.req /\ Current = policy.req
  BY <1>2 DEF Called
<1>4. /\ Suited /\ policy \in PolicyType(config) /\ Grouped
      /\ config.policy \notin PerImage => policy.n = config.groups
      /\ k > 0 => policy.req # None
      /\ k = 0 => ~Live
  BY <1>1, <1>3, FittingSuits DEF Protocol, Types, Holding, AtHead
<1>5. k > 0 => /\ Live /\ k = policy.group + 1 /\ ~Concludes(policy, policy.group)
               /\ (config.policy \in PerImage => policy.n = n)
  BY <1>1, <1>3, <1>4, NextGroup
<1>6. /\ begun.latest = IF k = 0 THEN 0 ELSE policy.latest
      /\ k > 0 => begun.n = policy.n /\ k \in Regions /\ k - 1 \in Versions
      /\ k \in Versions
      /\ config.policy \in PerImage /\ n > 0 => begun.n = n
      /\ Concludes(begun, k) => k = n
  BY <1>1, <1>3, <1>4, <1>5, BegunSo
<1>7. Version(m) = k
  BY <1>1, <1>3, NewestGroup DEF Version
<1>8. n \in Nat /\ k \in Nat
  BY <1>1, GivenType
<1> HIDE DEF plan
<1>9. /\ st.latest = plan.latest /\ st.n = begun.n /\ st.group = k /\ st.req = begun.req
  BY <1>3, AheadFields
<1> HIDE DEF st, n
<1>10. Grouped'
  <2>1. Counting' <=> Counting
    BY DEF Counting
  <2>2. Concludes(st, k) <=> Concludes(begun, k)
    BY <1>9 DEF Concludes
  <2>3. Concludes(policy, policy.group)' <=> Concludes(st, k)
    BY <1>3, <1>9 DEF Concludes, Policy, NumGroups
  <2>4. Arrived'
    BY <1>1, <1>2, <1>3, <1>6, <1>8, <1>9, <2>2, <2>3 DEF Arrived, n
  <2>5. policy'.group \in Nat \cup {None}
    BY <1>3, <1>8, <1>9
  <2>6. QED
    BY <1>1, <2>1, <2>4, <2>5 DEF Grouped
<1>11. ASSUME NEW b, Coming(begun, k, b)
       PROVE  \E d : Runs(b, m.task.instrs, Version(m), d) /\ Rests(st, n, d)
  <2>1. PICK d : Runs(b, plan.instrs, k, d) /\ AtRest(st, k, d)
    BY <1>1, <1>3, <1>4, <1>6, <1>11, PlanRuns DEF plan, st, Counting, Policy
  <2>2. Rests(st, n, d)
    BY <1>1, <1>9, <2>1 DEF Rests
  <2>3. QED
    BY <1>3, <1>7, <2>1, <2>2
<1> DEFINE v == Newest(task.payload)
<1>12. CASE k = 0
  <2>1. Current' = taskId /\ ~Live
    BY <1>3, <1>4, <1>12
  <2>2. /\ Sess' = NewSession /\ Left' = << >> /\ ~Answers(monitorQ', Current') /\ workerQ = << >>
    BY <1>1, <2>1, FreshPlace
  <2>3. /\ NewSession \in SessionType /\ Placed(NewSession, << >>, v, << >>, FALSE, Start)
    BY <1>1, PlacedFresh
  <2>4. Coming(begun, k, Start)
    BY <1>6, <1>12 DEF Coming
  <2>5. PICK d : Runs(Start, m.task.instrs, Version(m), d) /\ Rests(st, n, d)
    BY <1>11, <2>4
  <2>6. Placed(NewSession, << >>, v, workerQ, FALSE, Start)
    BY <2>2, <2>3
  <2> DEFINE s == NewSession
             i == << >>
             x == FALSE
             b == Start
  <2>7. /\ s = Sess' /\ s \in SessionType /\ i = Left' /\ (x <=> Answers(monitorQ', Current'))
        /\ v = Newest(task.payload) /\ n = config.groupsOf[request] /\ st = policy'
        /\ Placed(s, i, v, workerQ, x, b) /\ Runs(b, m.task.instrs, Version(m), d)
        /\ Rests(st, n, d)
    BY <1>3, <2>2, <2>3, <2>5, <2>6 DEF n
  <2> HIDE DEF v, s, i, x, b
  <2>8. QED
    BY <1>1, <1>2, <1>3, <1>10, <2>7, QueuedHolds
<1>13. CASE k # 0
  <2>1. k > 0 /\ Current' = Current
    BY <1>3, <1>8, <1>13
  <2>2. Live /\ Underway
    BY <1>1, <1>5, <2>1 DEF Underway, Concluded
  <2>3. /\ Sess \in SessionType
        /\ \E x, b : /\ x <=> Answers(monitorQ, Current)
                     /\ Placed(Sess, Left, Newest(task.payload), workerQ, x, b)
                     /\ Rests(policy, config.groupsOf[request], b)
    BY <2>2, PlacedOn
  <2>4. PICK x, b : /\ x <=> Answers(monitorQ, Current)
                    /\ Placed(Sess, Left, Newest(task.payload), workerQ, x, b)
                    /\ Rests(policy, config.groupsOf[request], b)
    BY <2>3
  <2>5. AtRest(policy, k - 1, b)
    <3>1. AtRest(policy, policy.group, b)
      BY <1>1, <2>4 DEF Rests
    <3>2. policy.group = k - 1
      <4>1. policy.group \in Int
        BY <1>4 DEF PolicyType
      <4>2. QED
        BY <1>5, <1>8, <2>1, <4>1
    <3>3. QED
      BY <3>1, <3>2
  <2>6. ~Concludes(begun, k - 1) /\ AtRest(begun, k - 1, b)
    <3>1. policy.latest = begun.latest /\ policy.n = begun.n
      BY <1>6, <1>13, <2>1
    <3>2. policy.group = k - 1
      <4>1. policy.group \in Int
        BY <1>4 DEF PolicyType
      <4>2. QED
        BY <1>5, <1>8, <2>1, <4>1
    <3>3. ~Concludes(policy, k - 1)
      BY <1>5, <2>1, <3>2
    <3>4. QED
      BY <2>5, <3>1, <3>3, AtRestAlike
  <2>7. Coming(begun, k, b)
    BY <1>6, <2>1, <2>6 DEF Coming
  <2>8. PICK d : Runs(b, m.task.instrs, Version(m), d) /\ Rests(st, n, d)
    BY <1>11, <2>7
  <2>9. Sess' = Sess /\ Left' = Left
    <3>1. NewSession' = NewSession
      BY SessionSame
    <3>2. QED
      BY <1>1, <2>1, <3>1 DEF Sess, Left
  <2> DEFINE s == Sess
             i == Left
  <2>10. /\ s = Sess' /\ s \in SessionType /\ i = Left' /\ (x <=> Answers(monitorQ', Current'))
         /\ v = Newest(task.payload) /\ n = config.groupsOf[request] /\ st = policy'
         /\ Placed(s, i, v, workerQ, x, b) /\ Runs(b, m.task.instrs, Version(m), d)
         /\ Rests(st, n, d)
    BY <1>1, <1>3, <2>1, <2>3, <2>4, <2>8, <2>9 DEF n
  <2> HIDE DEF v, s, i
  <2>11. QED
    BY <1>1, <1>2, <1>3, <1>10, <2>10, QueuedHolds
<1>14. QED
  BY <1>12, <1>13

-----------------------------------------------------------------------------
(* A call that only pushes the approximation on.                            *)
LEMMA FeedbackCalled ==
    ASSUME Agreed, Protocol, Serving, CallPolicy, Policy \in DynamicPolicies, ~GroupReady(buffer),
           Completed # None, MoreApprox(policy, Completed) > 0,
           config' = config, UNCHANGED << workerVars, resultQ, clientVars >>
    PROVE  /\ ~Counting /\ config \in Configs /\ Given(config, request) /\ taskId \in Nat
           /\ policy \in PolicyType(config)
           /\ config.policy \notin PerImage => policy.n = config.groups
           /\ resultQ = << >> /\ taskId' = taskId + 1 /\ Live /\ Live' /\ Taken' = Taken
           /\ Current' = Current
           /\ UNCHANGED << sessions, task, monitorQ, resultQ, phase, request >>
           /\ policy.group # None /\ policy.group < policy.n
           /\ \E j \in 0 .. TotalLayers - policy.latest, m \in MessageOf(config) :
                 /\ policy' = Ahead(policy, policy.latest + j)
                 /\ workerQ' = Append(workerQ, m)
                 /\ m.task.instrs = SingleLayers(policy.latest, j)
                 /\ j = MoreApprox(policy, Completed)
<1> DEFINE size == Size(config, request)
           k == MoreApprox(policy, Completed)
           st == [policy EXCEPT !.latest = @ + k]
           instrs == SingleLayers(policy.latest, k)
           t == Task(taskId, policy.req, << >>, instrs)
<1>1. /\ Given(config, request) /\ Taken \in Nat /\ size \in Nat /\ Len(buffer) \in Nat
  BY Serves
<1>2. /\ ~Counting /\ taskId \in Nat /\ config \in Configs /\ NoTask.id = None
      /\ taskId # None /\ policy \in PolicyType(config)
      /\ config.policy \notin PerImage => policy.n = config.groups
      /\ buffer \in Seq(PatchRecord)
  BY DEF Counting, Policy, Protocol, Types, NoTask, Task, None, CountPolicies, DynamicPolicies
<1>3. Completed \in Int
  BY CompletedType DEF Protocol
<1>4. /\ k \in 0 .. TotalLayers - policy.latest /\ k > 0
      /\ policy.group # None /\ policy.group < policy.n
  BY <1>2, <1>3, MoreApproxType
<1>5. /\ Live /\ \A i \in DOMAIN workerQ : Open(workerQ[i].task.instrs)
      /\ ~Answers(Pending, Current)
  BY <1>4 DEF Protocol, Unfinished, Speculating, Policy
<1>6. Decide(policy, buffer, Completed, taskId) = Answer(st, t)
  BY <1>4 DEF Decide, DecideFeedback, CountPolicies, DynamicPolicies
<1> HIDE DEF k
<1>7. /\ TotalLayers \in Nat /\ policy.latest \in 0 .. TotalLayers /\ policy.req \in Int
      /\ TotalLayers = config.layers
  BY <1>2, Configured DEF PolicyType, TotalLayers
<1>8. instrs \in Seq(InstrOf(config)) /\ Open(instrs) /\ Len(instrs) = k
  BY <1>2, <1>4, <1>7, SingleLayersSteps DEF Steps, Quiescent
<1> HIDE DEF instrs
<1>9. /\ st \in PolicyType(config) /\ st.req = policy.req /\ st.group = policy.group
      /\ st.n = policy.n
  <2>1. policy.latest + k \in 0 .. config.layers
    BY <1>4, <1>7
  <2>2. QED
    BY <1>2, <2>1 DEF PolicyType
<1>10. t \in TaskOf(config) /\ t.id = taskId /\ t.req = policy.req /\ t.payload = << >>
       /\ t.instrs = instrs
  <2>1. << >> \in Seq(PatchRecord)
    OBVIOUS
  <2>2. QED
    BY <1>2, <1>7, <1>8, <2>1 DEF Task, TaskOf
<1> HIDE DEF t, st
<1>11. /\ pc = "decide" /\ policy' = st /\ events' = {} /\ pc' = pc
       /\ buffer' = SubSeq(buffer, Len(<< >>) + 1, Len(buffer))
       /\ taskId' = taskId + 1 /\ workerQ' = Append(workerQ, TaskMessage(t))
       /\ UNCHANGED queueVars
  <2>1. t # NoTask
    BY <1>2, <1>10
  <2>2. Answer(st, t).st = st /\ Answer(st, t).task = t
    BY DEF Answer
  <2>3. QED
    BY <1>6, <1>10, <2>1, <2>2 DEF CallPolicy
<1>12. buffer' = buffer
  BY <1>2, <1>11
<1>13. /\ schedQ' = schedQ /\ todo' = todo /\ request' = request /\ phase' = phase
       /\ resultQ' = resultQ
  BY <1>11 DEF queueVars, clientVars
<1>14. Taken' = Taken /\ Live'
  <2>1. Taken' = Taken
    BY <1>12, <1>13 DEF Taken
  <2>2. QED
    BY <1>5, <1>13, <2>1 DEF Live
<1>15. Current' = Current /\ Current = policy.req /\ Current' \in 0 .. taskId
  <2>1. Current' = Current /\ Current = policy.req
    BY <1>2, <1>9, <1>11 DEF Current, Counting
  <2>2. Current \in 0 .. taskId - 1
    BY <1>5 DEF Protocol, Tasks
  <2>3. QED
    BY <1>2, <2>1, <2>2
<1>16. TaskMessage(t) \in MessageOf(config) /\ TaskMessage(t).task = t
  BY <1>10 DEF TaskMessage, MessageOf
<1>17. /\ UNCHANGED << sessions, task, monitorQ, resultQ, phase, request >>
       /\ resultQ = << >>
  BY <1>5 DEF workerVars, clientVars, Live
<1>18. st = Ahead(policy, policy.latest + k) /\ instrs = SingleLayers(policy.latest, k)
  BY DEF st, instrs, Ahead
<1>19. k = MoreApprox(policy, Completed)
  BY DEF k
<1>20. QED
  BY <1>1, <1>2, <1>4, <1>5, <1>10, <1>11, <1>14, <1>15, <1>16, <1>17, <1>18, <1>19

(* The policy queues layers at a feedback.                                  *)
LEMMA CallFeedbackHolds ==
    ASSUME Agreed, Protocol, Holding, Serving, CallPolicy, Policy \in DynamicPolicies,
           ~GroupReady(buffer), Completed # None, MoreApprox(policy, Completed) > 0,
           config' = config, UNCHANGED << workerVars, resultQ, clientVars >>
    PROVE  Holding'
<1> DEFINE n == config.groupsOf[request]
           g == policy.group
<1>1. /\ ~Counting /\ config \in Configs /\ Given(config, request) /\ taskId \in Nat
      /\ policy \in PolicyType(config)
      /\ config.policy \notin PerImage => policy.n = config.groups
      /\ resultQ = << >> /\ taskId' = taskId + 1 /\ Live /\ Live' /\ Taken' = Taken
      /\ Current' = Current
      /\ UNCHANGED << sessions, task, monitorQ, resultQ, phase, request >>
      /\ g # None /\ g < policy.n
      /\ \E j \in 0 .. TotalLayers - policy.latest, m \in MessageOf(config) :
            /\ policy' = Ahead(policy, policy.latest + j)
            /\ workerQ' = Append(workerQ, m)
            /\ m.task.instrs = SingleLayers(policy.latest, j)
  BY FeedbackCalled
<1>2. PICK j \in 0 .. TotalLayers - policy.latest, m \in MessageOf(config) :
         /\ policy' = Ahead(policy, policy.latest + j)
         /\ workerQ' = Append(workerQ, m)
         /\ m.task.instrs = SingleLayers(policy.latest, j)
  BY <1>1
<1> DEFINE st == Ahead(policy, policy.latest + j)
<1>3. Arrived /\ n \in Nat
  BY <1>1, GivenType DEF Holding, Grouped
<1>4. g \in 0 .. n /\ g \in Versions
  <2>1. g \in 0 .. n
    BY <1>3 DEF Arrived
  <2>2. n <= IF config.policy \in {"ADE20KApproxCorrect", "NYUApproxCorrect"}
             THEN 1 ELSE config.groups
    BY <1>1 DEF Agreed, Given, Counting
  <2>3. n <= config.groups
    BY <2>2 DEF Policy, DynamicPolicies
  <2>4. config.groups \in Nat
    BY <1>1, Configured DEF NumGroups
  <2> HIDE DEF n, g
  <2>5. QED
    BY <1>3, <2>1, <2>3, <2>4 DEF Versions, NumGroups
<1>5. ~Concludes(policy, g)
  <2>1. g \in Int /\ policy.n \in Int
    BY <1>1 DEF PolicyType
  <2>2. Policy = "DynamicGroupTrigger" => policy.n = NumGroups
    BY <1>1 DEF PerImage, Policy, NumGroups
  <2> HIDE DEF g
  <2>3. QED
    BY <1>1, <2>1, <2>2, Conclusions DEF DynamicPolicies
<1>6. st.latest = policy.latest + j /\ st.n = policy.n /\ st.group = g
  BY <1>1, AheadFields
<1>7. Underway
  BY <1>1, <1>5 DEF Underway, Concluded
<1>8. /\ Sess \in SessionType
      /\ \E x, b : /\ x <=> Answers(monitorQ, Current)
                   /\ Placed(Sess, Left, Newest(task.payload), workerQ, x, b)
                   /\ Rests(policy, config.groupsOf[request], b)
  BY <1>1, <1>7, PlacedOn
<1>9. PICK x, b : /\ x <=> Answers(monitorQ, Current)
                  /\ Placed(Sess, Left, Newest(task.payload), workerQ, x, b)
                  /\ Rests(policy, config.groupsOf[request], b)
  BY <1>8
<1>10. AtRest(policy, g, b)
  BY <1>1, <1>9 DEF Rests
<1>11. PICK d : /\ Runs(b, SingleLayers(policy.latest, j), Version(m), d)
                /\ AtRest(st, g, d)
  BY <1>1, <1>4, <1>5, <1>10, SpeculationRuns DEF st
<1> HIDE DEF st, n
<1>12. Runs(b, m.task.instrs, Version(m), d) /\ Rests(st, n, d)
  BY <1>1, <1>2, <1>6, <1>11 DEF Rests
<1>13. Sess' = Sess /\ Left' = Left
  <2>1. NewSession' = NewSession
    BY SessionSame
  <2>2. QED
    BY <1>1, <2>1 DEF Sess, Left
<1>14. Grouped'
  <2>1. Counting' <=> Counting
    BY DEF Counting
  <2>2. policy' = st
    BY <1>2 DEF st
  <2>3. Concludes(policy, policy.group)' <=> Concludes(policy, g)
    BY <1>6, <2>2 DEF Concludes, Policy, NumGroups
  <2>4. Arrived'
    BY <1>1, <1>3, <1>5, <1>6, <2>2, <2>3 DEF Arrived
  <2>5. policy'.group \in Nat \cup {None}
    BY <1>3, <1>4, <1>6, <2>2
  <2>6. QED
    BY <1>1, <2>1, <2>4, <2>5 DEF Grouped
<1> DEFINE s == Sess
           i == Left
           v == Newest(task.payload)
<1>15. /\ s = Sess' /\ s \in SessionType /\ i = Left' /\ (x <=> Answers(monitorQ', Current'))
       /\ v = Newest(task.payload) /\ n = config.groupsOf[request] /\ st = policy'
       /\ Placed(s, i, v, workerQ, x, b) /\ Runs(b, m.task.instrs, Version(m), d)
       /\ Rests(st, n, d)
  BY <1>1, <1>2, <1>8, <1>9, <1>12, <1>13 DEF n, st
<1> HIDE DEF v, s, i
<1>16. QED
  BY <1>1, <1>2, <1>14, <1>15, QueuedHolds

(* A call of the policy, whatever it finds.                                 *)
LEMMA CallPolicyHolds ==
    ASSUME Agreed, Fitting, Protocol, Holding, CallPolicy, config' = config,
           UNCHANGED << workerVars, resultQ, clientVars >>
    PROVE  Holding'
<1>1. pc = "decide"
  BY DEF CallPolicy
<1>2. Serving
  BY <1>1 DEF Protocol, Starting
<1>3. CASE Decide(policy, buffer, Completed, taskId) = Answer(policy, NoTask)
  <2>1. /\ Answer(policy, NoTask).st = policy /\ Answer(policy, NoTask).task = NoTask
    BY DEF Answer
  <2>2. policy' = policy /\ UNCHANGED << queueVars, buffer, taskId, workerQ >>
    BY <1>3, <2>1 DEF CallPolicy
  <2>3. QED
    BY <2>2, DeclinedHolds
<1>4. CASE Policy \in CountPolicies
  <2>1. CASE CountReady(buffer)
    BY <1>2, <1>4, <2>1, CallCountHolds
  <2>2. CASE ~CountReady(buffer)
    BY <1>3, <1>4, <2>2 DEF Decide, DecideCount
  <2>3. QED
    BY <2>1, <2>2
<1>5. CASE Policy \notin CountPolicies /\ GroupReady(buffer)
  BY <1>2, <1>5, CallGroupHolds
<1>6. CASE Policy \notin CountPolicies /\ ~GroupReady(buffer)
  <2>1. CASE Policy \in DynamicPolicies /\ Completed # None /\ MoreApprox(policy, Completed) > 0
    BY <1>2, <1>6, <2>1, CallFeedbackHolds
  <2>2. CASE ~(Policy \in DynamicPolicies /\ Completed # None /\ MoreApprox(policy, Completed) > 0)
    <3>1. DecideFeedback(policy, Completed, taskId) = Answer(policy, NoTask)
      BY <2>2 DEF DecideFeedback
    <3>2. QED
      BY <1>3, <1>6, <3>1 DEF Decide
  <2>3. QED
    BY <2>1, <2>2
<1>7. QED
  BY <1>4, <1>5, <1>6

-----------------------------------------------------------------------------
(* It holds in every step.                                                  *)
LEMMA NextHolds ==
    ASSUME Agreed, Fitting, Protocol, Holding, [Next]_vars PROVE Holding'
<1>1. CASE UNCHANGED vars
  BY <1>1, StutterHolds DEF vars
<1>2. CASE ClientStep /\ config' = config
  <2>1. CASE SendConfig
    <3>1. ~Serving'
      BY <2>1 DEF SendConfig, Serving
    <3>2. QED
      BY <3>1, HoldsEarly
  <2>2. QED
    BY <1>2, <2>1, SyncHolds, SendPatchHolds, ReceiveResultHolds DEF ClientStep
<1>3. CASE SchedulerStep /\ UNCHANGED << workerVars, resultQ, clientVars >> /\ config' = config
  <2>1. CASE Idle
    <3>1. UNCHANGED vars
      BY <1>3, <2>1 DEF Idle, vars
    <3>2. QED
      BY <1>1, <3>1
  <2>2. CASE \E p \in 0 .. Len(schedQ), f \in 0 .. Len(feedbackQ) : Drain(p, f)
    BY <1>3, <2>2, DrainHolds
  <2>3. QED
    BY <1>3, <2>1, <2>2, ControlHolds, CallPolicyHolds DEF SchedulerStep
<1>4. CASE TakeMessage /\ config' = config
  BY <1>4, TakeHolds
<1>5. CASE Launch /\ config' = config
  BY <1>5, LaunchHolds
<1>6. CASE Reap /\ config' = config
  BY <1>6, ReapHolds
<1>7. CASE Finished
  BY <1>1, <1>7 DEF Finished
<1>8. QED
  BY <1>1, <1>2, <1>3, <1>4, <1>5, <1>6, <1>7 DEF Next, WorkerStep

(* The invariant, for every configuration that fits.                        *)
LEMMA SpecHolding ==
    ASSUME Agreed, Fitting PROVE Spec => [](Protocol /\ Holding)
<1>1. Init => Protocol /\ Holding
  BY InitProtocol, InitHolding
<1>2. Protocol /\ Holding /\ [Next]_vars => (Protocol /\ Holding)'
  BY NextKeeps, NextHolds
<1>3. QED
  BY <1>1, <1>2, PTL DEF Spec

-----------------------------------------------------------------------------
(* What follows from the invariant.                                         *)
LEMMA ScheduleSoundHolds ==
    ASSUME Agreed, Protocol, Holding PROVE ScheduleSound
<1> SUFFICES ASSUME task # NoTask, ~Skipped(Context, Instruction)
             PROVE  /\ ~Raises(Context, Instruction)
                    /\ Instruction.op = "APPROX_FORWARD" /\ ~Instruction.global =>
                          ApproxSound(Context, Instruction)
                    /\ Instruction.op = "CORRECT_FORWARD" => CorrectSound(Context, Instruction)
                    /\ Instruction.op = "HEAD_INFERENCE" => LevelsComplete(Context)
  BY DEF ScheduleSound
<1>1. ~Raises(Context, Instruction)
  BY NoRaise
<1>2. CASE Live /\ task.req = Current
  <2> DEFINE s == Context
             i == Instruction
  <2>1. Finds(s, i)
    BY <1>2, NoRaise
  <2> HIDE DEF s, i
  <2>2. /\ i.op = "APPROX_FORWARD" /\ ~i.global => ApproxSound(s, i)
        /\ i.op = "CORRECT_FORWARD" => CorrectSound(s, i)
        /\ i.op = "HEAD_INFERENCE" => LevelsComplete(s)
    BY <2>1 DEF Finds, ApproxSound, CorrectSound, LevelsComplete
  <2>3. QED
    BY <1>1, <2>2 DEF s, i
<1>3. CASE ~(Live /\ task.req = Current)
  <2>1. Instruction.op = "FREE_SESSION"
    BY <1>3, NextJob
  <2>2. QED
    BY <1>1, <2>1
<1>4. QED
  BY <1>2, <1>3

(* The schedule is sound: whatever policy, executor and groups, and however *)
(* patches, feedback and instructions interleave, the instruction the GPU   *)
(* thread is about to launch finds the features, caches and tokens it       *)
(* relies on, and does not raise.                                           *)
THEOREM PipelineScheduleSound ==
    ASSUME Agreed, Fitting PROVE Spec => []ScheduleSound
<1>1. Protocol /\ Holding => ScheduleSound
  BY ScheduleSoundHolds
<1>2. QED
  BY <1>1, SpecHolding, PTL

-----------------------------------------------------------------------------
(* What is on the downlink while requests are served.                       *)
LEMMA ResultIs ==
    ASSUME Protocol, Holding, Downlink, NEW m \in Results
    PROVE  /\ Serving /\ resultQ = << m >> /\ phase = "wait"
           /\ \A i \in Images : Complete(m.final[i], config.groupsOf[request])
<1>1. resultQ # << >>
  <2>1. resultQ = << >> => DOMAIN resultQ = {}
    OBVIOUS
  <2>2. QED
    BY <2>1 DEF Results
<1>2. PICK r : resultQ = << r >> /\ (Serving => ~r.sync) /\ (~Serving => r.sync)
  BY <1>1 DEF Downlink
<1>3. DOMAIN resultQ = {1} /\ resultQ[1] = r
  BY <1>2
<1>4. m = r /\ ~m.sync
  BY <1>3 DEF Results
<1>5. Serving
  BY <1>2, <1>4
<1>6. Head(resultQ) = m
  BY <1>2, <1>4, QueueOne, Zenon
<1>7. \E res, n : res = Head(resultQ) /\ n = config.groupsOf[request] /\ AllAnswered(res, n)
  BY <1>1, <1>5 DEF Holding, Delivered
<1>8. AllAnswered(m, config.groupsOf[request])
  BY <1>6, <1>7
<1>9. QED
  BY <1>1, <1>2, <1>4, <1>5, <1>8 DEF Protocol, Tasks, AllAnswered

LEMMA AnswerCompleteHolds ==
    ASSUME Protocol, Holding, Downlink PROVE AnswerComplete
<1> DEFINE D == {i \in DOMAIN resultQ : ~resultQ[i].sync}
<1>1. Cardinality(D) <= 1
  <2>1. D \in SUBSET {1}
    <3>1. CASE resultQ = << >>
      BY <3>1
    <3>2. CASE resultQ # << >>
      <4>1. PICK m : resultQ = << m >>
        BY <3>2 DEF Downlink
      <4>2. DOMAIN resultQ = {1}
        BY <4>1
      <4>3. QED
        BY <4>2
    <3>3. QED
      BY <3>1, <3>2
  <2>2. IsFiniteSet({1}) /\ Cardinality({1}) = 1
    BY FS_Singleton
  <2> HIDE DEF D
  <2>3. Cardinality(D) <= Cardinality({1})
    BY <2>1, <2>2, FS_Subset
  <2>4. QED
    BY <2>2, <2>3
<1>2. ASSUME NEW m \in Results
      PROVE  /\ phase = "wait"
             /\ \A i \in Images :
                   /\ m.final[i] # NoOutcome
                   /\ ~EarlyExit => /\ m.final[i].depth = TotalLayers
                                    /\ m.final[i].ver = GroupsOf[request]
  <2>1. /\ phase = "wait"
        /\ \A i \in Images : Complete(m.final[i], config.groupsOf[request])
    BY ResultIs
  <2>2. NoOutcome.depth = None
    BY DEF NoOutcome, Outcome
  <2>3. QED
    BY <2>1, <2>2 DEF Complete, Good, GroupsOf
<1>3. QED
  BY <1>1, <1>2 DEF AnswerComplete

(* An answer comes once, to the request the client waits for, with a result *)
(* for every image; without early exit it is that of the last layer over    *)
(* the last residual group.                                                 *)
THEOREM PipelineAnswerComplete ==
    ASSUME Agreed, Fitting PROVE Spec => []AnswerComplete
<1>1. Protocol /\ Holding /\ Downlink => AnswerComplete
  BY AnswerCompleteHolds
<1>2. Init => Downlink
  BY DEF Init, Downlink
<1>3. Protocol /\ Downlink /\ [Next]_vars => Downlink'
  BY DownlinkKeeps
<1>4. QED
  BY <1>1, <1>2, <1>3, SpecHolding, PTL DEF Spec

(* The forks that persist what a correction changed lose none of it: in an  *)
(* answer, early or not, the features the head read and every layer's keys  *)
(* and values hold the pixels of each group that had arrived.               *)
THEOREM PipelineCorrectionsKept ==
    ASSUME Agreed, Fitting, \A c \in Configs : c.executor \notin Forgetful
    PROVE  Spec => []CorrectionsKept
<1>1. Protocol /\ Holding /\ Downlink => CorrectionsKept
  <2> SUFFICES ASSUME Protocol, Holding, Downlink, NEW m \in Results, NEW i \in Images
               PROVE  m.final[i].stale = {}
    BY DEF CorrectionsKept
  <2>1. ExecutorName \notin Forgetful
    BY DEF Protocol, Types, ExecutorName
  <2>2. Complete(m.final[i], config.groupsOf[request])
    BY ResultIs
  <2>3. QED
    BY <2>1, <2>2 DEF Complete, Good
<1>2. Init => Downlink
  BY DEF Init, Downlink
<1>3. Protocol /\ Downlink /\ [Next]_vars => Downlink'
  BY DownlinkKeeps
<1>4. QED
  BY <1>1, <1>2, <1>3, SpecHolding, PTL DEF Spec

-----------------------------------------------------------------------------
(* Patches on their way are of the request under way.                       *)
LEMMA CarriedType ==
    ASSUME Agreed, Given(config, request), NEW q, NEW from, Carries(q, config, request, from)
    PROVE  \A i \in DOMAIN q : q[i] \in PatchType
<1> DEFINE n == config.groupsOf[request]
           S == Size(config, request)
<1>1. q \in Seq(PatchRecord) /\ from \in Nat /\ from + Len(q) <= S
      /\ \A i \in DOMAIN q : q[i] = PatchesOf(config, request)[from + i]
  BY DEF Carries
<1>2. n \in Nat /\ n \in 0 .. n /\ request \in Nat
  BY GivenType
<1>3. S \in Nat
  <2>1. n + 1 \in 0 .. n + 1
    BY <1>2
  <2>2. Offset(config, request, n + 1) \in 0 .. S
    BY <2>1, OffsetOrder
  <2>3. S \in Int
    BY <1>2, PatchesAt
  <2>4. QED
    BY <2>2, <2>3
<1> SUFFICES ASSUME NEW i \in DOMAIN q PROVE q[i] \in PatchType
  OBVIOUS
<1> DEFINE p == from + i - 1
<1>4. p \in 0 .. S - 1 /\ from + i = p + 1 /\ p \in Nat
  BY <1>1, <1>3
<1> HIDE DEF p
<1>5. PICK g \in 0 .. n : Offset(config, request, g) <= p /\ p < Offset(config, request, g + 1)
  BY <1>4, GroupAt DEF S, n
<1>6. /\ Offset(config, request, g) \in Nat /\ config.groupSize[g] \in Nat
      /\ Offset(config, request, g + 1) = Offset(config, request, g) + config.groupSize[g]
  BY <1>5, OffsetNext, GivenType
<1>7. p + 1 \in Nat /\ Offset(config, request, g) < p + 1 /\ p + 1 <= Offset(config, request, g + 1)
  BY <1>4, <1>5, <1>6
<1>8. q[i] = PatchOf(config, request, g)
  BY <1>1, <1>4, <1>5, <1>7, CarriedPatch, SMTT(30)
<1>9. q[i] \in PatchRecord /\ q[i].req = request
  BY <1>1, <1>5, <1>8, PatchGroup
<1>10. request \in Requests
  <2>1. config.groupsOf \in Seq(Nat) /\ request \in DOMAIN config.groupsOf
    BY PipelineAssumption DEF Given
  <2>2. QED
    BY <2>1 DEF Requests, MaxRequests, GroupsOf
<1>11. QED
  BY <1>9, <1>10 DEF PatchRecord, PatchType

(* The types that the invariant implies.                                    *)
LEMMA PolicyTyped ==
    ASSUME Protocol, Holding PROVE policy = NoPolicy \/ policy \in PolicyState
<1>1. config \in Configs /\ TotalLayers = config.layers /\ TotalLayers \in Nat \ {0}
      /\ NumGroups \in Nat \ {0} /\ None = -1
  BY Sizes DEF Protocol, Types, TotalLayers
<1>2. NewPolicy \in PolicyState
  BY <1>1 DEF NewPolicy, PolicyState
<1>3. CASE ~Serving
  <2>1. phase \in {"config", "sync"}
    BY <1>3 DEF Protocol, Types, Serving
  <2>2. policy = NoPolicy \/ policy = NewPolicy
    BY <1>3, <2>1 DEF Protocol, Starting
  <2>3. QED
    BY <1>2, <2>2
<1>4. CASE Serving /\ Counting
  BY <1>2, <1>4 DEF Holding, Grouped
<1>5. CASE Serving /\ ~Counting
  <2>1. policy \in PolicyType(config) /\ policy.group \in Nat \cup {None} /\ taskId \in Nat
    BY <1>5 DEF Protocol, Types, Holding, Grouped
  <2>2. policy.req \in {None} \cup 0 .. taskId - 1
    BY <1>5 DEF Protocol, Tasks, Current
  <2>3. QED
    BY <1>1, <2>1, <2>2 DEF PolicyType, PolicyState
<1>6. QED
  BY <1>3, <1>4, <1>5

LEMMA TypeOKHolds ==
    ASSUME Agreed, Protocol, Holding PROVE TypeOK
<1>1. config \in Configs /\ TotalLayers = config.layers /\ Given(config, request)
  BY DEF Protocol, Types, TotalLayers
<1>2. \A i \in DOMAIN controlQ : controlQ[i] \in {"CONFIG", "TIME_SYNC", "STOP"}
  BY DEF Protocol, Types
<1>3. /\ \A i \in DOMAIN schedQ : schedQ[i] \in PatchType
      /\ \A i \in DOMAIN buffer : buffer[i] \in PatchType
  <2>1. CASE Serving
    <3>1. /\ Carries(buffer, config, request, Taken)
          /\ Carries(schedQ, config, request, Taken + Len(buffer))
      BY <2>1 DEF Protocol, Stream
    <3>2. QED
      BY <1>1, <3>1, CarriedType
  <2>2. CASE ~Serving
    <3>1. schedQ = << >> /\ buffer = << >>
      BY <2>2 DEF Protocol, Starting
    <3>2. DOMAIN schedQ = {} /\ DOMAIN buffer = {}
      BY <3>1
    <3>3. QED
      BY <3>2
  <2>3. QED
    BY <2>1, <2>2
<1>4. \A i \in DOMAIN feedbackQ : feedbackQ[i].layer \in 0 .. TotalLayers
  <2> DEFINE R == [req : Int, layer : 0 .. config.layers]
  <2>1. feedbackQ \in Seq(R)
    BY DEF Protocol, Types
  <2>2. \A r \in R : r.layer \in 0 .. TotalLayers
    BY <1>1
  <2> HIDE DEF R
  <2>3. \A i \in DOMAIN feedbackQ : feedbackQ[i] \in R
    BY <2>1
  <2>4. QED
    BY <2>2, <2>3
<1>5. /\ events \subseteq 0 .. TotalLayers /\ pc \in {"poll", "decide", "stopped"}
      /\ phase \in {"config", "sync", "send", "wait", "done"}
  BY <1>1 DEF Protocol, Types
<1>6. \A q \in DOMAIN sessions :
         /\ q \in 0 .. taskId
         /\ sessions[q].at \in [Parts -> 0 .. TotalLayers \cup {None}]
         /\ sessions[q].outs \in [Parts -> 0 .. TotalLayers]
         /\ sessions[q].inc \in [Regions -> [Layers -> Regions \cup {0, None}]]
         /\ sessions[q].active \subseteq Images
  <2>1. {None} \cup Versions = Regions \cup {0, None}
    BY <1>1, Sizes DEF Versions
  <2>2. CASE Serving
    <3>1. \A q \in DOMAIN sessions : q \in 0 .. taskId /\ sessions[q] \in SessionType
      BY <2>2 DEF Holding, Stores
    <3> SUFFICES ASSUME NEW q \in DOMAIN sessions
                 PROVE  /\ sessions[q].at \in [Parts -> 0 .. TotalLayers \cup {None}]
                        /\ sessions[q].outs \in [Parts -> 0 .. TotalLayers]
                        /\ sessions[q].inc \in [Regions -> [Layers -> Regions \cup {0, None}]]
                        /\ sessions[q].active \subseteq Images
      BY <3>1
    <3> DEFINE s == sessions[q]
    <3>2. s \in SessionType
      BY <3>1
    <3> HIDE DEF s
    <3>3. /\ s.at \in [Parts -> 0 .. TotalLayers \cup {None}]
          /\ s.outs \in [Parts -> 0 .. TotalLayers]
          /\ s.inc \in [Regions -> [Layers -> {None} \cup Versions]]
          /\ s.active \in SUBSET Images
      BY <3>2 DEF SessionType
    <3>4. QED
      BY <2>1, <3>3 DEF s
  <2>3. CASE ~Serving
    <3>1. sessions = << >>
      BY <2>3 DEF Protocol, Starting
    <3>2. DOMAIN sessions = {}
      BY <3>1
    <3>3. QED
      BY <3>2
  <2>4. QED
    BY <2>2, <2>3
<1>7. QED
  BY <1>2, <1>3, <1>4, <1>5, <1>6, PolicyTyped DEF TypeOK

(* Every queue, the policy object and the sessions hold what they may hold. *)
THEOREM PipelineTypeOK ==
    ASSUME Agreed, Fitting PROVE Spec => []TypeOK
<1>1. Protocol /\ Holding => TypeOK
  BY TypeOKHolds
<1>2. QED
  BY <1>1, SpecHolding, PTL

-----------------------------------------------------------------------------
(* Feedback-driven speculation.  While residual groups are to come and      *)
(* layers are left, the last layer queued is still on its way: in a task,   *)
(* launched, or fed back; and its session lives, so that the reaper does    *)
(* feed it back.                                                            *)
Speculates == Serving /\ FeedbackDriven /\ policy.group \in 0 .. policy.n - 1
Feeds(job) == job.op = "APPROX_FORWARD" /\ ~job.global
Brings(instrs, l) ==
    \E i \in DOMAIN instrs :
        instrs[i].op = "APPROX_FORWARD" /\ ~instrs[i].global /\ instrs[i].hi >= l
Queued(q, l) == \E i \in DOMAIN q : Brings(q[i].task.instrs, l)
Issued(jobs, l) == \E i \in DOMAIN jobs : Feeds(jobs[i]) /\ jobs[i].layer >= l
FedBack(q, l) == \E i \in DOMAIN q : q[i].layer >= l
Approaches(l) ==
    \/ Queued(workerQ, l) \/ Issued(Pending, l) \/ FedBack(feedbackQ, l)
    \/ \E e \in events : e >= l
Known == \A i \in DOMAIN Pending : Pending[i].req = Current => Current \in DOMAIN sessions
Flowing == Speculates => Known /\ (policy.latest < TotalLayers => Approaches(policy.latest))
Polled == pc # "decide" => events = {}

(* Of a single request no layer is fed back that its session has not        *)
(* cached, and the policy is never further ahead of it.                     *)
Single == FeedbackDriven /\ MaxRequests = 1
Reached == Cardinality(Cached(Sess, 1))
Unbegun ==
    Serving /\ Single /\ Taken = 0 =>
        Pending = << >> /\ feedbackQ = << >> /\ events = {} /\ DOMAIN sessions = {}
Within ==
    Speculates /\ Single /\ Sess.active # {} =>
        /\ policy.latest <= AheadLayers + Reached
        /\ \A i \in DOMAIN monitorQ : Feeds(monitorQ[i]) => monitorQ[i].layer <= Reached
        /\ \A i \in DOMAIN feedbackQ : feedbackQ[i].layer <= Reached
        /\ \A e \in events : e <= Reached
Speculation == Flowing /\ Polled /\ Unbegun /\ Within

-----------------------------------------------------------------------------
(* What queues keep of a layer on its way.                                  *)
LEMMA QueueOrder ==
    ASSUME NEW S, NEW q \in Seq(S), q # << >>
    PROVE  /\ Head(q) = q[1] /\ 1 \in DOMAIN q
           /\ \A i \in DOMAIN Tail(q) : i + 1 \in DOMAIN q /\ Tail(q)[i] = q[i + 1]
           /\ \A i \in DOMAIN q : i = 1 \/ (i - 1 \in DOMAIN Tail(q) /\ q[i] = Tail(q)[i - 1])
<1> DEFINE t == Tail(q)
<1>1. /\ t \in Seq(S) /\ Len(t) = Len(q) - 1 /\ Len(q) \in Nat /\ Len(q) >= 1
      /\ Head(q) = q[1] /\ \A i \in 1 .. Len(q) - 1 : t[i] = q[i + 1]
  BY QueueTail
<1> HIDE DEF t
<1>2. DOMAIN q = 1 .. Len(q) /\ DOMAIN t = 1 .. Len(q) - 1
  BY <1>1
<1>3. \A i \in DOMAIN t : i + 1 \in DOMAIN q /\ t[i] = q[i + 1]
  BY <1>1, <1>2
<1>4. ASSUME NEW i \in DOMAIN q, i # 1 PROVE i - 1 \in DOMAIN t /\ q[i] = t[i - 1]
  <2>1. i - 1 \in 1 .. Len(q) - 1 /\ (i - 1) + 1 = i
    BY <1>1, <1>2, <1>4
  <2>2. QED
    BY <1>1, <1>2, <2>1
<1>5. 1 \in DOMAIN q
  BY <1>1, <1>2
<1>6. QED
  BY <1>1, <1>3, <1>4, <1>5 DEF t

LEMMA QueueMore ==
    ASSUME NEW S, NEW q \in Seq(S), NEW x \in S, NEW u, u = Append(q, x)
    PROVE  /\ \A i \in DOMAIN q : i \in DOMAIN u /\ u[i] = q[i]
           /\ \E i \in DOMAIN u : u[i] = x
           /\ \A i \in DOMAIN u : i \in DOMAIN q \/ u[i] = x
<1>1. /\ DOMAIN u = DOMAIN q \cup {Len(q) + 1} /\ u[Len(q) + 1] = x
      /\ \A i \in DOMAIN q : u[i] = q[i]
  OBVIOUS
<1>2. QED
  BY <1>1

LEMMA QueuedAppend ==
    ASSUME NEW S, NEW q \in Seq(S), NEW m \in S, NEW u, u = Append(q, m), NEW l
    PROVE  /\ Queued(q, l) => Queued(u, l)
           /\ Brings(m.task.instrs, l) => Queued(u, l)
<1>1. /\ \A i \in DOMAIN q : i \in DOMAIN u /\ u[i] = q[i]
      /\ \E i \in DOMAIN u : u[i] = m
  BY QueueMore
<1>2. QED
  BY <1>1 DEF Queued

LEMMA QueuedTail ==
    ASSUME NEW S, NEW q \in Seq(S), q # << >>, NEW l, Queued(q, l)
    PROVE  Brings(q[1].task.instrs, l) \/ Queued(Tail(q), l)
<1>1. \A i \in DOMAIN q : i = 1 \/ (i - 1 \in DOMAIN Tail(q) /\ q[i] = Tail(q)[i - 1])
  BY QueueOrder
<1>2. PICK i \in DOMAIN q : Brings(q[i].task.instrs, l)
  BY DEF Queued
<1>3. QED
  BY <1>1, <1>2 DEF Queued

LEMMA IssuedJoin ==
    ASSUME NEW S, NEW a \in Seq(S), NEW b \in Seq(S), NEW s, Behind(s, a, b), NEW l
    PROVE  Issued(a, l) \/ Issued(b, l) => Issued(s, l)
<1>1. /\ s \in Seq(S) /\ Len(s) = Len(a) + Len(b) /\ Len(a) \in Nat /\ Len(b) \in Nat
      /\ \A i \in 1 .. Len(a) : s[i] = a[i]
      /\ \A i \in 1 .. Len(b) : s[Len(a) + i] = b[i]
  BY QueueJoin
<1>2. DOMAIN s = 1 .. Len(a) + Len(b) /\ DOMAIN a = 1 .. Len(a) /\ DOMAIN b = 1 .. Len(b)
  BY <1>1
<1>3. /\ \A i \in DOMAIN a : i \in DOMAIN s /\ s[i] = a[i]
      /\ \A i \in DOMAIN b : Len(a) + i \in DOMAIN s /\ s[Len(a) + i] = b[i]
  BY <1>1, <1>2
<1>4. QED
  BY <1>3 DEF Issued

LEMMA IssuedTail ==
    ASSUME NEW S, NEW q \in Seq(S), q # << >>, NEW l, Issued(q, l)
    PROVE  (Feeds(q[1]) /\ q[1].layer >= l) \/ Issued(Tail(q), l)
<1>1. \A i \in DOMAIN q : i = 1 \/ (i - 1 \in DOMAIN Tail(q) /\ q[i] = Tail(q)[i - 1])
  BY QueueOrder
<1>2. PICK i \in DOMAIN q : Feeds(q[i]) /\ q[i].layer >= l
  BY DEF Issued
<1>3. QED
  BY <1>1, <1>2 DEF Issued

LEMMA JobsBring ==
    ASSUME NEW t, NEW l, Brings(t.instrs, l) PROVE Issued(JobsOf(t), l)
<1>1. PICK i \in DOMAIN t.instrs :
         t.instrs[i].op = "APPROX_FORWARD" /\ ~t.instrs[i].global /\ t.instrs[i].hi >= l
  BY DEF Brings
<1>2. i \in DOMAIN JobsOf(t) /\ JobsOf(t)[i] = JobOf(t.instrs[i], t)
  BY <1>1 DEF JobsOf
<1>3. Feeds(JobOf(t.instrs[i], t)) /\ JobOf(t.instrs[i], t).layer >= l
  BY <1>1 DEF Feeds, JobOf
<1>4. QED
  BY <1>2, <1>3 DEF Issued

LEMMA FedBackAppend ==
    ASSUME NEW S, NEW q \in Seq(S), NEW m \in S, NEW u, u = Append(q, m), NEW l
    PROVE  /\ FedBack(q, l) => FedBack(u, l)
           /\ m.layer >= l => FedBack(u, l)
<1>1. /\ \A i \in DOMAIN q : i \in DOMAIN u /\ u[i] = q[i]
      /\ \E i \in DOMAIN u : u[i] = m
  BY QueueMore
<1>2. QED
  BY <1>1 DEF FedBack

(* Draining feeds the events of this pass.                                  *)
LEMMA FedBackDrain ==
    ASSUME NEW S, NEW q \in Seq(S), NEW f \in 0 .. Len(q), NEW u, u = SubSeq(q, f + 1, Len(q)),
           NEW l, FedBack(q, l)
    PROVE  FedBack(u, l) \/ \E i \in 1 .. f : q[i].layer >= l
<1>1. PICK i \in DOMAIN q : q[i].layer >= l
  BY DEF FedBack
<1>2. Len(q) \in Nat /\ DOMAIN q = 1 .. Len(q) /\ f \in Nat /\ f <= Len(q) /\ i \in Nat
  BY <1>1
<1>3. CASE i <= f
  BY <1>1, <1>2, <1>3
<1>4. CASE i > f
  <2>1. i - f \in 1 .. Len(q) - f
    BY <1>1, <1>2, <1>4
  <2>2. Len(u) = Len(q) - f /\ u \in Seq(S) /\ \A j \in 1 .. Len(q) - f : u[j] = q[f + j]
    BY <1>2
  <2>3. i - f \in DOMAIN u /\ u[i - f] = q[i]
    <3>1. f + (i - f) = i
      BY <1>2
    <3>2. u[i - f] = q[f + (i - f)]
      BY <2>1, <2>2
    <3>3. DOMAIN u = 1 .. Len(q) - f
      BY <2>2
    <3>4. QED
      BY <2>1, <3>1, <3>2, <3>3
  <2>4. QED
    BY <1>1, <2>3 DEF FedBack
<1>5. QED
  BY <1>2, <1>3, <1>4
-----------------------------------------------------------------------------
(* What a call of the policy queues: layer after layer up to the new        *)
(* frontier, at most AheadLayers beyond the layer completed, and nothing    *)
(* only if the frontier is that far ahead already.                          *)
LEMMA MoreApproxIs ==
    ASSUME config \in Configs, NEW st \in PolicyType(config), NEW done \in Int,
           st.group >= 0, st.group < st.n, NEW k, k = MoreApprox(st, done)
    PROVE  /\ k \in 0 .. TotalLayers - st.latest
           /\ k = 0 \/ st.latest + k <= AheadLayers + done
           /\ k = 0 => st.latest = TotalLayers \/ AheadLayers + done <= st.latest
<1> DEFINE ahead == AheadLayers - (st.latest - done)
           left == TotalLayers - st.latest
<1>1. /\ st.latest \in 0 .. TotalLayers /\ st.group \in Int /\ st.n \in Nat
      /\ TotalLayers \in Nat /\ AheadLayers \in Nat
  BY Configured DEF PolicyType, TotalLayers
<1>2. ahead \in Int /\ left \in Nat
  BY <1>1
<1>3. k = Max({0, Min({ahead, left})})
  BY <1>1 DEF MoreApprox, None
<1> HIDE DEF ahead, left
<1>4. Min({ahead, left}) = IF ahead <= left THEN ahead ELSE left
  BY <1>2, MinPair
<1>5. Max({0, Min({ahead, left})}) = IF 0 >= Min({ahead, left}) THEN 0 ELSE Min({ahead, left})
  BY <1>2, <1>4, MaxPair
<1>6. k = IF ahead <= 0 \/ left <= 0 THEN 0 ELSE IF ahead <= left THEN ahead ELSE left
  BY <1>2, <1>3, <1>4, <1>5
<1>7. k \in 0 .. left /\ (k = 0 \/ k <= ahead) /\ (k = 0 => ahead <= 0 \/ left = 0)
  BY <1>2, <1>6
<1>8. QED
  BY <1>1, <1>7 DEF ahead, left

LEMMA BringsConcat ==
    ASSUME NEW S, NEW a \in Seq(S), NEW b \in Seq(S), NEW s, Behind(s, a, b), NEW l
    PROVE  Brings(a, l) \/ Brings(b, l) => Brings(s, l)
<1>1. /\ s \in Seq(S) /\ Len(s) = Len(a) + Len(b) /\ Len(a) \in Nat /\ Len(b) \in Nat
      /\ \A i \in 1 .. Len(a) : s[i] = a[i]
      /\ \A i \in 1 .. Len(b) : s[Len(a) + i] = b[i]
  BY QueueJoin
<1>2. DOMAIN s = 1 .. Len(a) + Len(b) /\ DOMAIN a = 1 .. Len(a) /\ DOMAIN b = 1 .. Len(b)
  BY <1>1
<1>3. /\ \A i \in DOMAIN a : i \in DOMAIN s /\ s[i] = a[i]
      /\ \A i \in DOMAIN b : Len(a) + i \in DOMAIN s /\ s[Len(a) + i] = b[i]
  BY <1>1, <1>2
<1>4. QED
  BY <1>3 DEF Brings

LEMMA SinglesBring ==
    ASSUME config \in Configs, NEW from \in 0 .. TotalLayers, NEW k \in 0 .. TotalLayers - from,
           k > 0
    PROVE  Brings(SingleLayers(from, k), from + k)
<1>1. TotalLayers \in Nat
  BY Configured
<1>2. k \in 1 .. k /\ from + k \in Int
  BY <1>1
<1>3. DOMAIN SingleLayers(from, k) = 1 .. k /\ SingleLayers(from, k)[k] = Approx(from + k - 1, from + k)
  BY <1>2 DEF SingleLayers
<1>4. /\ Approx(from + k - 1, from + k).op = "APPROX_FORWARD"
      /\ ~Approx(from + k - 1, from + k).global /\ Approx(from + k - 1, from + k).hi = from + k
  BY DEF Approx, Instr
<1>5. QED
  BY <1>2, <1>3, <1>4 DEF Brings

LEMMA FeedbackPlanAhead ==
    ASSUME config \in Configs, FeedbackDriven, NEW st \in PolicyType(config),
           NEW k \in 0 .. NumGroups, NEW done \in Int, done = None \/ done >= 0,
           st.group = k, k < st.n, NEW plan, plan = FeedbackPlan(st, k, done),
           NEW at, at = IF done = None THEN 0 ELSE done
    PROVE  /\ plan.latest \in st.latest .. TotalLayers
           /\ plan.latest = st.latest \/ Brings(plan.instrs, plan.latest)
           /\ plan.latest = st.latest \/ plan.latest <= AheadLayers + at
           /\ k = 0 \/ done # None =>
                 \/ plan.latest # st.latest \/ st.latest = TotalLayers
                 \/ AheadLayers + at <= st.latest
           /\ k # 0 /\ done = None => plan.latest = st.latest
<1> DEFINE j == IF k = 0 THEN MoreApprox(st, IF done = None THEN 0 ELSE done)
                ELSE IF done = None THEN 0 ELSE MoreApprox(st, done)
           ade20k == Policy = "ADE20KInterleavedDynamic"
           early == ~ade20k /\ GlobalMode = "global_first"
           first == IF k = 0 THEN When(early, << GlobalApprox >>) ELSE CorrectQueued(st, k)
           singles == SingleLayers(st.latest, j)
           last == When(k > 0 /\ ade20k, ExitCheck)
           body == Inputs \o first \o singles \o last
<1>1. /\ k \in Nat /\ TotalLayers \in Nat \ {0} /\ st.latest \in 0 .. TotalLayers
      /\ st.n \in Nat \ {0} /\ AheadLayers \in Nat /\ at \in Int /\ NumGroups \in Nat
  BY Sizes, Configured DEF PolicyType, TotalLayers
<1>2. plan.instrs = body /\ plan.latest = st.latest + j
  BY DEF FeedbackPlan, Plan
<1>3. /\ j = 0 \/ j = MoreApprox(st, at)
      /\ k = 0 \/ done # None => j = MoreApprox(st, at)
      /\ k # 0 /\ done = None => j = 0
  OBVIOUS
<1> DEFINE more == MoreApprox(st, at)
<1>4. /\ more \in 0 .. TotalLayers - st.latest
      /\ more = 0 \/ st.latest + more <= AheadLayers + at
      /\ more = 0 => st.latest = TotalLayers \/ AheadLayers + at <= st.latest
  BY <1>1, MoreApproxIs
<1> HIDE DEF more
<1>5. Steps(Inputs) /\ Steps(ExitCheck) /\ Steps(<< GlobalApprox >>)
  BY CommonParts
<1>6. Steps(first)
  <2>1. Steps(When(early, << GlobalApprox >>))
    BY <1>5, StepsWhen
  <2>2. Steps(CorrectQueued(st, k))
    <3>1. st.latest \in 0 .. TotalLayers /\ k \in Int
      BY <1>1
    <3>2. Steps(<< Correct(st.latest, k) >>)
      BY <3>1, CorrectSteps
    <3>3. QED
      BY <3>2, StepsWhen DEF CorrectQueued
  <2>3. QED
    BY <2>1, <2>2
<1>7. Steps(last)
  BY <1>5, StepsWhen
<1>8. j \in 0 .. TotalLayers - st.latest
  BY <1>1, <1>3, <1>4 DEF more
<1> HIDE DEF j
<1>9. Steps(singles)
  BY <1>1, <1>8, SingleLayersSteps
<1>10. j > 0 => Brings(singles, st.latest + j)
  BY <1>1, <1>8, SinglesBring
<1> DEFINE I == InstrOf(config)
           a == Inputs \o first
           b == a \o singles
           at2 == st.latest + j
<1>11. Inputs \in Seq(I) /\ first \in Seq(I) /\ singles \in Seq(I) /\ last \in Seq(I)
  BY <1>5, <1>6, <1>7, <1>9 DEF Steps, Quiescent
<1> HIDE DEF first, singles, last, I
<1>12. a \in Seq(I) /\ b \in Seq(I)
  BY <1>11
<1>13. j > 0 => Brings(b, at2)
  <2>1. Behind(b, a, singles)
    BY DEF Behind
  <2> HIDE DEF a, b
  <2>2. QED
    BY <1>10, <1>11, <1>12, <2>1, BringsConcat
<1>14. j > 0 => Brings(body, at2)
  <2>1. Behind(body, b, last)
    BY DEF Behind
  <2> HIDE DEF b, body
  <2>2. QED
    BY <1>11, <1>12, <1>13, <2>1, BringsConcat
<1> HIDE DEF body, a, b
<1>15. plan.latest = st.latest \/ Brings(plan.instrs, plan.latest)
  <2>1. j = 0 => plan.latest = st.latest
    BY <1>1, <1>2
  <2>2. QED
    BY <1>2, <1>8, <1>14, <2>1
<1>16. QED
  BY <1>1, <1>2, <1>3, <1>4, <1>8, <1>15 DEF more

-----------------------------------------------------------------------------
(* Steps that leave the request where it is.                                *)
LEMMA ConstantsSame ==
    ASSUME config' = config
    PROVE  /\ FeedbackDriven' <=> FeedbackDriven
           /\ TotalLayers' = TotalLayers /\ AheadLayers' = AheadLayers
           /\ Single' <=> Single
           /\ NewSession' = NewSession
           /\ \A s : Cached(s, 1)' = Cached(s, 1)
<1>1. NewSession' = NewSession
  BY SessionSame
<1>2. QED
  BY <1>1 DEF FeedbackDriven, Policy, TotalLayers, AheadLayers, Single, MaxRequests, GroupsOf,
              Cached, Layers, None

(* A request that has begun speculating has something at the worker.        *)
LEMMA SpeculatesLive ==
    ASSUME Protocol, Speculates
    PROVE  /\ Serving /\ Live /\ phase # "done" /\ resultQ = << >> /\ ~Counting
           /\ Current = policy.req /\ Current \in Int /\ taskId \in Nat /\ config \in Configs
           /\ policy \in PolicyType(config) /\ Policy \in DynamicPolicies
           /\ ~Answers(Pending, Current) /\ JobsLive(Pending, Current)
           /\ \A i \in DOMAIN workerQ : /\ workerQ[i].type = "TASK"
                                        /\ workerQ[i].task.req = Current
                                        /\ Open(workerQ[i].task.instrs)
<1>1. Serving /\ FeedbackDriven /\ policy.group \in 0 .. policy.n - 1
  BY DEF Speculates
<1>2. /\ config \in Configs /\ policy \in PolicyType(config) /\ taskId \in Nat
  BY <1>1 DEF Protocol, Types
<1>3. policy.group # None /\ policy.group < policy.n /\ policy.req \in Int
  BY <1>1, <1>2 DEF PolicyType, None
<1>4. /\ Policy \in DynamicPolicies /\ ~Counting
  BY <1>1 DEF FeedbackDriven, DynamicPolicies, Counting, CountPolicies, Policy
<1>5. /\ Live /\ ~Answers(Pending, Current)
      /\ \A i \in DOMAIN workerQ : Open(workerQ[i].task.instrs)
  BY <1>1, <1>3, <1>4 DEF Protocol, Unfinished, Speculating, Policy
<1>6. Current = policy.req
  BY <1>4 DEF Current
<1>7. phase # "done" /\ resultQ = << >>
  BY <1>5 DEF Live
<1>8. /\ JobsLive(Pending, Current)
      /\ \A i \in DOMAIN workerQ : workerQ[i].type = "TASK" /\ workerQ[i].task.req = Current
  BY <1>1, <1>5, <1>7 DEF Protocol, Jobs, Tasks
<1>9. QED
  BY <1>1, <1>2, <1>3, <1>4, <1>5, <1>6, <1>7, <1>8

Blank == Pending = << >> /\ feedbackQ = << >> /\ events = {} /\ DOMAIN sessions = {}

LEMMA SpeculationSame ==
    ASSUME Speculation, config' = config, Speculates' => Speculates,
           UNCHANGED << policy, taskId, workerQ, feedbackQ, events, sessions, pc, monitorQ, task >>,
           Serving' /\ Single /\ Taken' = 0 => Blank
    PROVE  Speculation'
<1>1. /\ TotalLayers' = TotalLayers /\ AheadLayers' = AheadLayers /\ (Single' <=> Single)
      /\ NewSession' = NewSession /\ \A s : Cached(s, 1)' = Cached(s, 1)
  BY ConstantsSame
<1>2. Current' = Current
  BY UnderwaySame
<1>3. Sess' = Sess
  BY <1>1, <1>2 DEF Sess
<1>4. Reached' = Reached
  BY <1>1, <1>3 DEF Reached
<1>5. Pending' = Pending
  BY DEF Pending
<1>6. Flowing'
  <2>1. Known => Known'
    BY <1>2, <1>5 DEF Known
  <2>2. Approaches(policy.latest) => Approaches(policy.latest)'
    BY <1>5 DEF Approaches
  <2>3. QED
    BY <1>1, <2>1, <2>2 DEF Flowing, Speculation
<1>7. Polled'
  BY DEF Polled, Speculation
<1>8. Unbegun'
  BY <1>1, <1>5 DEF Unbegun, Blank
<1>9. Within'
  BY <1>1, <1>3, <1>4 DEF Within, Speculation
<1>10. QED
  BY <1>6, <1>7, <1>8, <1>9 DEF Speculation

(* Before the first request, and with no request speculating.               *)
LEMMA EarlySpeculation ==
    ASSUME ~Serving', pc' # "decide", events' = {} PROVE Speculation'
  BY DEF Speculation, Flowing, Polled, Unbegun, Within, Speculates

LEMMA InitSpeculation == ASSUME Init PROVE Speculation
<1>1. ~Serving /\ events = {}
  BY DEF Init, SchedulerInit, Serving
<1>2. QED
  BY <1>1 DEF Speculation, Flowing, Polled, Unbegun, Within, Speculates

LEMMA SyncSpeculates ==
    ASSUME Protocol, ReceiveTimeSync, config' = config PROVE Speculation'
<1>1. /\ phase = "sync"
      /\ UNCHANGED << feedbackQ, policy, events, pc, sessions, task, monitorQ >>
  BY DEF ReceiveTimeSync, schedulerVars, workerVars
<1>2. /\ feedbackQ = << >> /\ sessions = << >> /\ task = NoTask /\ monitorQ = << >>
      /\ events = {} /\ pc = "poll" /\ policy = NewPolicy
  BY <1>1 DEF Protocol, Starting, Serving, ReceiveTimeSync
<1>3. policy'.group = None
  BY <1>1, <1>2, NewPolicyType DEF Protocol, Types
<1>4. ~Speculates'
  BY <1>3 DEF Speculates, None
<1>5. Pending' = << >> \o << >>
  BY <1>1, <1>2, NoTaskType DEF Pending
<1>6. Pending' = << >>
  BY <1>5
<1>7. feedbackQ' = << >> /\ events' = {} /\ DOMAIN sessions' = {}
  BY <1>1, <1>2
<1>8. QED
  BY <1>4, <1>6, <1>7 DEF Speculation, Flowing, Polled, Unbegun, Within

LEMMA PatchSpeculates ==
    ASSUME Agreed, Protocol, Speculation, SendPatch, config' = config PROVE Speculation'
<1>1. /\ phase = "send" /\ todo # << >> /\ schedQ' = Append(schedQ, Head(todo))
      /\ todo' = Tail(todo) /\ phase' \in {"send", "wait"}
      /\ UNCHANGED << policy, taskId, workerQ, feedbackQ, events, sessions, pc, monitorQ, task,
                      buffer, request >>
  BY DEF SendPatch, workerVars
<1>2. Serving
  BY <1>1 DEF Serving
<1>3. /\ Size(config, request) \in Nat /\ Len(buffer) \in Nat
      /\ Len(schedQ) \in Nat /\ Len(todo) \in Nat
      /\ todo \in Seq(PatchRecord) /\ schedQ \in Seq(PatchRecord)
  BY <1>2, Serves DEF Protocol, Types
<1>4. Len(todo') = Len(todo) - 1 /\ Len(schedQ') = Len(schedQ) + 1
  <2> DEFINE P == PatchRecord
             x == Head(todo)
  <2>1. /\ todo \in Seq(P) /\ todo # << >> /\ schedQ \in Seq(P) /\ x \in P
        /\ todo' = Tail(todo) /\ schedQ' = Append(schedQ, x)
    BY <1>1, <1>3
  <2> HIDE DEF P, x
  <2>2. QED
    BY <2>1
<1>5. Taken' = Taken
  BY <1>1, <1>3, <1>4 DEF Taken
<1>6. Speculates' => Speculates
  BY <1>1, <1>2, ConstantsSame DEF Speculates
<1>7. Serving' /\ Single /\ Taken' = 0 => Blank
  BY <1>2, <1>5 DEF Speculation, Unbegun, Blank
<1>8. QED
  BY <1>1, <1>6, <1>7, SpeculationSame

LEMMA ResultSpeculates ==
    ASSUME Agreed, Protocol, Speculation, ReceiveResult, config' = config PROVE Speculation'
<1>1. /\ phase = "wait" /\ resultQ # << >>
      /\ UNCHANGED << policy, taskId, workerQ, feedbackQ, events, sessions, pc, monitorQ, task,
                      buffer, schedQ >>
      /\ request < MaxRequests \/ UNCHANGED << request, todo >>
  BY DEF ReceiveResult, workerVars
<1>2. Serving /\ request >= 1 /\ request \in Nat
  <2>1. Serving
    BY <1>1 DEF Serving
  <2>2. Given(config, request) /\ config.groupsOf \in Seq(Nat)
    BY PipelineAssumption DEF Protocol, Types, Given
  <2>3. QED
    BY <2>1, <2>2, Serves DEF Given
<1>3. ~Speculates
  BY <1>1, SpeculatesLive
<1>4. Speculates' => Speculates
  BY <1>1, <1>2, ConstantsSame DEF Speculates
<1>5. Single => Taken' = Taken
  BY <1>1, <1>2 DEF Single, Taken
<1>6. Serving' /\ Single /\ Taken' = 0 => Blank
  BY <1>2, <1>5 DEF Speculation, Unbegun, Blank
<1>7. QED
  BY <1>1, <1>4, <1>6, SpeculationSame

LEMMA ControlSpeculates ==
    ASSUME Protocol, Speculation, Configure \/ ForwardTimeSync \/ Stop, config' = config,
           UNCHANGED << workerVars, resultQ, clientVars >>
    PROVE  Speculation'
<1>1. /\ pc = "poll" /\ controlQ # << >> /\ (Stop <=> Head(controlQ) = "STOP")
      /\ pc' \in {"poll", "stopped"}
      /\ UNCHANGED << sessions, task, monitorQ, feedbackQ, events, schedQ, phase, request, todo >>
      /\ Stop => UNCHANGED << policy, taskId, buffer >> 
      /\ Head(controlQ) # "STOP" => ~Stop
  BY DEF Configure, ForwardTimeSync, Stop, Control, workerVars, clientVars
<1>2. events = {}
  BY <1>1 DEF Speculation, Polled
<1>3. CASE ~Serving'
  BY <1>1, <1>2, <1>3, EarlySpeculation
<1>4. CASE Serving'
  <2>1. Serving
    BY <1>1, <1>4 DEF Serving
  <2>2. phase = "done" /\ controlQ = << "STOP" >>
    BY <1>1, <2>1 DEF Protocol, Tasks
  <2>3. Stop
    BY <1>1, <2>2
  <2>4. ~Speculates
    BY <2>2, SpeculatesLive
  <2>5. Speculates' => Speculates
    BY <1>1, <2>1, <2>3, ConstantsSame DEF Speculates
  <2>6. ~Speculates'
    BY <2>4, <2>5
  <2>7. Taken' = Taken /\ Pending' = Pending
    BY <1>1, <2>3 DEF Taken, Pending
  <2>8. Unbegun'
    <3>1. Serving' /\ Single' /\ Taken' = 0 => Blank
      BY <2>1, <2>7, ConstantsSame DEF Speculation, Unbegun, Blank
    <3>2. QED
      BY <1>1, <2>7, <3>1 DEF Unbegun, Blank
  <2>9. QED
    BY <1>1, <1>2, <2>6, <2>8 DEF Speculation, Flowing, Polled, Within
<1>5. QED
  BY <1>3, <1>4

LEMMA StutterSpeculates ==
    ASSUME Speculation, config' = config, UNCHANGED vars PROVE Speculation'
<1>1. UNCHANGED << policy, taskId, workerQ, feedbackQ, events, sessions, pc, monitorQ, task,
                   buffer, schedQ, todo, request, phase >>
  BY DEF vars, schedulerVars, workerVars, clientVars
<1>2. (Serving' <=> Serving) /\ Taken' = Taken
  BY <1>1 DEF Serving, Taken
<1>3. Speculates' => Speculates
  BY <1>1, <1>2, ConstantsSame DEF Speculates
<1>4. Serving' /\ Single /\ Taken' = 0 => Blank
  BY <1>2 DEF Speculation, Unbegun, Blank
<1>5. QED
  BY <1>1, <1>3, <1>4, SpeculationSame

(* A pass drains patches and feedback: what was fed back is an event now.   *)
LEMMA DrainSpeculates ==
    ASSUME Agreed, Protocol, Speculation, NEW p, NEW f, Drain(p, f), config' = config,
           UNCHANGED << workerVars, resultQ, clientVars >>
    PROVE  Speculation'
<1>1. /\ pc = "poll" /\ p \in 0 .. Len(schedQ) /\ f \in 0 .. Len(feedbackQ)
      /\ buffer' = buffer \o SubSeq(schedQ, 1, p)
      /\ schedQ' = SubSeq(schedQ, p + 1, Len(schedQ))
      /\ feedbackQ' = SubSeq(feedbackQ, f + 1, Len(feedbackQ))
      /\ policy # NoPolicy => events' = {feedbackQ[i].layer : i \in 1 .. f}
      /\ policy = NoPolicy => events' = events /\ pc' = pc
      /\ UNCHANGED << workerQ, policy, taskId, sessions, task, monitorQ, resultQ, phase, request,
                      todo >>
  BY DEF Drain, workerVars, clientVars
<1>2. events = {}
  BY <1>1 DEF Speculation, Polled
<1>3. /\ feedbackQ \in Seq([req : Int, layer : 0 .. config.layers]) /\ config \in Configs
      /\ (Serving' <=> Serving)
  BY <1>1 DEF Protocol, Types, Serving
<1>4. Serving => policy # NoPolicy
  <2>1. Serving => policy.n # 0
    BY DEF Protocol, Types, PolicyType
  <2>2. NoPolicy.n = 0
    BY DEF NoPolicy, NewPolicy
  <2>3. QED
    BY <2>1, <2>2
<1>5. CASE ~Serving
  <2>1. schedQ = << >> /\ feedbackQ = << >>
    BY <1>5 DEF Protocol, Starting
  <2>2. p + f = 0
    BY <1>1, <2>1
  <2>3. QED
    BY <2>2 DEF Drain
<1>6. CASE Serving
  <2>1. /\ events' = {feedbackQ[i].layer : i \in 1 .. f}
        /\ TotalLayers' = TotalLayers /\ AheadLayers' = AheadLayers /\ (Single' <=> Single)
        /\ (FeedbackDriven' <=> FeedbackDriven)
        /\ NewSession' = NewSession /\ \A s : Cached(s, 1)' = Cached(s, 1)
    BY <1>1, <1>4, <1>6, ConstantsSame
  <2>2. Current' = Current /\ Pending' = Pending
    BY <1>1, UnderwaySame DEF Pending
  <2>3. Sess' = Sess
    BY <1>1, <2>1, <2>2 DEF Sess
  <2>4. Reached' = Reached /\ (Speculates' <=> Speculates)
    BY <1>1, <1>3, <2>1, <2>3 DEF Reached, Speculates
  <2>5. Taken' = Taken
    <3>1. /\ Size(config, request) \in Nat /\ Len(buffer) \in Nat
          /\ Len(schedQ) \in Nat /\ Len(todo) \in Nat
          /\ buffer \in Seq(PatchRecord) /\ schedQ \in Seq(PatchRecord)
      BY <1>6, Serves DEF Protocol, Types
    <3>2. Len(buffer') = Len(buffer) + p /\ Len(schedQ') = Len(schedQ) - p
      <4> DEFINE q == schedQ
                 a == buffer
                 x == SubSeq(q, 1, p)
      <4>1. q \in Seq(PatchRecord) /\ a \in Seq(PatchRecord) /\ p \in 0 .. Len(q)
            /\ buffer' = a \o SubSeq(q, 1, p) /\ schedQ' = SubSeq(q, p + 1, Len(q))
        BY <1>1, <3>1
      <4> HIDE DEF q, a
      <4>2. x \in Seq(PatchRecord) /\ Len(x) = p
        BY <4>1
      <4>3. Len(schedQ') = Len(q) - p
        BY <4>1
      <4> HIDE DEF x
      <4>4. Behind(buffer', a, x)
        BY <4>1 DEF Behind, x
      <4>5. Len(buffer') = Len(a) + Len(x)
        BY <4>1, <4>2, <4>4, QueueJoin
      <4>6. QED
        BY <4>2, <4>3, <4>5 DEF q, a
    <3>3. QED
      BY <1>1, <3>1, <3>2 DEF Taken
  <2>6. /\ \A i \in DOMAIN feedbackQ' : \E j \in DOMAIN feedbackQ : feedbackQ'[i] = feedbackQ[j]
        /\ \A i \in 1 .. f : i \in DOMAIN feedbackQ
        /\ feedbackQ = << >> => feedbackQ' = << >> /\ events' = {}
    <3> DEFINE q == feedbackQ
               F == [req : Int, layer : 0 .. config.layers]
               u == SubSeq(q, f + 1, Len(q))
    <3>1. q \in Seq(F) /\ f \in 0 .. Len(q) /\ u = feedbackQ'
          /\ events' = {q[i].layer : i \in 1 .. f}
      BY <1>1, <1>3, <2>1
    <3> HIDE DEF q, F
    <3>2. /\ u \in Seq(F) /\ Len(u) = Len(q) - f /\ \A i \in 1 .. Len(q) - f : u[i] = q[f + i]
          /\ DOMAIN u = 1 .. Len(q) - f /\ DOMAIN q = 1 .. Len(q) /\ Len(q) \in Nat
      BY <3>1
    <3> DEFINE m == Len(q)
    <3>0. m \in Nat /\ f \in 0 .. m
      BY <3>1, <3>2
    <3> HIDE DEF m
    <3>3. \A i \in 1 .. m - f : f + i \in 1 .. m
      BY <3>0
    <3>4. \A i \in 1 .. f : i \in 1 .. m
      BY <3>0
    <3>5. ASSUME q = << >> PROVE u = << >> /\ events' = {}
      <4>1. Len(q) = 0 /\ f = 0
        BY <3>1, <3>5
      <4>2. Len(u) = 0 /\ 1 .. f = {}
        BY <3>2, <4>1
      <4>3. events' = {}
        BY <3>1, <4>2
      <4>4. u \in Seq(F) /\ Len(u) = 0
        BY <3>2, <4>2
      <4> HIDE DEF u
      <4>5. u = << >>
        BY <4>4
      <4>6. QED
        BY <4>3, <4>5
    <3>6. \A i \in DOMAIN u : \E j \in DOMAIN q : u[i] = q[j]
      BY <3>2, <3>3 DEF m
    <3>7. \A i \in 1 .. f : i \in DOMAIN q
      BY <3>2, <3>4 DEF m
    <3>8. u = feedbackQ' /\ (q = << >> => u = << >> /\ events' = {})
      BY <3>1, <3>5
    <3> HIDE DEF u
    <3>9. QED
      BY <3>6, <3>7, <3>8 DEF q
  <2>7. Flowing'
    <3>1. Known => Known'
      BY <1>1, <2>2 DEF Known
    <3>2. ASSUME Approaches(policy.latest) PROVE Approaches(policy.latest)'
      <4> DEFINE l == policy.latest
                 q == feedbackQ
                 F == [req : Int, layer : 0 .. config.layers]
      <4>1. FedBack(q, l) => FedBack(feedbackQ', l) \/ \E e \in events' : e >= l
        <5>1. q \in Seq(F) /\ f \in 0 .. Len(q) /\ feedbackQ' = SubSeq(q, f + 1, Len(q))
              /\ events' = {q[i].layer : i \in 1 .. f}
          BY <1>1, <1>3, <2>1
        <5> HIDE DEF q, F, l
        <5>2. FedBack(q, l) => FedBack(feedbackQ', l) \/ \E i \in 1 .. f : q[i].layer >= l
          BY <5>1, FedBackDrain
        <5>3. QED
          BY <5>1, <5>2
      <4>2. QED
        BY <1>1, <1>2, <2>2, <3>2, <4>1 DEF Approaches
    <3>3. QED
      BY <1>1, <2>1, <2>4, <3>1, <3>2 DEF Flowing, Speculation
  <2>8. Polled'
    BY <1>1, <1>4, <1>6 DEF Polled, Drain
  <2>9. Unbegun'
    BY <1>1, <1>6, <2>1, <2>2, <2>5, <2>6 DEF Unbegun, Speculation
  <2>10. Within'
    BY <1>1, <2>1, <2>3, <2>4, <2>6 DEF Within, Speculation
  <2>11. QED
    BY <2>7, <2>8, <2>9, <2>10 DEF Speculation
<1>7. QED
  BY <1>5, <1>6

-----------------------------------------------------------------------------
(* The calls of the policy.  The policies that are not driven by every      *)
(* feedback promise nothing.                                                *)
LEMMA NotDriven ==
    ASSUME config' = config, ~FeedbackDriven, pc' # "decide" => events' = {}
    PROVE  Speculation'
<1>1. ~FeedbackDriven' /\ ~Single'
  BY ConstantsSame DEF Single
<1>2. QED
  BY <1>1 DEF Speculation, Flowing, Polled, Unbegun, Within, Speculates

(* The layer a call is told of is the last one of the events.               *)
LEMMA CompletedIs ==
    ASSUME Types
    PROVE  /\ events = {} => Completed = None
           /\ events # {} => Completed \in events /\ Completed \in Nat
           /\ \A e \in events : e <= Completed
<1>1. config.layers \in Nat /\ events \in SUBSET (0 .. config.layers)
  BY Configured DEF Types, TotalLayers
<1>2. CASE events = {}
  BY <1>2 DEF Completed
<1>3. CASE events # {}
  <2>1. PICK x \in events : TRUE
    BY <1>3
  <2>2. Max(events) \in events
    BY <1>1, <2>1, GreatestBelow
  <2>3. Completed = Max(events)
    BY <1>3 DEF Completed
  <2>4. \E x2 \in events : \A y \in events : x2 >= y
    <3> DEFINE R == {config.layers - y : y \in events}
    <3>1. R \in SUBSET Nat /\ config.layers - x \in R
      BY <1>1, <2>1
    <3>2. \E k \in R : \A m \in R : k <= m
      <4> HIDE DEF R
      <4>1. QED
        BY <3>1, LeastMember
    <3>3. PICK k \in R : \A m \in R : k <= m
      BY <3>2
    <3>4. PICK top \in events : k = config.layers - top
      BY <3>3
    <3>5. ASSUME NEW y \in events PROVE top >= y
      <4>1. config.layers - y \in R
        OBVIOUS
      <4>2. k <= config.layers - y
        BY <3>3, <4>1
      <4>3. QED
        BY <1>1, <3>4, <3>5, <4>2
    <3>6. QED
      BY <3>4, <3>5
  <2>5. \A y \in events : Max(events) >= y
    BY <2>4 DEF Max
  <2>6. Completed \in 0 .. config.layers /\ \A y \in events : y \in 0 .. config.layers
    BY <1>1, <2>2, <2>3
  <2>7. Completed \in Nat /\ \A y \in events : y <= Completed
    BY <1>1, <2>3, <2>5, <2>6
  <2>8. QED
    BY <1>3, <2>2, <2>3, <2>7
<1>4. QED
  BY <1>2, <1>3

LEMMA ReachedNat ==
    ASSUME config \in Configs, NEW s PROVE Cardinality(Cached(s, 1)) \in Nat
<1>1. TotalLayers \in Nat
  BY Configured
<1>2. IsFiniteSet(0 .. TotalLayers - 1)
  BY <1>1, FS_Interval
<1>3. Cached(s, 1) \subseteq 0 .. TotalLayers - 1
  BY DEF Cached, Layers
<1>4. QED
  BY <1>2, <1>3, FS_Subset, FS_CardinalityType

(* Nothing queued.                                                          *)
LEMMA DeclinedSpeculates ==
    ASSUME Protocol, Speculation, FeedbackDriven, AheadLayers > 0, Serving, config' = config,
           events = {} \/ MoreApprox(policy, Completed) = 0, events' = {},
           UNCHANGED << policy, taskId, workerQ, feedbackQ, sessions, monitorQ, task >>,
           UNCHANGED << buffer, schedQ, clientVars >>
    PROVE  Speculation'
<1>1. /\ TotalLayers' = TotalLayers /\ AheadLayers' = AheadLayers /\ (Single' <=> Single)
      /\ (FeedbackDriven' <=> FeedbackDriven)
      /\ NewSession' = NewSession /\ \A s : Cached(s, 1)' = Cached(s, 1)
  BY ConstantsSame
<1>2. Current' = Current /\ Pending' = Pending
  BY UnderwaySame DEF Pending
<1>3. Sess' = Sess
  BY <1>1, <1>2 DEF Sess
<1>4. (Serving' <=> Serving) /\ Taken' = Taken
  BY DEF Serving, Taken, clientVars
<1>5. Reached' = Reached /\ (Speculates' <=> Speculates)
  BY <1>1, <1>3, <1>4 DEF Reached, Speculates
<1>6. ASSUME Speculates, policy.latest < TotalLayers, NEW e \in events PROVE e < policy.latest
  <2>1. policy \in PolicyType(config) /\ config \in Configs
    BY <1>6, SpeculatesLive
  <2>2. /\ policy.group >= 0 /\ policy.group < policy.n /\ policy.latest \in 0 .. config.layers
        /\ policy.group \in Int /\ policy.n \in Nat
    BY <1>6, <2>1 DEF Speculates, PolicyType
  <2>3. /\ Completed \in Nat /\ e <= Completed /\ MoreApprox(policy, Completed) = 0
        /\ e \in 0 .. config.layers
    BY <1>6, CompletedIs DEF Protocol, Types
  <2> DEFINE j == MoreApprox(policy, Completed)
  <2>4. j = 0 => policy.latest = TotalLayers \/ AheadLayers + Completed <= policy.latest
    BY <2>1, <2>2, <2>3, MoreApproxIs
  <2>5. AheadLayers + Completed <= policy.latest /\ AheadLayers \in Nat
    BY <1>6, <2>1, <2>2, <2>3, <2>4, Configured DEF TotalLayers
  <2>6. QED
    BY <2>2, <2>3, <2>5
<1>7. Flowing'
  <2>1. Known => Known'
    BY <1>2 DEF Known
  <2>2. ASSUME Speculates, policy.latest < TotalLayers PROVE Approaches(policy.latest)'
    <3>1. Approaches(policy.latest)
      BY <2>2 DEF Speculation, Flowing
    <3>2. \A e \in events : e < policy.latest /\ e \in Int /\ policy.latest \in Int
      BY <1>6, <2>2, SpeculatesLive DEF Protocol, Types, PolicyType
    <3>3. ~ \E e \in events : e >= policy.latest
      BY <3>2
    <3>4. QED
      BY <1>2, <3>1, <3>3 DEF Approaches
  <2>3. QED
    BY <1>1, <1>5, <2>1, <2>2 DEF Flowing, Speculation
<1>8. Polled'
  BY DEF Polled
<1>9. Unbegun'
  BY <1>1, <1>2, <1>4 DEF Unbegun, Speculation
<1>10. Within'
  BY <1>1, <1>3, <1>5 DEF Within, Speculation
<1>11. QED
  BY <1>7, <1>8, <1>9, <1>10 DEF Speculation

(* A task queued.                                                           *)
Keeping(l, m) ==
    Brings(m.task.instrs, l) \/ (Approaches(l) /\ ~ \E e \in events : e >= l)
LEMMA QueuedSpeculates ==
    ASSUME Protocol, config' = config, pc' = "decide", events' = {},
           UNCHANGED << sessions, task, monitorQ, feedbackQ >>, ~(Taken' = 0),
           NEW m \in MessageOf(config), workerQ' = Append(workerQ, m),
           Speculates' => Known',
           Speculates' /\ policy'.latest < TotalLayers => Keeping(policy'.latest, m),
           Speculates' /\ Single /\ Sess'.active # {} =>
               /\ policy'.latest <= AheadLayers + Reached'
               /\ \A i \in DOMAIN monitorQ : Feeds(monitorQ[i]) => monitorQ[i].layer <= Reached'
               /\ \A i \in DOMAIN feedbackQ : feedbackQ[i].layer <= Reached'
    PROVE  Speculation'
<1>1. /\ TotalLayers' = TotalLayers /\ AheadLayers' = AheadLayers /\ (Single' <=> Single)
  BY ConstantsSame
<1>2. Pending' = Pending
  BY DEF Pending
<1>3. Flowing'
  <2>1. ASSUME Speculates', policy'.latest < TotalLayers PROVE Approaches(policy.latest)'
    <3> DEFINE l == policy'.latest
               M == MessageOf(config)
               q == workerQ
               u == Append(q, m)
    <3>1. q \in Seq(M) /\ m \in M /\ Keeping(l, m) /\ u = workerQ'
      BY <2>1 DEF Protocol, Types
    <3> HIDE DEF l, M, q
    <3>2. /\ Queued(q, l) => Queued(u, l)
          /\ Brings(m.task.instrs, l) => Queued(u, l)
      BY <3>1, QueuedAppend
    <3> HIDE DEF u
    <3>3. Queued(workerQ', l) \/ Issued(Pending', l) \/ FedBack(feedbackQ', l)
      BY <1>2, <3>1, <3>2 DEF Keeping, Approaches, q
    <3>4. QED
      BY <3>3 DEF Approaches, l
  <2>2. QED
    BY <1>1, <2>1 DEF Flowing
<1>4. Polled'
  BY DEF Polled
<1>5. Unbegun'
  BY DEF Unbegun
<1>6. Within'
  BY <1>1 DEF Within
<1>7. QED
  BY <1>3, <1>4, <1>5, <1>6 DEF Speculation

(* The plan of a group.                                                     *)
LEMMA GroupSpeculates ==
    ASSUME Agreed, Protocol, Holding, Speculation, Serving, CallPolicy, FeedbackDriven,
           AheadLayers > 0, GroupReady(buffer),
           config' = config, UNCHANGED << workerVars, resultQ, clientVars >>
    PROVE  Speculation'
<1> DEFINE n == config.groupsOf[request]
<1>0. Policy \notin CountPolicies /\ GroupReady(buffer) /\ buffer # << >>
  BY DEF FeedbackDriven, CountPolicies, GroupReady
<1>1. /\ ~Counting /\ config \in Configs /\ Given(config, request) /\ taskId \in Nat
      /\ phase # "done" /\ Taken # Size(config, request)
      /\ taskId' = taskId + 1
      /\ UNCHANGED << sessions, task, monitorQ, phase, request >>
      /\ \E k \in 0 .. n, begun \in PolicyType(config), done \in Int, m \in MessageOf(config) :
            Called(k, begun, done, m)
  BY <1>0, GroupCalled
<1>2. PICK k \in 0 .. n, begun \in PolicyType(config), done \in Int, m \in MessageOf(config) :
         Called(k, begun, done, m)
  BY <1>1
<1> DEFINE plan == PlanFor(begun, k, done)
           st == Ahead(begun, plan.latest)
           at == IF done = None THEN 0 ELSE done
<1>3. /\ AtHead(k) /\ done = Completed /\ (done = None \/ done >= 0)
      /\ begun = Admit(policy, PatchOf(config, request, k), taskId)
      /\ begun.req = IF k = 0 THEN taskId ELSE policy.req
      /\ begun.group = k
      /\ policy' = st
      /\ workerQ' = Append(workerQ, m)
      /\ m.task.instrs = plan.instrs
      /\ Taken' = Offset(config, request, k + 1)
      /\ Current' = begun.req /\ Current = policy.req
  BY <1>2 DEF Called
<1>4. /\ policy \in PolicyType(config) /\ Grouped /\ Types /\ policy.req \in Int
      /\ config.policy \notin PerImage => policy.n = config.groups
      /\ k > 0 => policy.req # None
      /\ k = 0 => ~Live
      /\ n \in Nat /\ k \in Nat /\ TotalLayers \in Nat /\ AheadLayers \in Nat
  <2>1. /\ policy \in PolicyType(config) /\ Grouped /\ Types
        /\ config.policy \notin PerImage => policy.n = config.groups
    BY DEF Protocol, Types, Holding
  <2>2. policy.req \in Int
    BY <2>1 DEF PolicyType
  <2>3. (k > 0 => policy.req # None) /\ (k = 0 => ~Live)
    BY <1>3 DEF AtHead
  <2>4. n \in Nat /\ TotalLayers \in Nat /\ AheadLayers \in Nat
    BY <1>1, GivenType, Configured
  <2>5. k \in Nat
    BY <2>4
  <2>6. QED
    BY <2>1, <2>2, <2>3, <2>4, <2>5
<1>5. k > 0 => /\ Live /\ k = policy.group + 1
               /\ (config.policy \in PerImage => policy.n = n)
  BY <1>1, <1>3, <1>4, NextGroup
<1>6. /\ begun.latest = IF k = 0 THEN 0 ELSE policy.latest
      /\ k > 0 => begun.n = policy.n
      /\ k \in Versions
  BY <1>0, <1>1, <1>3, <1>4, <1>5, BegunSo
<1>7. plan = FeedbackPlan(begun, k, done)
  BY DEF PlanFor, FeedbackDriven
<1> HIDE DEF plan
<1>8. st.latest = plan.latest /\ st.n = begun.n /\ st.group = k /\ st.req = begun.req
  BY <1>3, AheadFields
<1>9. ASSUME k < begun.n
      PROVE  /\ plan.latest = begun.latest \/ Brings(plan.instrs, plan.latest)
             /\ plan.latest = begun.latest \/ plan.latest <= AheadLayers + at
             /\ k = 0 \/ done # None =>
                   \/ plan.latest # begun.latest \/ begun.latest = TotalLayers
                   \/ AheadLayers + at <= begun.latest
             /\ k # 0 /\ done = None => plan.latest = begun.latest
             /\ plan.latest \in 0 .. TotalLayers
  <2>1. k \in 0 .. NumGroups
    BY <1>6 DEF Versions
  <2>2. /\ plan.latest \in begun.latest .. TotalLayers
        /\ plan.latest = begun.latest \/ Brings(plan.instrs, plan.latest)
        /\ plan.latest = begun.latest \/ plan.latest <= AheadLayers + at
        /\ k = 0 \/ done # None =>
              \/ plan.latest # begun.latest \/ begun.latest = TotalLayers
              \/ AheadLayers + at <= begun.latest
        /\ k # 0 /\ done = None => plan.latest = begun.latest
    BY <1>1, <1>3, <1>7, <1>9, <2>1, FeedbackPlanAhead
  <2>3. begun.latest \in 0 .. TotalLayers
    BY DEF PolicyType, TotalLayers
  <2>4. plan.latest \in 0 .. TotalLayers
    BY <1>4, <2>2, <2>3
  <2>5. QED
    BY <2>2, <2>4
<1> HIDE DEF st
<1>10. Speculates' => k < begun.n
  <2>1. policy'.group = k /\ policy'.n = begun.n /\ begun.n \in Nat
    BY <1>3, <1>8 DEF PolicyType
  <2>2. Speculates' => policy'.group \in 0 .. policy'.n - 1
    BY DEF Speculates
  <2>3. QED
    BY <1>4, <2>1, <2>2
<1>11. k > 0 /\ Speculates' => Speculates
  <2> SUFFICES ASSUME k > 0, Speculates' PROVE Speculates
    OBVIOUS
  <2>1. k = policy.group + 1 /\ begun.n = policy.n /\ k < begun.n
    BY <1>5, <1>6, <1>10
  <2>2. policy.group \in Int /\ policy.n \in Nat
    BY <1>4 DEF PolicyType
  <2>3. policy.group \in 0 .. policy.n - 1
    BY <1>4, <2>1, <2>2
  <2>4. QED
    BY <2>3 DEF Speculates
<1>12. /\ events = {} => done = None
       /\ events # {} => done \in events /\ done \in Nat
       /\ \A e \in events : e <= done
  BY <1>3, <1>4, CompletedIs
<1>13. pc' = "decide" /\ events' = {} /\ UNCHANGED feedbackQ
  <2>1. m \in {m} /\ workerQ' # workerQ
    <3> DEFINE q == workerQ
               M == MessageOf(config)
    <3>1. q \in Seq(M) /\ m \in M
      BY <1>4 DEF Types
    <3> HIDE DEF q, M
    <3>2. Append(q, m) # q
      BY <3>1, QueueGrows
    <3>3. QED
      BY <1>3, <3>2 DEF q
  <2>2. QED
    BY <2>1 DEF CallPolicy, queueVars
<1>14. ~(Taken' = 0)
  BY <1>1, <1>3, Serves DEF AtHead
<1>15. ASSUME k = 0
       PROVE  /\ \A i \in DOMAIN Pending : Pending[i].req # Current'
              /\ Sess' = NewSession
  <2>1. Current' = taskId /\ ~Live
    BY <1>3, <1>4, <1>15
  <2>2. Sess' = NewSession
    BY <1>1, <2>1, FreshPlace
  <2>3. JobsOver(Pending, Current) /\ Current \in {None} \cup 0 .. taskId - 1
    BY <1>1, <2>1 DEF Protocol, Jobs, Tasks
  <2>4. Current # taskId
    BY <1>1, <2>3 DEF None
  <2>5. \A i \in DOMAIN Pending : Pending[i].req = Current
    <3> DEFINE s == Pending
               J == JobType(config)
    <3>1. s \in Seq(J) /\ (s = << >> \/ (Len(s) = 1 /\ s[1].req = Current))
      BY <1>4, <2>3, PendingType DEF JobsOver
    <3> HIDE DEF s, J
    <3>2. \A i \in DOMAIN s : s[i].req = Current
      BY <3>1
    <3>3. QED
      BY <3>2 DEF s
  <2>6. QED
    BY <2>1, <2>2, <2>4, <2>5
<1>16. ASSUME k # 0, Speculates'
       PROVE  /\ Current' = Current /\ Sess' = Sess /\ Reached' = Reached /\ Speculates
              /\ begun.latest = policy.latest
  <2>1. Current' = Current /\ Speculates /\ begun.latest = policy.latest
    BY <1>3, <1>4, <1>6, <1>11, <1>16
  <2>2. NewSession' = NewSession /\ \A s : Cached(s, 1)' = Cached(s, 1)
    BY ConstantsSame
  <2>3. Sess' = Sess
    BY <1>1, <2>1, <2>2 DEF Sess
  <2>4. Reached' = Reached
    BY <2>2, <2>3 DEF Reached
  <2>5. QED
    BY <2>1, <2>3, <2>4
<1> HIDE DEF at
<1>17. Speculates' => Known'
  <2>1. Pending' = Pending
    BY <1>1 DEF Pending
  <2>2. CASE k = 0
    BY <1>15, <2>1, <2>2 DEF Known
  <2>3. CASE k # 0
    BY <1>1, <1>16, <2>1, <2>3 DEF Known, Speculation, Flowing
  <2>4. QED
    BY <2>2, <2>3
<1>18. ASSUME Speculates', policy'.latest < TotalLayers PROVE Keeping(policy'.latest, m)
  <2>1. policy'.latest = plan.latest /\ k < begun.n
    BY <1>3, <1>8, <1>10, <1>18
  <2>2. CASE plan.latest # begun.latest
    BY <1>3, <1>9, <2>1, <2>2 DEF Keeping
  <2>3. CASE plan.latest = begun.latest
    <3>1. begun.latest # TotalLayers /\ begun.latest \in Nat /\ begun.latest < TotalLayers
      BY <1>4, <1>9, <1>18, <2>1, <2>3
    <3>2. k = 0 \/ done # None => AheadLayers + at <= begun.latest
      BY <1>9, <2>1, <2>3, <3>1
    <3>3. at \in Nat /\ (done # None => at = done)
      BY <1>3 DEF at, None
    <3>4. k # 0
      BY <1>4, <1>6, <3>2, <3>3
    <3>5. Approaches(policy.latest) /\ begun.latest = policy.latest
      BY <1>16, <1>18, <3>1, <3>4 DEF Speculation, Flowing
    <3>6. ~ \E e \in events : e >= begun.latest
      <4> SUFFICES ASSUME NEW e \in events, e >= begun.latest PROVE FALSE
        OBVIOUS
      <4>1. done \in Nat /\ e <= done
        BY <1>12
      <4>2. e \in 0 .. config.layers
        BY <1>4 DEF Types
      <4>3. done # None
        BY <4>1 DEF None
      <4>4. QED
        BY <1>4, <3>1, <3>2, <3>3, <4>1, <4>2, <4>3
    <3>7. QED
      BY <2>1, <2>3, <3>5, <3>6 DEF Keeping
  <2>4. QED
    BY <2>2, <2>3
<1>19. ASSUME Speculates', Single, Sess'.active # {}
       PROVE  /\ policy'.latest <= AheadLayers + Reached'
              /\ \A i \in DOMAIN monitorQ : Feeds(monitorQ[i]) => monitorQ[i].layer <= Reached'
              /\ \A i \in DOMAIN feedbackQ : feedbackQ[i].layer <= Reached'
  <2>1. policy'.latest = plan.latest /\ k < begun.n
    BY <1>3, <1>8, <1>10, <1>19
  <2>2. CASE k = 0
    <3>1. Taken = 0
      BY <1>3, <2>2 DEF AtHead, Offset
    <3>2. Pending = << >> /\ feedbackQ = << >> /\ events = {}
      BY <1>19, <3>1 DEF Speculation, Unbegun
    <3>3. at = 0
      BY <1>12, <3>2 DEF at
    <3>4. plan.latest <= AheadLayers
      BY <1>4, <1>6, <1>9, <2>1, <2>2, <3>3
    <3>5. Reached' \in Nat
      <4>1. \A s : Cached(s, 1)' = Cached(s, 1)
        BY ConstantsSame
      <4>2. Reached' = Cardinality(Cached(Sess', 1))
        BY <4>1 DEF Reached
      <4>3. QED
        BY <1>1, <4>2, ReachedNat
    <3>6. monitorQ = << >>
      <4> DEFINE a == monitorQ
                 b == JobsOf(task)
                 J == JobType(config)
      <4>1. a \in Seq(J) /\ b \in Seq(J) /\ a \o b = << >>
        BY <1>4, <3>2, PendingType DEF Pending
      <4> HIDE DEF a, b, J
      <4>2. Len(a \o b) = Len(a) + Len(b) /\ Len(a) \in Nat /\ Len(b) \in Nat
        BY <4>1
      <4>3. Len(a \o b) = 0
        BY <4>1
      <4>4. Len(a) = 0
        BY <4>2, <4>3
      <4>5. a = << >>
        BY <4>1, <4>4
      <4>6. QED
        BY <4>5 DEF a
    <3>7. plan.latest <= AheadLayers + Reached'
      BY <1>4, <1>9, <2>1, <3>4, <3>5
    <3>8. QED
      BY <2>1, <3>2, <3>6, <3>7
  <2>3. CASE k # 0
    <3>1. /\ Sess' = Sess /\ Reached' = Reached /\ Speculates /\ begun.latest = policy.latest
      BY <1>16, <1>19, <2>3
    <3>2. /\ policy.latest <= AheadLayers + Reached
          /\ \A i \in DOMAIN monitorQ : Feeds(monitorQ[i]) => monitorQ[i].layer <= Reached
          /\ \A i \in DOMAIN feedbackQ : feedbackQ[i].layer <= Reached
          /\ \A e \in events : e <= Reached
      BY <1>19, <3>1 DEF Speculation, Within
    <3>3. plan.latest <= AheadLayers + Reached
      <4>1. CASE plan.latest = begun.latest
        BY <3>1, <3>2, <4>1
      <4>2. CASE plan.latest # begun.latest
        <5>1. done # None /\ plan.latest <= AheadLayers + at
          BY <1>9, <2>1, <2>3, <4>2
        <5>2. done \in Nat /\ done <= Reached /\ at = done
          BY <1>12, <3>2, <5>1 DEF at
        <5>3. Reached \in Nat
          BY <1>1, ReachedNat DEF Reached
        <5>4. plan.latest \in Nat
          BY <1>9, <2>1
        <5>5. QED
          BY <1>4, <5>1, <5>2, <5>3, <5>4
      <4>3. QED
        BY <4>1, <4>2
    <3>4. QED
      BY <2>1, <3>1, <3>2, <3>3
  <2>4. QED
    BY <2>2, <2>3
<1> HIDE DEF n
<1>20. QED
  BY <1>1, <1>2, <1>3, <1>13, <1>14, <1>17, <1>18, <1>19, QueuedSpeculates

(* Layers queued at a feedback.                                             *)
LEMMA FeedbackSpeculates ==
    ASSUME Agreed, Protocol, Speculation, Serving, CallPolicy, FeedbackDriven, ~GroupReady(buffer),
           Completed # None, MoreApprox(policy, Completed) > 0,
           config' = config, UNCHANGED << workerVars, resultQ, clientVars >>
    PROVE  Speculation'
<1>0. Policy \in DynamicPolicies
  BY DEF FeedbackDriven, DynamicPolicies
<1>1. /\ config \in Configs /\ policy \in PolicyType(config)
      /\ Live /\ Live' /\ Taken' = Taken /\ Current' = Current
      /\ UNCHANGED << sessions, task, monitorQ, resultQ, phase, request >>
      /\ \E j \in 0 .. TotalLayers - policy.latest, m \in MessageOf(config) :
            /\ policy' = Ahead(policy, policy.latest + j)
            /\ workerQ' = Append(workerQ, m)
            /\ m.task.instrs = SingleLayers(policy.latest, j)
            /\ j = MoreApprox(policy, Completed)
  BY <1>0, FeedbackCalled
<1>2. PICK j \in 0 .. TotalLayers - policy.latest, m \in MessageOf(config) :
         /\ policy' = Ahead(policy, policy.latest + j)
         /\ workerQ' = Append(workerQ, m)
         /\ m.task.instrs = SingleLayers(policy.latest, j)
         /\ j = MoreApprox(policy, Completed)
  BY <1>1
<1>3. /\ policy'.latest = policy.latest + j /\ policy'.n = policy.n /\ policy'.group = policy.group
      /\ policy.latest \in 0 .. TotalLayers /\ TotalLayers \in Nat /\ AheadLayers \in Nat
  BY <1>1, <1>2, AheadFields, Configured DEF PolicyType, TotalLayers
<1>4. /\ events # {} /\ Completed \in events /\ Completed \in Nat
  BY CompletedIs DEF Protocol
<1>5. pc' = "decide" /\ events' = {} /\ UNCHANGED feedbackQ
  <2>1. workerQ' # workerQ
    <3> DEFINE q == workerQ
               M == MessageOf(config)
    <3>1. q \in Seq(M) /\ m \in M
      BY <1>2 DEF Protocol, Types
    <3> HIDE DEF q, M
    <3>2. Append(q, m) # q
      BY <3>1, QueueGrows
    <3>3. QED
      BY <1>2, <3>2 DEF q
  <2>2. QED
    BY <2>1 DEF CallPolicy, queueVars
<1>6. ~(Taken' = 0)
  BY <1>1 DEF Live
<1>7. Speculates' => Speculates
  BY <1>1, <1>3 DEF Speculates
<1>8. Speculates' => Known'
  <2>1. Pending' = Pending
    BY <1>1 DEF Pending
  <2>2. QED
    BY <1>1, <1>7, <2>1 DEF Known, Speculation, Flowing
<1>9. Keeping(policy'.latest, m)
  <2>1. Brings(SingleLayers(policy.latest, j), policy.latest + j)
    BY <1>1, <1>2, <1>3, SinglesBring
  <2>2. QED
    BY <1>2, <1>3, <2>1 DEF Keeping
<1>10. ASSUME Speculates', Single, Sess'.active # {}
       PROVE  /\ policy'.latest <= AheadLayers + Reached'
              /\ \A i \in DOMAIN monitorQ : Feeds(monitorQ[i]) => monitorQ[i].layer <= Reached'
              /\ \A i \in DOMAIN feedbackQ : feedbackQ[i].layer <= Reached'
  <2>1. NewSession' = NewSession /\ \A s : Cached(s, 1)' = Cached(s, 1)
    BY ConstantsSame
  <2>2. Sess' = Sess
    BY <1>1, <2>1 DEF Sess
  <2>3. Reached' = Reached
    BY <2>1, <2>2 DEF Reached
  <2>4. /\ \A i \in DOMAIN monitorQ : Feeds(monitorQ[i]) => monitorQ[i].layer <= Reached
        /\ \A i \in DOMAIN feedbackQ : feedbackQ[i].layer <= Reached
        /\ \A e \in events : e <= Reached
    BY <1>7, <1>10, <2>2 DEF Speculation, Within
  <2>5. policy.latest + j <= AheadLayers + Completed
    <3>1. policy.group >= 0 /\ policy.group < policy.n
      <4>1. policy.group \in Int /\ policy.n \in Nat
        BY <1>1 DEF PolicyType
      <4>2. QED
        BY <1>7, <1>10, <4>1 DEF Speculates
    <3> DEFINE k == MoreApprox(policy, Completed)
    <3>2. k = 0 \/ policy.latest + k <= AheadLayers + Completed
      BY <1>1, <1>4, <3>1, MoreApproxIs
    <3>3. k = j /\ k > 0
      BY <1>2
    <3> HIDE DEF k
    <3>4. QED
      BY <3>2, <3>3
  <2>6. Completed <= Reached /\ Reached \in Nat
    BY <1>1, <1>4, <2>4, ReachedNat DEF Reached
  <2>7. policy.latest + j <= AheadLayers + Reached
    BY <1>2, <1>3, <1>4, <2>5, <2>6
  <2>8. QED
    BY <1>3, <2>3, <2>4, <2>7
<1>11. QED
  BY <1>1, <1>2, <1>5, <1>6, <1>8, <1>9, <1>10, QueuedSpeculates

(* Every configuration that speculates on feedback goes ahead of it.        *)
Eager == \A c \in Configs : c.policy \in {"ADE20KInterleavedDynamic", "COCOWindowDynamic"} => c.ahead > 0

LEMMA CallSpeculates ==
    ASSUME Agreed, Eager, Protocol, Holding, Speculation, CallPolicy,
           config' = config, UNCHANGED << workerVars, resultQ, clientVars >>
    PROVE  Speculation'
<1>1. pc = "decide" /\ events' = {} /\ config \in Configs
  BY DEF CallPolicy, Protocol, Types
<1>2. Serving
  BY <1>1 DEF Protocol, Starting
<1>3. CASE ~FeedbackDriven
  BY <1>1, <1>3, NotDriven
<1>4. CASE FeedbackDriven
  <2>0. AheadLayers > 0
    BY <1>1, <1>4 DEF Eager, AheadLayers, FeedbackDriven, Policy
  <2>1. CASE GroupReady(buffer)
    BY <1>2, <1>4, <2>0, <2>1, GroupSpeculates
  <2>2. CASE ~GroupReady(buffer) /\ Completed # None /\ MoreApprox(policy, Completed) > 0
    BY <1>2, <1>4, <2>0, <2>2, FeedbackSpeculates
  <2>3. CASE ~GroupReady(buffer) /\ ~(Completed # None /\ MoreApprox(policy, Completed) > 0)
    <3>1. DecideFeedback(policy, Completed, taskId) = Answer(policy, NoTask)
      BY <2>3 DEF DecideFeedback
    <3>2. Policy \notin CountPolicies
      BY <1>4 DEF FeedbackDriven, CountPolicies
    <3>3. Decide(policy, buffer, Completed, taskId) = Answer(policy, NoTask)
      BY <2>3, <3>1, <3>2 DEF Decide
    <3>4. Answer(policy, NoTask).st = policy /\ Answer(policy, NoTask).task = NoTask
      BY DEF Answer
    <3>5. policy' = policy /\ UNCHANGED << queueVars, buffer, taskId, workerQ >>
      BY <3>3, <3>4 DEF CallPolicy
    <3>6. events = {} \/ MoreApprox(policy, Completed) = 0
      <4> SUFFICES ASSUME events # {} PROVE MoreApprox(policy, Completed) = 0
        OBVIOUS
      <4>1. Completed \in Nat /\ Completed # None
        BY CompletedIs DEF Protocol, None
      <4>2. ~(MoreApprox(policy, Completed) > 0)
        BY <2>3, <4>1
      <4>3. policy \in PolicyType(config)
        BY <1>2 DEF Protocol, Types
      <4>4. CASE policy.group = None \/ policy.group >= policy.n
        BY <4>4 DEF MoreApprox
      <4>5. CASE ~(policy.group = None \/ policy.group >= policy.n)
        <5>1. MoreApprox(policy, Completed) \in 0 .. TotalLayers - policy.latest
          BY <1>1, <4>1, <4>3, MoreApproxType
        <5>2. MoreApprox(policy, Completed) \in Nat
          BY <1>1, <4>3, <5>1, Configured DEF PolicyType, TotalLayers
        <5> DEFINE k == MoreApprox(policy, Completed)
        <5>3. k \in Nat /\ ~(k > 0)
          BY <4>2, <5>2
        <5> HIDE DEF k
        <5>4. k = 0
          BY <5>3
        <5>5. QED
          BY <5>4 DEF k
      <4>6. QED
        BY <4>4, <4>5
    <3>7. UNCHANGED << policy, taskId, workerQ, feedbackQ, sessions, monitorQ, task, buffer,
                       schedQ, clientVars >>
      BY <3>5 DEF queueVars, workerVars
    <3>8. QED
      BY <1>1, <1>2, <1>4, <2>0, <3>6, <3>7, DeclinedSpeculates
  <2>4. QED
    BY <2>1, <2>2, <2>3
<1>5. QED
  BY <1>3, <1>4

-----------------------------------------------------------------------------
(* The worker.  A task taken: what was queued is launched next.             *)
LEMMA TakeSpeculates ==
    ASSUME Agreed, Protocol, Speculation, TakeMessage, config' = config PROVE Speculation'
<1> DEFINE M == MessageOf(config)
           msg == Head(workerQ)
           t == msg.task
<1>1. /\ task = NoTask /\ workerQ # << >> /\ workerQ' = Tail(workerQ)
      /\ UNCHANGED << schedQ, feedbackQ, buffer, policy, events, taskId, pc, monitorQ, phase,
                      request, todo >>
  BY DEF TakeMessage, queueVars, clientVars
<1>2. (Serving' <=> Serving) /\ (pc' # "decide" => events' = {})
  BY <1>1 DEF Serving, Speculation, Polled
<1>3. CASE ~FeedbackDriven
  BY <1>2, <1>3, NotDriven
<1>4. CASE ~Serving
  <2>1. pc = "poll" /\ events = {}
    BY <1>4 DEF Protocol, Starting
  <2>2. QED
    BY <1>1, <1>2, <1>4, <2>1, EarlySpeculation
<1>5. workerQ \in Seq(M) /\ 1 \in DOMAIN workerQ /\ msg = workerQ[1] /\ msg \in M
  <2>1. workerQ \in Seq(M)
    BY DEF Protocol, Types
  <2> HIDE DEF M
  <2>2. QED
    BY <1>1, <2>1, QueueFirst
<1> HIDE DEF M
<1>6. /\ TotalLayers' = TotalLayers /\ AheadLayers' = AheadLayers /\ (Single' <=> Single)
      /\ NewSession' = NewSession /\ \A s : Cached(s, 1)' = Cached(s, 1)
      /\ Taken' = Taken /\ Current' = Current /\ (Speculates' <=> Speculates)
  BY <1>1, <1>2, ConstantsSame, UnderwaySame DEF Taken, Speculates
<1>7. Polled'
  BY <1>2 DEF Polled
<1>8. CASE Serving /\ phase = "done"
  <2>1. msg = Message("STOP")
    BY <1>5, <1>8 DEF Protocol, Tasks
  <2>2. sessions' = sessions /\ task' = task
    BY <2>1 DEF TakeMessage, Message
  <2>3. Pending' = Pending
    BY <1>1, <2>2 DEF Pending
  <2>4. ~Speculates'
    BY <1>6, <1>8, SpeculatesLive
  <2>5. Unbegun'
    BY <1>1, <1>2, <1>6, <2>2, <2>3 DEF Unbegun, Speculation
  <2>6. QED
    BY <1>7, <2>4, <2>5 DEF Speculation, Flowing, Within
<1>9. CASE Serving /\ phase # "done"
  <2>1. msg.type = "TASK" /\ Live /\ t.req = Current
    BY <1>5, <1>9 DEF Protocol, Tasks
  <2>2. /\ task' = t
        /\ sessions' = IF t.req \in DOMAIN sessions THEN sessions ELSE Kept(t.req, NewSession)
    BY <2>1 DEF TakeMessage
  <2>3. t \in TaskOf(config)
    BY <1>5 DEF M, MessageOf
  <2>4. Sess' = Sess /\ Current \in DOMAIN sessions'
    BY <1>6, <2>1, <2>2 DEF Sess, Kept
  <2>5. Reached' = Reached
    BY <1>6, <2>4 DEF Reached
  <2>6. ~(Taken' = 0)
    BY <1>6, <2>1 DEF Live
  <2> DEFINE J == JobType(config)
             q == monitorQ
             b == JobsOf(t)
             s == Pending'
  <2>7. q \in Seq(J) /\ b \in Seq(J) /\ Behind(s, q, b)
    BY <1>1, <2>2, <2>3, JobsOfType DEF Protocol, Types, Pending, Behind
  <2>8. Pending = q
    <3>1. Pending = q \o << >>
      BY <1>1, NoTaskType DEF Pending
    <3>2. q \in Seq(J)
      BY <2>7
    <3> HIDE DEF q, J
    <3>3. q \o << >> = q
      BY <3>2
    <3>4. QED
      BY <3>1, <3>3
  <2> HIDE DEF J, msg
  <2>9. ASSUME NEW l, Approaches(l) PROVE Queued(workerQ', l) \/ Issued(s, l) \/ FedBack(feedbackQ', l) \/ \E e \in events' : e >= l
    <3>1. Queued(workerQ, l) => Brings(t.instrs, l) \/ Queued(workerQ', l)
      <4> DEFINE p == workerQ
      <4>1. p \in Seq(M) /\ p # << >> /\ workerQ' = Tail(p) /\ t = p[1].task
        BY <1>1, <1>5
      <4> HIDE DEF p
      <4>2. Queued(p, l) => Brings(p[1].task.instrs, l) \/ Queued(Tail(p), l)
        BY <4>1, QueuedTail
      <4>3. QED
        BY <4>1, <4>2 DEF p
    <3> DEFINE u == t
    <3> HIDE DEF u
    <3>2. Brings(u.instrs, l) => Issued(JobsOf(u), l)
      BY JobsBring
    <3>3. Issued(q, l) \/ Issued(b, l) => Issued(s, l)
      <4> HIDE DEF q, b, s
      <4>1. QED
        BY <2>7, IssuedJoin
    <3>4. QED
      BY <1>1, <2>8, <2>9, <3>1, <3>2, <3>3 DEF Approaches, u
  <2>10. Flowing'
    <3>1. Approaches(policy.latest) => Approaches(policy.latest)'
      BY <1>1, <2>9 DEF Approaches
    <3>2. Known'
      BY <1>6, <2>4 DEF Known
    <3>3. QED
      BY <1>1, <1>6, <3>1, <3>2 DEF Flowing, Speculation
  <2>11. Within'
    BY <1>1, <1>6, <2>4, <2>5 DEF Within, Speculation
  <2>12. Unbegun'
    BY <2>6 DEF Unbegun
  <2>13. QED
    BY <1>7, <2>10, <2>11, <2>12 DEF Speculation
<1>10. QED
  BY <1>3, <1>4, <1>8, <1>9

(* While images are left, the layers cached are those of the stage.         *)
LEMMA MatchReach ==
    ASSUME config \in Configs, NEW a \in Stages, NEW s, Match(s, a), s.active # {}
    PROVE  Cardinality(Cached(s, 1)) = a.l /\ a.l \in Nat
<1>1. /\ TotalLayers \in Nat \ {0} /\ Layers = 0 .. TotalLayers - 1 /\ NumGroups \in Nat
      /\ Versions = 0 .. NumGroups /\ None = -1 /\ 1 \in Regions
  BY Sizes
<1>2. CachesOK(s, a) /\ a.l \in 0 .. TotalLayers
  BY DEF Match, State, Stages, StageType
<1>3. None \notin Versions
  BY <1>1
<1>4. \A l \in Layers : l \in Cached(s, 1) <=> l < a.l
  BY <1>1, <1>2, <1>3 DEF Cached, CachesOK
<1> DEFINE c == Cached(s, 1)
<1>5. c \subseteq 0 .. TotalLayers - 1 /\ \A l \in 0 .. TotalLayers - 1 : l \in c <=> l < a.l
  BY <1>1, <1>4 DEF Cached
<1> HIDE DEF c
<1>6. c = 0 .. a.l - 1
  <2>1. \A l \in 0 .. a.l - 1 : l \in 0 .. TotalLayers - 1 /\ l < a.l
    BY <1>1, <1>2
  <2>2. \A l \in 0 .. TotalLayers - 1 : l < a.l => l \in 0 .. a.l - 1
    BY <1>1, <1>2
  <2>3. QED
    BY <1>5, <2>1, <2>2
<1>7. 0 \in Int /\ a.l - 1 \in Int /\ a.l \in Nat
  BY <1>1, <1>2
<1>8. Cardinality(0 .. a.l - 1) = IF 0 > a.l - 1 THEN 0 ELSE (a.l - 1) - 0 + 1
  BY <1>7, FS_Interval
<1>9. QED
  BY <1>6, <1>7, <1>8 DEF c

(* An instruction only adds to them, an approximation up to its last layer. *)
LEMMA MatchReaches ==
    ASSUME config \in Configs, NEW a \in Stages, NEW s \in SessionType, Match(s, a),
           NEW i, NEW v, Allowed(a, i, v), NEW exits \in Exits(s, i),
           NEW t, t = Dispatch(s, i, v, exits), t.active # {}
    PROVE  /\ s.active # {}
           /\ Cardinality(Cached(s, 1)) <= Cardinality(Cached(t, 1))
           /\ i.op = "APPROX_FORWARD" /\ ~i.global => i.hi <= Cardinality(Cached(t, 1))
<1> DEFINE b == After(a, i, v)
<1>1. s.active # {}
  <2> SUFFICES ASSUME s.active = {} PROVE FALSE
    OBVIOUS
  <2>1. CASE i.op \in Skippable
    BY <2>1, SkippedIs DEF Skipped
  <2>2. CASE i.op \notin Skippable
    <3>1. ~Skipped(s, i)
      BY <2>2 DEF Skipped
    <3>2. i.op \in {"EXIT_ALL", "SEND_RESPONSE", "FREE_SESSION"}
      BY <2>2 DEF Allowed, Skippable
    <3>3. t = Finalized(s, Collect(s), {}) \/ t = Finalized(s, Collect(s), s.active) \/ t = s
      BY <3>1, <3>2, DispatchIs
    <3>4. QED
      BY <3>3 DEF Finalized, SessionType
  <2>3. QED
    BY <2>1, <2>2
<1>2. t \in SessionType /\ Match(t, b)
  <2> HIDE DEF b
  <2>1. b = After(a, i, v)
    BY DEF b
  <2>2. QED
    BY <2>1, MatchKeeps
<1>3. b.l >= a.l /\ (i.op = "APPROX_FORWARD" /\ ~i.global => b.l = i.hi)
  <2>1. a \in StageType /\ TotalLayers \in Nat /\ a.l \in Nat
    BY Sizes DEF Stages, StageType
  <2>2. CASE i.op = "APPROX_FORWARD" /\ ~i.global
    <3>1. b = Approximating(a, i.hi)
      BY <2>2 DEF After
    <3>2. b.l = i.hi
      BY <2>1, <3>1 DEF Approximating, StageType
    <3>3. i.hi \in a.l .. TotalLayers
      BY <2>2 DEF Allowed, ApproxAllowed
    <3>4. QED
      BY <2>1, <3>2, <3>3
  <2>3. CASE ~(i.op = "APPROX_FORWARD" /\ ~i.global)
    <3>1. b.l = a.l
      <4>1. Loading(a, v).l = a.l /\ Preparing(a).l = a.l /\ Covering(a).l = a.l
        BY <2>1 DEF Loading, Preparing, Covering, StageType
      <4>2. /\ Correcting(a).l = a.l /\ Delivering(a).l = a.l
            /\ \A d : Producing(a, d).l = a.l
        BY <2>1 DEF Correcting, Producing, Delivering, StageType
      <4>3. /\ i.op = "LOAD_INPUT" => b = Loading(a, v)
            /\ i.op = "PREPARE_TOKENS" => b = Preparing(a)
            /\ i.op = "CORRECT_FORWARD" => b = Correcting(a)
            /\ i.op = "HEAD_INFERENCE" => b = Producing(a, a.l)
            /\ i.op = "FULL_INFERENCE" => b = Producing(a, TotalLayers)
            /\ i.op \in {"EXIT_ALL", "SEND_RESPONSE"} => b = Delivering(a)
            /\ i.op \in {"DECIDE_EXIT", "FREE_SESSION"} => b = a
        BY DEF After
      <4>4. i.op = "APPROX_FORWARD" => b = Covering(a)
        BY <2>3 DEF After
      <4>5. i.op \in {"LOAD_INPUT", "PREPARE_TOKENS", "APPROX_FORWARD", "CORRECT_FORWARD",
                      "HEAD_INFERENCE", "FULL_INFERENCE", "EXIT_ALL", "SEND_RESPONSE",
                      "DECIDE_EXIT", "FREE_SESSION"}
        <5>1. i.op \notin Skippable => i.op \in {"EXIT_ALL", "SEND_RESPONSE", "FREE_SESSION"}
          BY DEF Allowed, Skippable
        <5>2. QED
          BY <5>1 DEF Skippable
      <4> HIDE DEF b
      <4>6. QED
        BY <4>1, <4>2, <4>3, <4>4, <4>5
    <3>2. QED
      BY <2>1, <2>3, <3>1
  <2>4. QED
    BY <2>2, <2>3
<1>4. b \in Stages
  BY AfterType DEF b
<1> HIDE DEF b
<1>5. Cardinality(Cached(s, 1)) = a.l /\ Cardinality(Cached(t, 1)) = b.l /\ a.l \in Nat /\ b.l \in Nat
  BY <1>1, <1>2, <1>4, MatchReach
<1>6. QED
  BY <1>1, <1>3, <1>5

(* An instruction launched: its layer is as far as the session has got.     *)
LEMMA LaunchSpeculates ==
    ASSUME Agreed, Protocol, Holding, Speculation, Launch, config' = config PROVE Speculation'
<1>1. /\ Serving /\ task # NoTask /\ task \in TaskOf(config) /\ task.instrs # << >>
      /\ UNCHANGED << schedQ, feedbackQ, workerQ, buffer, policy, events, taskId, pc, phase,
                      request, todo >>
      /\ (Live /\ task.req = Current) \/ Instruction.op = "FREE_SESSION"
  BY LaunchOf, NextJob
<1>2. ~Raises(Context, Instruction)
  BY <1>1, NoRaise
<1> DEFINE v == Newest(task.payload)
           j == Job(Instruction)
           J == JobType(config)
<1>3. PICK exits \in Exits(Context, Instruction) :
         sessions' = Kept(task.req, Dispatch(Context, Instruction, v, exits))
  BY <1>2 DEF Launch
<1> DEFINE t == Dispatch(Context, Instruction, v, exits)
<1>4. /\ monitorQ' = Append(monitorQ, j) /\ j = JobOf(Head(task.instrs), task)
      /\ task' = IF Len(task.instrs) = 1 THEN NoTask ELSE [task EXCEPT !.instrs = Tail(@)]
      /\ j.op = Instruction.op /\ j.global = Instruction.global /\ j.layer = Instruction.hi
  BY <1>2 DEF Launch, Job, JobOf, Instruction
<1>5. monitorQ \in Seq(J) /\ j \in J /\ Pending' = Pending
  <2>1. monitorQ \in Seq(J)
    BY DEF Protocol, Types
  <2>2. /\ JobOf(Head(task.instrs), task) \in J
        /\ Append(monitorQ, JobOf(Head(task.instrs), task)) \o JobsOf(task') = monitorQ \o JobsOf(task)
    BY <1>1, <1>4, <2>1, Launched
  <2>3. QED
    BY <1>4, <2>1, <2>2 DEF Pending
<1>6. Pending # << >>
  <2> DEFINE s == Pending
  <2>1. Len(s) > 0 /\ s \in Seq(J)
    <3>1. /\ Len(s) = Len(monitorQ) + Len(task.instrs) /\ Len(task.instrs) > 0
          /\ Len(monitorQ) \in Nat /\ Len(task.instrs) \in Nat /\ s \in Seq(J)
      BY LaunchOf
    <3> HIDE DEF s, J
    <3>2. QED
      BY <3>1
  <2> HIDE DEF s, J
  <2>2. s # << >>
    BY <2>1
  <2>3. QED
    BY <2>2 DEF s
<1> HIDE DEF j, J, v
<1>7. /\ TotalLayers' = TotalLayers /\ AheadLayers' = AheadLayers /\ (Single' <=> Single)
      /\ NewSession' = NewSession /\ \A s : Cached(s, 1)' = Cached(s, 1)
      /\ (Serving' <=> Serving) /\ Taken' = Taken /\ Current' = Current
      /\ (Speculates' <=> Speculates)
  BY <1>1, ConstantsSame, UnderwaySame DEF Taken, Speculates, Serving
<1>8. Known => Known'
  <2>1. \A q \in DOMAIN sessions : q \in DOMAIN sessions'
    BY <1>3 DEF Kept
  <2>2. QED
    BY <1>5, <1>7, <2>1 DEF Known
<1>9. Flowing'
  <2>1. Approaches(policy.latest) => Approaches(policy.latest)'
    BY <1>1, <1>5 DEF Approaches
  <2>2. QED
    BY <1>1, <1>7, <1>8, <2>1 DEF Flowing, Speculation
<1>10. Polled'
  BY <1>1 DEF Polled, Speculation
<1>11. Unbegun'
  BY <1>1, <1>6, <1>7 DEF Unbegun, Speculation
<1>12. ASSUME Speculates, Single, Sess'.active # {}
       PROVE  /\ Sess.active # {} /\ Reached \in Nat /\ Reached' \in Nat /\ Reached <= Reached'
              /\ Feeds(j) => j.layer <= Reached'
  <2>1. Reached' = Cardinality(Cached(Sess', 1))
    BY <1>7 DEF Reached
  <2>2. config \in Configs
    BY DEF Protocol, Types
  <2>3. Reached \in Nat /\ Reached' \in Nat
    BY <2>1, <2>2, ReachedNat DEF Reached
  <2>4. CASE Live /\ task.req = Current
    <3>1. Context = Sess /\ Sess \in SessionType
      BY <1>1, <2>4, MineCourse
    <3>2. PICK a : Due(Context, a, v)
      BY <1>1, <2>4, MineNext DEF v
    <3>3. Sess' = t
      BY <1>3, <1>7, <2>4 DEF Sess, Kept
    <3> DEFINE s == Context
               i == Instruction
    <3>4. /\ s \in SessionType /\ a \in Stages /\ Match(s, a) /\ Allowed(a, i, v)
          /\ exits \in Exits(s, i) /\ t = Dispatch(s, i, v, exits) /\ t.active # {}
      BY <1>12, <3>1, <3>2, <3>3 DEF Due
    <3> HIDE DEF s, i, t
    <3>5. /\ s.active # {}
          /\ Cardinality(Cached(s, 1)) <= Cardinality(Cached(t, 1))
          /\ i.op = "APPROX_FORWARD" /\ ~i.global => i.hi <= Cardinality(Cached(t, 1))
      BY <2>2, <3>4, MatchReaches
    <3>6. QED
      BY <1>4, <2>1, <2>3, <3>1, <3>3, <3>5 DEF Reached, Feeds, s, i
  <2>5. CASE ~(Live /\ task.req = Current)
    <3>1. Instruction.op = "FREE_SESSION" /\ Live
      BY <1>1, <1>12, <2>5, SpeculatesLive
    <3>2. Sess' = Sess
      BY <1>3, <1>7, <2>5, <3>1 DEF Sess, Kept
    <3>3. ~Feeds(j)
      BY <1>4, <3>1 DEF Feeds
    <3>4. Reached' = Reached
      BY <2>1, <3>2 DEF Reached
    <3>5. QED
      BY <1>12, <2>3, <3>2, <3>3, <3>4
  <2>6. QED
    BY <2>4, <2>5
<1>13. Within'
  <2> SUFFICES ASSUME Speculates, Single, Sess'.active # {}
               PROVE  /\ policy.latest <= AheadLayers + Reached'
                      /\ \A i \in DOMAIN monitorQ' :
                            Feeds(monitorQ'[i]) => monitorQ'[i].layer <= Reached'
                      /\ \A i \in DOMAIN feedbackQ : feedbackQ[i].layer <= Reached'
                      /\ \A e \in events : e <= Reached'
    BY <1>1, <1>7 DEF Within
  <2>1. /\ Sess.active # {} /\ Reached \in Nat /\ Reached' \in Nat /\ Reached <= Reached'
        /\ Feeds(j) => j.layer <= Reached'
    BY <1>12
  <2>2. /\ policy.latest <= AheadLayers + Reached
        /\ \A i \in DOMAIN monitorQ : Feeds(monitorQ[i]) => monitorQ[i].layer <= Reached
        /\ \A i \in DOMAIN feedbackQ : feedbackQ[i].layer <= Reached
        /\ \A e \in events : e <= Reached
    BY <2>1 DEF Speculation, Within
  <2>3. /\ policy.latest \in Int /\ AheadLayers \in Nat
        /\ \A i \in DOMAIN monitorQ : monitorQ[i].layer \in Int
        /\ \A i \in DOMAIN feedbackQ : feedbackQ[i].layer \in Int
        /\ \A e \in events : e \in Int
    <3>1. config \in Configs /\ config.layers \in Nat
      BY Configured DEF Protocol, Types, TotalLayers
    <3>2. policy.latest \in Int /\ AheadLayers \in Nat
      BY <1>1, <3>1, Configured DEF Protocol, Types, PolicyType
    <3>3. ASSUME NEW i \in DOMAIN monitorQ PROVE monitorQ[i].layer \in Int
      <4>1. monitorQ[i] \in J
        BY <1>5
      <4>2. QED
        BY <3>1, <4>1 DEF J, JobType
    <3>4. ASSUME NEW i \in DOMAIN feedbackQ PROVE feedbackQ[i].layer \in Int
      <4> DEFINE F == [req : Int, layer : 0 .. config.layers]
      <4>1. feedbackQ \in Seq(F)
        BY DEF Protocol, Types
      <4>2. feedbackQ[i] \in F
        <5> HIDE DEF F
        <5>1. QED
          BY <3>4, <4>1
      <4>3. QED
        BY <3>1, <4>2
    <3>5. QED
      BY <3>1, <3>2, <3>3, <3>4 DEF Protocol, Types
  <2>4. \A i \in DOMAIN monitorQ' : (i \in DOMAIN monitorQ /\ monitorQ'[i] = monitorQ[i]) \/ monitorQ'[i] = j
    <3> DEFINE q == monitorQ
               u == monitorQ'
    <3>1. q \in Seq(J) /\ j \in J /\ u = Append(q, j)
      BY <1>4, <1>5
    <3> HIDE DEF q, u
    <3>2. /\ \A i \in DOMAIN q : i \in DOMAIN u /\ u[i] = q[i]
          /\ \A i \in DOMAIN u : i \in DOMAIN q \/ u[i] = j
      BY <3>1, QueueMore
    <3>3. QED
      BY <3>2 DEF q, u
  <2>5. policy.latest <= AheadLayers + Reached'
    BY <2>1, <2>2, <2>3
  <2>6. /\ \A i \in DOMAIN monitorQ : Feeds(monitorQ[i]) => monitorQ[i].layer <= Reached'
        /\ \A i \in DOMAIN feedbackQ : feedbackQ[i].layer <= Reached'
        /\ \A e \in events : e <= Reached'
    BY <2>1, <2>2, <2>3
  <2>7. \A i \in DOMAIN monitorQ' : Feeds(monitorQ'[i]) => monitorQ'[i].layer <= Reached'
    BY <2>1, <2>4, <2>6
  <2>8. QED
    BY <2>5, <2>6, <2>7
<1>14. QED
  BY <1>9, <1>10, <1>11, <1>13 DEF Speculation

(* What the reaper has seen is fed back.                                    *)
LEMMA ReapSpeculates ==
    ASSUME Agreed, Protocol, Speculation, Reap, config' = config PROVE Speculation'
<1> DEFINE job == Oldest
           frees == job.req \in DOMAIN sessions /\ job.op = "FREE_SESSION"
           x == [req |-> job.req, layer |-> job.layer]
           F == [req : Int, layer : 0 .. config.layers]
           J == JobType(config)
<1>1. /\ monitorQ # << >> /\ monitorQ' = Tail(monitorQ)
      /\ feedbackQ' = IF job.req \in DOMAIN sessions /\ Feeds(job) THEN Append(feedbackQ, x)
                      ELSE feedbackQ
      /\ sessions' = IF frees THEN [q \in DOMAIN sessions \ {job.req} |-> sessions[q]]
                     ELSE sessions
      /\ UNCHANGED << schedQ, workerQ, buffer, policy, events, taskId, pc, task, phase, request,
                      todo >>
  BY DEF Reap, clientVars, Oldest, Feeds
<1>2. /\ Serving /\ Serving' /\ Taken' = Taken /\ Current' = Current
      /\ Pending # << >> /\ Pending[1] = job /\ Pending' = Tail(Pending) /\ Pending \in Seq(J)
      /\ job \in J
  BY ReapOf DEF Reaping
<1>3. /\ monitorQ \in Seq(J) /\ feedbackQ \in Seq(F) /\ x \in F
  BY <1>2 DEF Protocol, Types, JobType
<1> HIDE DEF J, F
<1>4. /\ TotalLayers' = TotalLayers /\ AheadLayers' = AheadLayers /\ (Single' <=> Single)
      /\ NewSession' = NewSession /\ \A s : Cached(s, 1)' = Cached(s, 1)
      /\ (Speculates' <=> Speculates)
  BY <1>1, <1>2, ConstantsSame DEF Speculates
<1>5. Polled'
  BY <1>1 DEF Polled, Speculation
<1>6. Unbegun'
  BY <1>2, <1>4 DEF Unbegun, Speculation
<1>7. /\ 1 \in DOMAIN Pending
      /\ \A i \in DOMAIN Pending' : i + 1 \in DOMAIN Pending /\ Pending'[i] = Pending[i + 1]
      /\ \A l : Issued(Pending, l) => (Feeds(job) /\ job.layer >= l) \/ Issued(Pending', l)
  <2> DEFINE s == Pending
             t == Pending'
  <2>1. s \in Seq(J) /\ s # << >> /\ t = Tail(s) /\ job = s[1]
    BY <1>2
  <2> HIDE DEF s, t, job
  <2>2. /\ 1 \in DOMAIN s
        /\ \A i \in DOMAIN t : i + 1 \in DOMAIN s /\ t[i] = s[i + 1]
    BY <2>1, QueueOrder
  <2>3. ASSUME NEW l, Issued(s, l) PROVE (Feeds(job) /\ job.layer >= l) \/ Issued(t, l)
    BY <2>1, <2>3, IssuedTail
  <2>4. QED
    BY <2>2, <2>3 DEF s, t
<1>8. /\ \A i \in DOMAIN monitorQ' : i + 1 \in DOMAIN monitorQ /\ monitorQ'[i] = monitorQ[i + 1]
      /\ 1 \in DOMAIN monitorQ /\ job = monitorQ[1]
  <2> DEFINE q == monitorQ
             u == monitorQ'
  <2>1. q \in Seq(J) /\ q # << >> /\ u = Tail(q) /\ job = Head(q)
    BY <1>1, <1>3 DEF Oldest
  <2> HIDE DEF q, u, job
  <2>2. /\ 1 \in DOMAIN q /\ Head(q) = q[1]
        /\ \A i \in DOMAIN u : i + 1 \in DOMAIN q /\ u[i] = q[i + 1]
    BY <2>1, QueueOrder
  <2>3. QED
    BY <2>1, <2>2 DEF q, u
<1>9. /\ \A i \in DOMAIN feedbackQ' :
            \/ i \in DOMAIN feedbackQ /\ feedbackQ'[i] = feedbackQ[i]
            \/ Feeds(job) /\ feedbackQ'[i].layer = job.layer
      /\ \A l : FedBack(feedbackQ, l) => FedBack(feedbackQ', l)
      /\ job.req \in DOMAIN sessions /\ Feeds(job) =>
            \A l : job.layer >= l => FedBack(feedbackQ', l)
  <2> DEFINE q == feedbackQ
             u == feedbackQ'
  <2>1. q \in Seq(F) /\ x \in F /\ x.layer = job.layer
        /\ u = IF job.req \in DOMAIN sessions /\ Feeds(job) THEN Append(q, x) ELSE q
    BY <1>1, <1>3
  <2> HIDE DEF q, u, x, job
  <2>2. CASE job.req \in DOMAIN sessions /\ Feeds(job)
    <3>1. u = Append(q, x)
      BY <2>1, <2>2
    <3>2. /\ \A i \in DOMAIN q : i \in DOMAIN u /\ u[i] = q[i]
          /\ \A i \in DOMAIN u : i \in DOMAIN q \/ u[i] = x
      BY <2>1, <3>1, QueueMore
    <3>3. ASSUME NEW l
          PROVE  /\ FedBack(q, l) => FedBack(u, l)
                 /\ x.layer >= l => FedBack(u, l)
      BY <2>1, <3>1, FedBackAppend
    <3>4. QED
      BY <2>1, <2>2, <3>2, <3>3 DEF q, u
  <2>3. CASE ~(job.req \in DOMAIN sessions /\ Feeds(job))
    BY <2>1, <2>3 DEF q, u
  <2>4. QED
    BY <2>2, <2>3
<1> HIDE DEF job, x
<1>10. ASSUME Speculates
       PROVE  /\ Sess' = Sess /\ (Known => Known')
              /\ Known /\ Feeds(job) => job.req \in DOMAIN sessions
  <2>1. ~Answers(Pending, Current) /\ JobsLive(Pending, Current)
    BY <1>10, SpeculatesLive
  <2>2. job.req = Current \/ job.op = "FREE_SESSION"
    BY <1>2, <1>7, <2>1 DEF JobsLive
  <2>3. job.op = "FREE_SESSION" => job.req # Current
    BY <1>2, <1>7, <2>1 DEF Answers, AnswerOps
  <2>4. Current \in DOMAIN sessions' <=> Current \in DOMAIN sessions
    BY <1>1, <2>3
  <2>5. Current \in DOMAIN sessions => sessions'[Current] = sessions[Current]
    BY <1>1, <2>3
  <2>6. Sess' = Sess
    BY <1>2, <1>4, <2>4, <2>5 DEF Sess
  <2>7. Known => Known'
    BY <1>2, <1>7, <2>4 DEF Known
  <2>8. Feeds(job) => job.op # "FREE_SESSION"
    BY DEF Feeds
  <2>9. QED
    BY <1>2, <1>7, <2>2, <2>6, <2>7, <2>8 DEF Known
<1>11. Flowing'
  <2>1. ASSUME Speculates, Known, Approaches(policy.latest) PROVE Approaches(policy.latest)'
    <3> DEFINE l == policy.latest
    <3>1. Queued(workerQ, l) \/ Issued(Pending, l) \/ FedBack(feedbackQ, l) \/ \E e \in events : e >= l
      BY <2>1 DEF Approaches
    <3>2. Feeds(job) => job.req \in DOMAIN sessions
      BY <1>10, <2>1
    <3> HIDE DEF l
    <3>3. Queued(workerQ, l) \/ Issued(Pending', l) \/ FedBack(feedbackQ', l) \/ \E e \in events : e >= l
      BY <1>7, <1>9, <3>1, <3>2
    <3>4. QED
      BY <1>1, <3>3 DEF Approaches, l
  <2>2. QED
    BY <1>1, <1>4, <1>10, <2>1 DEF Flowing, Speculation
<1>12. Within'
  <2> SUFFICES ASSUME Speculates, Single, Sess'.active # {}
               PROVE  /\ policy.latest <= AheadLayers + Reached'
                      /\ \A i \in DOMAIN monitorQ' :
                            Feeds(monitorQ'[i]) => monitorQ'[i].layer <= Reached'
                      /\ \A i \in DOMAIN feedbackQ' : feedbackQ'[i].layer <= Reached'
                      /\ \A e \in events : e <= Reached'
    BY <1>1, <1>4 DEF Within
  <2>1. Sess' = Sess
    BY <1>10
  <2>2. Reached' = Reached
    BY <1>4, <2>1 DEF Reached
  <2>3. /\ policy.latest <= AheadLayers + Reached
        /\ \A i \in DOMAIN monitorQ : Feeds(monitorQ[i]) => monitorQ[i].layer <= Reached
        /\ \A i \in DOMAIN feedbackQ : feedbackQ[i].layer <= Reached
        /\ \A e \in events : e <= Reached
    BY <2>1 DEF Speculation, Within
  <2>4. QED
    BY <1>8, <1>9, <2>2, <2>3
<1>13. QED
  BY <1>5, <1>6, <1>11, <1>12 DEF Speculation

(* Every step keeps it.                                                     *)
LEMMA NextSpeculates ==
    ASSUME Agreed, Eager, Protocol, Holding, Speculation, [Next]_vars PROVE Speculation'
<1>1. CASE UNCHANGED vars
  BY <1>1, StutterSpeculates DEF vars
<1>2. CASE ClientStep /\ config' = config
  <2>1. CASE SendConfig
    <3>1. /\ phase = "config" /\ phase' = "sync" /\ UNCHANGED << pc, events >>
      BY <2>1 DEF SendConfig
    <3>2. pc = "poll" /\ events = {}
      BY <3>1 DEF Protocol, Starting, Serving
    <3>3. ~Serving'
      BY <3>1 DEF Serving
    <3>4. QED
      BY <3>1, <3>2, <3>3, EarlySpeculation
  <2>2. QED
    BY <1>2, <2>1, SyncSpeculates, PatchSpeculates, ResultSpeculates DEF ClientStep
<1>3. CASE SchedulerStep /\ UNCHANGED << workerVars, resultQ, clientVars >> /\ config' = config
  <2>1. CASE Idle
    <3>1. UNCHANGED vars
      BY <1>3, <2>1 DEF Idle, vars
    <3>2. QED
      BY <1>1, <3>1
  <2>2. CASE \E p \in 0 .. Len(schedQ), f \in 0 .. Len(feedbackQ) : Drain(p, f)
    BY <1>3, <2>2, DrainSpeculates
  <2>3. QED
    BY <1>3, <2>1, <2>2, ControlSpeculates, CallSpeculates DEF SchedulerStep
<1>4. CASE TakeMessage /\ config' = config
  BY <1>4, TakeSpeculates
<1>5. CASE Launch /\ config' = config
  BY <1>5, LaunchSpeculates
<1>6. CASE Reap /\ config' = config
  BY <1>6, ReapSpeculates
<1>7. CASE Finished
  BY <1>1, <1>7 DEF Finished
<1>8. QED
  BY <1>1, <1>2, <1>3, <1>4, <1>5, <1>6, <1>7 DEF Next, WorkerStep

LEMMA SpecSpeculation ==
    ASSUME Agreed, Fitting, Eager PROVE Spec => [](Protocol /\ Holding /\ Speculation)
<1>1. Init => Protocol /\ Holding /\ Speculation
  BY InitProtocol, InitHolding, InitSpeculation
<1>2. Protocol /\ Holding /\ Speculation /\ [Next]_vars => (Protocol /\ Holding /\ Speculation)'
  BY NextKeeps, NextHolds, NextSpeculates
<1>3. QED
  BY <1>1, <1>2, PTL DEF Spec

(* Nothing queued or launched: the layers are all queued already.           *)
LEMMA SpeculationKeptHolds ==
    ASSUME Protocol, Speculation PROVE SpeculationKept
<1> SUFFICES ASSUME FeedbackDriven, Quiet, policy.group \in 0 .. policy.n - 1
             PROVE  policy.latest = TotalLayers
  BY DEF SpeculationKept, SpeculationAlive
<1>1. /\ pc = "poll" /\ feedbackQ = << >> /\ workerQ = << >> /\ task = NoTask /\ monitorQ = << >>
  BY DEF Quiet
<1>2. Serving
  <2> SUFFICES ASSUME ~Serving PROVE FALSE
    OBVIOUS
  <2>1. policy = NoPolicy \/ policy = NewPolicy
    BY DEF Protocol, Starting, Types
  <2>2. NoPolicy.group = None /\ NewPolicy.group = None
    BY NewPolicyType DEF NoPolicy, NewPolicy, Protocol, Types
  <2>3. QED
    BY <2>1, <2>2 DEF None
<1>3. Speculates
  BY <1>2 DEF Speculates
<1>4. Pending = << >> /\ events = {}
  <2>1. events = {}
    BY <1>1 DEF Speculation, Polled
  <2>2. Pending = << >> \o << >>
    BY <1>1, NoTaskType DEF Pending
  <2>3. QED
    BY <2>1, <2>2
<1>5. ~Approaches(policy.latest)
  BY <1>1, <1>4 DEF Approaches, Queued, Issued, FedBack
<1>6. ~(policy.latest < TotalLayers)
  BY <1>3, <1>5 DEF Speculation, Flowing
<1>7. policy.latest \in 0 .. TotalLayers /\ TotalLayers \in Nat
  BY <1>3, SpeculatesLive, Configured DEF PolicyType, TotalLayers
<1>8. QED
  BY <1>6, <1>7

(* Speculation never dries up: with whatever groups, layers and layers      *)
(* ahead, in whatever order the reaper feeds back and the scheduler polls,  *)
(* while residual groups are to come and layers are left to approximate,    *)
(* something is queued or launched or fed back that will queue more.        *)
THEOREM PipelineSpeculationKept ==
    ASSUME Agreed, Fitting, Eager PROVE Spec => []SpeculationKept
<1>1. Protocol /\ Holding /\ Speculation => SpeculationKept
  BY SpeculationKeptHolds
<1>2. QED
  BY <1>1, SpecSpeculation, PTL

(* While images are left, the policy is within ahead_layers of the layers   *)
(* the session has cached: a single request never speculates further, the   *)
(* feedback of its layers being true of its caches.                         *)
THEOREM PipelineSpeculationWithin ==
    ASSUME Agreed, Fitting, Eager PROVE Spec => []SpeculationWithin
<1>1. ASSUME Protocol, Speculation PROVE SpeculationWithin
  <2> SUFFICES ASSUME FeedbackDriven, MaxRequests = 1, policy # NoPolicy,
                      policy.group \in 0 .. policy.n - 1,
                      policy.req \in DOMAIN sessions, sessions[policy.req].active # {}
               PROVE  policy.latest <= AheadLayers + Cardinality(Cached(sessions[policy.req], 1))
    BY DEF SpeculationWithin, SpeculationBounded
  <2>1. Serving
    <3> SUFFICES ASSUME ~Serving PROVE FALSE
      OBVIOUS
    <3>1. sessions = << >>
      BY <1>1 DEF Protocol, Starting
    <3>2. QED
      BY <3>1
  <2>2. Speculates /\ Single
    BY <2>1 DEF Speculates, Single
  <2>3. Current = policy.req
    BY <1>1, <2>2, SpeculatesLive
  <2>4. Sess = sessions[policy.req]
    BY <2>3 DEF Sess
  <2>5. policy.latest <= AheadLayers + Reached
    BY <1>1, <2>2, <2>4 DEF Speculation, Within
  <2>6. QED
    BY <2>4, <2>5 DEF Reached
<1>2. Protocol /\ Holding /\ Speculation => SpeculationWithin
  BY <1>1
<1>3. QED
  BY <1>2, SpecSpeculation, PTL

=============================================================================
