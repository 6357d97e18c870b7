------------------------- MODULE SchedulingPolicies -------------------------
(***************************************************************************)
(* The scheduling policies of offload/policies/scheduling: what decide()   *)
(* answers, as a function of the policy object's fields, the patch buffer, *)
(* the layer reported by the feedback and the next task id.  A policy is   *)
(* one of the names registered in offload/policies/__init__.py.            *)
(*                                                                         *)
(* A patch is a record whose fields gid, total and n are group_id,         *)
(* batch_group_total and num_correction_groups.  None is -1.               *)
(***************************************************************************)
EXTENDS Integers, Sequences, FiniteSets, FiniteSetsExt, TLC

CONSTANT Configs     \* the experiment configurations considered

VARIABLE config      \* self.config: the one the client has sent

(* The fields of ExperimentConfig the policies read.                        *)
Policy == config.policy             \* scheduler_policy_name
TotalLayers == config.layers        \* total_layers (VGGT: embedding blocks and pairs)
NumGroups == config.groups          \* num_groups, num_window_groups or correction_groups
AheadLayers == config.ahead         \* ahead_layers of the feedback-driven policies
EarlyExit == config.exit            \* early_exit_enabled()
GlobalMode == config.mode           \* the detector's global_source_mode
ApproxOnly == config.approxOnly     \* scheduler_kwargs.approx_only
Progressive == config.progressive   \* transmission_policy_name is ProgressiveLaplacian
PatchesPerBatch == config.patches   \* batch_size * _get_patches_per_image(config)
CorrectionOn == config.correct      \* appcorr_kwargs' enabled or generated_from_client
LayerSplit == config.split          \* VGGT's layer_split
StageCost == config.cost            \* VGGT's _stage_costs, scaled to integers

GroupPolicies == {"GroupTrigger", "ADE20KWindowInterleaved", "COCOWindowInterleaved",
                  "VGGTInterleaved", "ADE20KApproxCorrect", "NYUApproxCorrect"}
DynamicPolicies == {"DynamicGroupTrigger", "ADE20KInterleavedDynamic", "COCOWindowDynamic"}
CountPolicies == {"BatchCountBased", "ADE20KSequential"}

ASSUME PolicyAssumption ==
    \A c \in Configs :
        /\ c.policy \in GroupPolicies \cup DynamicPolicies \cup CountPolicies
        /\ c.layers \in Nat \ {0}
        /\ c.groups \in Nat \ {0}
        /\ c.ahead \in Nat
        /\ {c.exit, c.approxOnly, c.progressive, c.correct} \subseteq BOOLEAN
        /\ c.mode \in {"none", "global_first", "final_correct", "approx"}
        /\ c.patches \in Nat
        /\ c.split \in {"compute", "uniform", "full"}
        /\ c.cost \in [1..c.layers -> Nat \ {0}]

None == -1

-----------------------------------------------------------------------------
(* Instructions: an opcode, the half-open layer range [lo, hi), the group a *)
(* correction is for, and the global_only flag of an approximation.         *)
Instr(op, lo, hi, gid, global) ==
    [op |-> op, lo |-> lo, hi |-> hi, gid |-> gid, global |-> global]

Do(op) == Instr(op, 0, 0, None, FALSE)
Approx(lo, hi) == Instr("APPROX_FORWARD", lo, hi, None, FALSE)
Correct(hi, gid) == Instr("CORRECT_FORWARD", 0, hi, gid, FALSE)
GlobalApprox == Instr("APPROX_FORWARD", 0, TotalLayers, None, TRUE)

When(cond, instrs) == IF cond THEN instrs ELSE << >>

Inputs == << Do("LOAD_INPUT"), Do("PREPARE_TOKENS") >>
ExitCheck == When(EarlyExit, << Do("HEAD_INFERENCE"), Do("DECIDE_EXIT") >>)
(* Mutant of Respond: the session is not released.                          *)
RespondOnly == << Do("SEND_RESPONSE") >>

(* Mutant of Respond: the result is sent twice.                             *)
RespondTwice == << Do("SEND_RESPONSE"), Do("SEND_RESPONSE"), Do("FREE_SESSION") >>

Respond == << Do("SEND_RESPONSE"), Do("FREE_SESSION") >>
Finish == << Do("HEAD_INFERENCE"), Do("EXIT_ALL") >> \o Respond

Task(id, req, payload, instrs) ==
    [id |-> id, req |-> req, payload |-> payload, instrs |-> instrs]
NoTask == Task(None, None, << >>, << >>)

-----------------------------------------------------------------------------
(* The fields a policy object keeps between calls: current_request_id,      *)
(* latest_approx_layer_queued, current_group_id and num_groups.             *)
PolicyState == [req : Nat \cup {None}, latest : 0..TotalLayers,
                group : Nat \cup {None}, n : Nat \ {0}]

NewPolicy == [req |-> None, latest |-> 0, group |-> None,
              n |-> IF Policy = "ADE20KWindowInterleaved" THEN 1 ELSE NumGroups]

GroupReady(buf) == buf # << >> /\ Len(buf) >= Head(buf).total

(* Mutant of Payload: takes the whole buffer.                               *)
PayloadAll(buf) == buf

Payload(buf) == SubSeq(buf, 1, Head(buf).total)

(* total_layers cut into n chunks, the first total % n one layer longer.    *)
Boundary(n, i) == i * (TotalLayers \div n)
                  + (IF i < TotalLayers % n THEN i ELSE TotalLayers % n)

(* Mutants of Admit: the frontier is not reset for a new request; the       *)
(* group count of the image is ignored.                                     *)
AdmitNoReset(st, head, id) ==
    [st EXCEPT !.req = IF head.gid = 0 THEN id ELSE @, !.group = head.gid,
               !.n = IF head.n > 0 THEN head.n ELSE @]
AdmitFixedCount(st, head, id) ==
    [st EXCEPT !.req = IF head.gid = 0 THEN id ELSE @,
               !.latest = IF head.gid = 0 THEN 0 ELSE @, !.group = head.gid]

(* The request a complete group belongs to, the frontier reset when it is   *)
(* the first group of a request, and the per-image group count.             *)
Admit(st, head, id) ==
    LET fresh == head.gid = 0 \/ (st.req = None /\ Policy \notin
                     {"VGGTInterleaved", "ADE20KApproxCorrect", "NYUApproxCorrect"})
        perImage == Policy \in {"ADE20KWindowInterleaved", "ADE20KInterleavedDynamic"}
    IN  [req |-> IF fresh THEN id ELSE st.req,
         latest |-> IF fresh THEN 0 ELSE st.latest,
         group |-> IF fresh /\ Policy # "DynamicGroupTrigger" THEN 0 ELSE head.gid,
         n |-> CASE perImage /\ head.n > 0 -> head.n
                 [] fresh /\ Policy = "ADE20KWindowInterleaved" /\ ~(head.n > 0) -> 1
                 [] OTHER -> st.n]

-----------------------------------------------------------------------------
(* Mutant of GroupTriggerPlan: approximates one layer too many.             *)
GroupTriggerPlanLong(g) ==
    LET chunk == TotalLayers \div NumGroups
    IN  Inputs \o IF g < NumGroups THEN << Approx(g * chunk, (g + 1) * chunk + 1) >> ELSE Finish

(* GroupTrigger: equal chunks of TotalLayers \div NumGroups layers.         *)
GroupTriggerPlan(g) ==
    LET chunk == TotalLayers \div NumGroups
    IN  Inputs \o
        IF g < NumGroups
        THEN When(g * chunk > 0, << Correct(g * chunk, g) >>)
             \o << Approx(g * chunk, (g + 1) * chunk) >> \o ExitCheck
        ELSE << Correct(TotalLayers, g) >>
             \o When(GlobalMode = "final_correct", << GlobalApprox >>) \o Finish

(* ADE20KWindowInterleaved: the image's own number of chunks.               *)
WindowPlan(st, g) ==
    Inputs \o
    IF g < st.n
    THEN When(Boundary(st.n, g) > 0, << Correct(Boundary(st.n, g), g) >>)
         \o << Approx(Boundary(st.n, g), Boundary(st.n, g + 1)) >>
    ELSE << Correct(TotalLayers, g) >> \o Finish

(* VGGTInterleaved: where each round's correction stops.                    *)
CostUpTo[i \in 0..TotalLayers] == IF i = 0 THEN 0 ELSE CostUpTo[i - 1] + StageCost[i]

RoundHalfEven(a, b) ==
    LET q == a \div b
        r == 2 * (a % b)
    IN  IF r > b \/ (r = b /\ q % 2 = 1) THEN q + 1 ELSE q

VGGTBound(r) ==
    CASE NumGroups = 1 \/ LayerSplit = "full" -> TotalLayers
      [] NumGroups > 1 /\ LayerSplit = "uniform" -> RoundHalfEven(TotalLayers * r, NumGroups)
      [] OTHER -> CHOOSE i \in 1..TotalLayers :
                     /\ NumGroups * CostUpTo[i] >= CostUpTo[TotalLayers] * r
                     /\ NumGroups * CostUpTo[i - 1] < CostUpTo[TotalLayers] * r

VGGTPlan(g) ==
    LET prev == VGGTBound(g)
        here == VGGTBound(IF g < NumGroups THEN g + 1 ELSE NumGroups)
    IN  Inputs \o
        IF g = 0
        THEN << Approx(0, VGGTBound(1)) >>
        ELSE When(CorrectionOn /\ prev > 0, << Correct(prev, g) >>)
             \o When(here > prev, << Approx(prev, here) >>)
             \o When(g >= NumGroups,
                     When(CorrectionOn /\ prev < TotalLayers, << Correct(TotalLayers, g) >>)
                     \o << Do("HEAD_INFERENCE") >> \o Respond)

(* ADE20KApproxCorrect and NYUApproxCorrect: any residual group finishes.   *)
ApproxCorrectPlan(g) ==
    Inputs \o
    IF g = 0 THEN << Approx(0, TotalLayers) >>
             ELSE When(CorrectionOn, << Correct(TotalLayers, 0) >>)
                  \o << Do("HEAD_INFERENCE") >> \o Respond

(* The policies that remember how far approximation has been queued answer  *)
(* with a plan: instructions, and the frontier after them.                  *)
Plan(instrs, latest) == [instrs |-> instrs, latest |-> latest]

SingleLayers(from, k) == [i \in 1..k |-> Approx(from + i - 1, from + i)]

CorrectQueued(st, g) == When(st.latest > 0, << Correct(st.latest, g) >>)

(* Mutant of Completion: what no approximation reached is left out.          *)
CompletionShort(st, g) == Inputs \o CorrectQueued(st, g)

(* The last group: correct what was approximated, approximate the rest.     *)
Completion(st, g) == Inputs \o CorrectQueued(st, g)
                     \o When(st.latest < TotalLayers, << Approx(st.latest, TotalLayers) >>)

(* COCOWindowInterleaved: up to the boundary of the group after this one.   *)
COCOStaticPlan(st, g) ==
    LET end == Boundary(NumGroups, IF g < NumGroups THEN g + 1 ELSE NumGroups)
    IN  IF g < NumGroups
        THEN Plan(Inputs \o (IF g = 0 THEN When(GlobalMode = "global_first", << GlobalApprox >>)
                                      ELSE CorrectQueued(st, g))
                  \o When(st.latest < end, << Approx(st.latest, end) >>),
                  Max({st.latest, end}))
        ELSE Plan(Completion(st, g) \o When(GlobalMode = "final_correct", << GlobalApprox >>)
                  \o Finish,
                  TotalLayers)

(* Mutant of MoreApprox: queues everything at once.                         *)
MoreApproxAll(st, done) == TotalLayers - st.latest

(* The single-layer approximations _append_more_approx queues when layers   *)
(* up to done have completed.                                               *)
MoreApprox(st, done) ==
    IF st.group = None \/ st.group >= st.n THEN 0
    ELSE Max({0, Min({AheadLayers - (st.latest - done), TotalLayers - st.latest})})

(* ADE20KInterleavedDynamic and COCOWindowDynamic: done is None when the    *)
(* scheduler drained no feedback.                                           *)
FeedbackPlan(st, g, done) ==
    LET k == IF g = 0 THEN MoreApprox(st, IF done = None THEN 0 ELSE done)
             ELSE IF done = None THEN 0 ELSE MoreApprox(st, done)
        ade20k == Policy = "ADE20KInterleavedDynamic"
    IN  IF g < st.n
        THEN Plan(Inputs \o (IF g = 0 THEN When(~ade20k /\ GlobalMode = "global_first",
                                                << GlobalApprox >>)
                                      ELSE CorrectQueued(st, g))
                  \o SingleLayers(st.latest, k) \o When(g > 0 /\ ade20k, ExitCheck),
                  st.latest + k)
        ELSE Plan(Completion(st, g)
                  \o When(~ade20k /\ GlobalMode = "final_correct", << GlobalApprox >>)
                  \o Finish,
                  TotalLayers)

(* DynamicGroupTrigger: speculates only when nothing is queued yet, and     *)
(* leaves the frontier alone in the last group.                             *)
DynamicPlan(st, g) ==
    LET k == IF st.latest = 0 THEN Min({AheadLayers, TotalLayers}) ELSE 0
    IN  IF g < NumGroups
        THEN Plan(Inputs \o CorrectQueued(st, g) \o SingleLayers(st.latest, k) \o ExitCheck,
                  st.latest + k)
        ELSE Plan(Completion(st, g)
                  \o When(GlobalMode = "final_correct", << GlobalApprox >>) \o Finish,
                  st.latest)

PlanFor(st, g, done) ==
    CASE Policy = "GroupTrigger" -> Plan(GroupTriggerPlan(g), st.latest)
      [] Policy = "ADE20KWindowInterleaved" -> Plan(WindowPlan(st, g), st.latest)
      [] Policy = "VGGTInterleaved" -> Plan(VGGTPlan(g), st.latest)
      [] Policy = "COCOWindowInterleaved" -> COCOStaticPlan(st, g)
      [] Policy = "DynamicGroupTrigger" -> DynamicPlan(st, g)
      [] Policy \in {"ADE20KInterleavedDynamic", "COCOWindowDynamic"} -> FeedbackPlan(st, g, done)
      [] OTHER -> Plan(ApproxCorrectPlan(g), st.latest)

-----------------------------------------------------------------------------
(* decide() of the group-driven policies: a task for the complete group at  *)
(* the head of the buffer; without one, a task that only pushes the         *)
(* approximation on, if the feedback leaves room for it.                    *)
Answer(st, task) == [st |-> st, task |-> task]

DecideGroup(st, buf, done, id) ==
    LET begun == Admit(st, Head(buf), id)
        plan == PlanFor(begun, Head(buf).gid, done)
    IN  Answer([begun EXCEPT !.latest = plan.latest],
               Task(id, IF begun.req = None THEN id ELSE begun.req, Payload(buf), plan.instrs))

DecideFeedback(st, done, id) ==
    LET k == MoreApprox(st, done)
    IN  IF Policy \in DynamicPolicies /\ done # None /\ k > 0
        THEN Answer([st EXCEPT !.latest = @ + k],
                    Task(id, st.req, << >>, SingleLayers(st.latest, k)))
        ELSE Answer(st, NoTask)

(* decide() of the counting policies: one task when every expected group    *)
(* has shown up and the totals their first patches announce have arrived.   *)
Groups(buf) == {buf[i].gid : i \in 1..Len(buf)}
First(buf, i) == \A j \in 1 .. i - 1 : buf[j].gid # buf[i].gid
Announced(buf) ==
    LET sum[i \in 0..Len(buf)] ==
            IF i = 0 THEN 0 ELSE sum[i - 1] + (IF First(buf, i) THEN buf[i].total ELSE 0)
    IN  sum
Expected(buf) ==
    LET sum == Announced(buf)[Len(buf)]
    IN  IF sum > 0 THEN sum ELSE PatchesPerBatch

CountReady(buf) ==
    /\ buf # << >>
    /\ Cardinality(Groups(buf)) >= (IF Progressive THEN NumGroups + 1 ELSE 1)
    /\ Len(buf) >= Expected(buf)

WholeModel ==
    CASE Policy = "ADE20KSequential" ->
           Inputs \o << Approx(0, TotalLayers), Do("HEAD_INFERENCE") >> \o Respond
      [] Policy = "BatchCountBased" /\ ApproxOnly -> Inputs \o << Approx(0, TotalLayers) >> \o Finish
      [] OTHER -> << Do("LOAD_INPUT"), Do("FULL_INFERENCE") >> \o Respond

DecideCount(st, buf, id) ==
    IF CountReady(buf)
    THEN Answer(st, Task(id, id, SubSeq(buf, 1, Expected(buf)), WholeModel))
    ELSE Answer(st, NoTask)

Decide(st, buf, done, id) ==
    IF Policy \in CountPolicies THEN DecideCount(st, buf, id)
    ELSE IF GroupReady(buf) THEN DecideGroup(st, buf, done, id)
    ELSE DecideFeedback(st, done, id)
=============================================================================
