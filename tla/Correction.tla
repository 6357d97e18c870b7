----------------------------- MODULE Correction ------------------------------
(***************************************************************************)
(* The partial_token method: how the transformer blocks approximate a      *)
(* request and correct the tokens of a residual group afterwards           *)
(* (appcorr/models/dinov3/layers/block.py and attention.py), and how the   *)
(* executors drive them (offload/server/model/dinov3_*.py, vggt_omega.py   *)
(* with vggt_omega/models/aggregator.py).                                  *)
(*                                                                         *)
(* A row is what a tensor holds in its batch dimension: an image, a source *)
(* (a crop, or the whole picture) or a frame.  Its tokens 0..c.pre-1 come  *)
(* before the patches.  A feature, an increment or a key/value pair is the *)
(* set of the pixel versions it was computed from: 0 is the base group, 1  *)
(* the residuals.  Who attends to whom is left out.                        *)
(*                                                                         *)
(* The blocks are one stack whose rows have tokens before the patches.     *)
(* VGGT has four (patch embedding, frame, inter-frame global and register  *)
(* blocks), each with a mean of its own, and the inter-frame ones take all *)
(* frames as one row and rank every token of it, having none before the    *)
(* patches (aggregator.py).  Those two stacks are not modelled.            *)
(***************************************************************************)
EXTENDS Selection

CONSTANTS
    Cases,        \* set of configurations, see MCCorrection
    Scorings,     \* the scores the blocks may give: by row, token and block
    Addresses     \* where the allocator may put a new tensor

VARIABLES
    case, scores, \* the configuration, chosen in the initial state
    step,         \* the instruction of case.plan that comes next
    arrived,      \* groups whose residuals are in the input tokens
    depth,        \* m2f_current_layer, vggt_stage
    features,     \* current_feature(s), per row
    cache,        \* per row: {tag}_blocks_out_sum and {tag}_kv
    scored,       \* layers with a {tag}_server_pscore
    dindices,     \* per row: the address of the tensor that is kept of each group
    derived,      \* what is derived from the scores, per unit: plans and mean
    work,         \* the correction in progress, NoWork between instructions
    chosen,       \* history: tokens the last correction recomputed, per row and layer
    kept          \* history: patches corrected in all its layers, per row

passVars == << work, chosen, kept >>
vars == << case, scores, step, arrived, depth, features, cache, scored, dindices, derived, passVars >>

Executor == case.executor      \* classifier, detector, m2f, linhead, depther or vggt
Layers == 0 .. case.layers - 1
Rows == DOMAIN case.group
Versions == SUBSET {0, 1}

(* What a plan may ask for: layers are approximated once and downwards, and *)
(* corrected as far as they have been approximated.  SchedulingPolicies'    *)
(* plans keep to it (ScheduleSound of Pipeline).                            *)
Approximated(c, i) ==
    UNION {c.plan[j].lo .. c.plan[j].hi - 1 : j \in {k \in 1 .. i - 1 : c.plan[k].op = "APPROX"}}
InOrder(c) ==
    \A i \in 1 .. Len(c.plan) :
        /\ c.plan[i].op \in {"LOAD", "APPROX", "CORRECT"}
        /\ c.plan[i].op # "LOAD" => c.plan[i].hi \in 1 .. c.layers
        /\ c.plan[i].op = "APPROX" => /\ c.plan[i].lo \in 0 .. c.plan[i].hi - 1
                                      /\ Approximated(c, i) = 0 .. c.plan[i].lo - 1
        /\ c.plan[i].op = "CORRECT" => Approximated(c, i) = 0 .. c.plan[i].hi - 1

ASSUME CorrectionAssumption ==
    /\ IsFiniteSet(Addresses) /\ Addresses # {}
    /\ \A c \in Cases :
          /\ c.executor \in {"classifier", "detector", "m2f", "linhead", "depther", "vggt"}
          /\ c.layers \in Nat \ {0} /\ c.pre \in Nat \ {0} /\ c.cap \in Nat
          /\ DOMAIN c.group = 1 .. Len(c.group) /\ Len(c.group) \in Nat
          /\ \A r \in DOMAIN c.group :
                /\ IsFiniteSet(DOMAIN c.group[r]) /\ DOMAIN c.sent[r] = DOMAIN c.group[r]
                /\ \A t \in DOMAIN c.group[r] : /\ t \in Nat /\ t >= c.pre
                                                /\ c.group[r][t] \in Nat \cup {-1}
          /\ Len(c.plan) \in Nat /\ InOrder(c)

(* f, with v at every place of S.                                           *)
Put(f, S, v) == [x \in S \cup DOMAIN f |-> IF x \in S THEN v ELSE f[x]]

NoWork == [bucket |-> {}]

Init ==
    /\ case \in Cases /\ scores \in Scorings
    /\ step = 1 /\ arrived = {0} /\ depth = 0
    /\ features = [r \in Rows |-> [t \in Tokens(case, r) |-> {}]]
    /\ cache = [r \in Rows |-> [inc |-> << >>, kv |-> << >>]]
    /\ scored = {} /\ derived = << >> /\ dindices = [r \in Rows |-> << >>]
    /\ work = NoWork
    /\ chosen = [r \in Rows |-> << >>] /\ kept = [r \in Rows |-> {}]

Instruction == case.plan[step]
Ready(op) == work = NoWork /\ step <= Len(case.plan) /\ Instruction.op = op

(* The input tokens once the given groups are decoded; what comes before    *)
(* the patches does not depend on the picture.                              *)
Embedded(r, groups) ==
    [t \in Tokens(case, r) |-> IF t \in Pre(case) \/ case.sent[r][t] \in groups THEN {1} ELSE {0}]

-----------------------------------------------------------------------------
(* The groups of which a row keeps dindice: m2f makes one for every batch,  *)
(* VGGT one for every block.                                                *)
KeptGroups(r) == IF Executor \in {"m2f", "vggt"} THEN {} ELSE GroupsOf(case, r)

(* PREPARE_TOKENS drops these tensors and makes them again, wherever there  *)
(* is room, those of the dropped ones included; the depther keeps its own.  *)
Placed(r) ==
    IF Executor = "depther" /\ DOMAIN dindices[r] = KeptGroups(r) THEN {dindices[r]}
    ELSE Injection(KeptGroups(r), Addresses)

(* LOAD_INPUT and PREPARE_TOKENS of a task.  VGGT's walk starts over.       *)
Load ==
    /\ Ready("LOAD")
    /\ arrived' = arrived \cup {Instruction.gid}
    /\ step' = step + 1
    /\ dindices' \in {f \in [Rows -> UNION {Placed(r) : r \in Rows}] : \A r \in Rows : f[r] \in Placed(r)}
    /\ IF Executor = "vggt"
       THEN depth' = 0 /\ features' = [r \in Rows |-> Embedded(r, arrived')]
       ELSE UNCHANGED << depth, features >>
    /\ UNCHANGED << case, scores, cache, scored, derived, passVars >>

(* Mutant of Invalidate: the query plans survive an approximation.          *)
InvalidateNothing(d) == d

(* _invalidate_partial_token_derived_caches drops the query plans.  It pops *)
(* the mean under a key ending in all_layers, _resolve_server_token_scores  *)
(* keeps it under one ending in the name of the stack.                      *)
Invalidate(d) == [u \in DOMAIN d |-> [d[u] EXCEPT !.plans = << >>]]

(* APPROX_FORWARD: every block stores what it adds to a token, its keys and *)
(* values, and, if they are asked for, its scores.                          *)
Approx ==
    /\ Ready("APPROX")
    /\ LET new == Instruction.lo .. Instruction.hi - 1
           from == IF Instruction.lo = 0 THEN [r \in Rows |-> Embedded(r, arrived)] ELSE features
       IN  /\ features' = from
           /\ cache' = [r \in Rows |->
                          [inc |-> Put(cache[r].inc, new, from[r]),
                           kv |-> Put(cache[r].kv, new, from[r])]]
           /\ scored' = IF case.pscore = "none" THEN scored ELSE scored \cup new
    /\ derived' = Invalidate(derived)
    /\ depth' = Instruction.hi
    /\ step' = step + 1
    /\ UNCHANGED << case, scores, arrived, dindices, passVars >>

-----------------------------------------------------------------------------
(* The layers a block takes scores from: the mean over the stack is         *)
(* computed once and kept, an m2f batch brings the layers up to its last    *)
(* one; "random" is one draw.                                               *)
MeanLayers ==
    IF work.derived.mean # {} THEN work.derived.mean
    ELSE IF Executor = "m2f" THEN scored \cap 0 .. work.hi - 1 ELSE scored

(* Mutant of ScoreLayers: "random" is a new draw in every block.            *)
ScoreLayersDrawn ==
    CASE case.pscore = "layermean" -> MeanLayers
      [] case.pscore = "per_layer" -> {work.layer}
      [] case.pscore = "random" -> {case.layers + work.layer}
      [] OTHER -> {}

ScoreLayers ==
    CASE case.pscore = "layermean" -> MeanLayers
      [] case.pscore = "per_layer" -> {work.layer}
      [] case.pscore = "random" -> {case.layers}
      [] OTHER -> {}

(* Mutant of Select: the tokens before the patches are not recomputed.      *)
SelectPatchesOnly(over) ==
    [r \in work.bucket |-> Picked(case, scores, r, work.cands[r], work.valid[r], over)]

Select(over) ==
    [r \in work.bucket |->
        Pre(case) \cup Picked(case, scores, r, work.cands[r], work.valid[r], over)]

-----------------------------------------------------------------------------
(* CORRECT_FORWARD, bucket by bucket, block by block.                       *)
NoDerived == [plans |-> << >>, mean |-> {}]
Unit(bucket) == IF bucket \in DOMAIN derived THEN derived[bucket] ELSE NoDerived

(* Where the candidates of a bucket may be: where the group's tensor is.    *)
(* The tensor of a row's only group stands for any that it does not know;   *)
(* several are put together in a new one, as those of an m2f batch are.     *)
Places(bucket, gid) ==
    LET r == Min(bucket)
        known == DOMAIN dindices[r]
    IN  IF gid \in known THEN {dindices[r][gid]}
        ELSE IF Cardinality(known) = 1 THEN Range(dindices[r])
        ELSE Addresses \ Range(dindices[r])

(* A bucket starts from the input tokens; an m2f batch gathers increments,  *)
(* keys and values of its rows into a cache of its own.                     *)
Begin(bucket, todo, gid, hi, place) ==
    [bucket |-> bucket, todo |-> todo, gid |-> gid, hi |-> hi, layer |-> 0, place |-> place,
     cands |-> Batch(case, bucket, gid), valid |-> Valid(case, bucket, gid),
     x |-> [r \in bucket |-> Embedded(r, arrived)],
     cache |-> [r \in bucket |-> cache[r]],
     derived |-> IF Executor = "m2f" THEN NoDerived ELSE Unit(bucket)]

StartCorrect ==
    /\ Ready("CORRECT")
    /\ LET gid == Instruction.gid
           all == Buckets(case, gid)
       IN  IF all = {}
           THEN step' = step + 1 /\ depth' = Instruction.hi /\ UNCHANGED work
           ELSE /\ \E place \in Places(First(all), gid) :
                       work' = Begin(First(all), all \ {First(all)}, gid, Instruction.hi, place)
                /\ UNCHANGED << step, depth >>
    /\ chosen' = [r \in Rows |-> << >>]
    /\ UNCHANGED << case, scores, arrived, features, cache, scored, dindices, derived, kept >>

(* The query plan of a block.  It is shared with later blocks when it       *)
(* depends on no block's own scores, under a key with the address and the   *)
(* shape of dindice.  (The hint's signature, also in the key, is left out:  *)
(* it can only keep a plan from being found.)                               *)
Shareable == case.pscore \in {"layermean", "none"}
PlanKey == << work.place, Len(work.cands[Min(work.bucket)]) >>

Plan ==
    LET plans == work.derived.plans
    IN  IF Shareable /\ PlanKey \in DOMAIN plans
        THEN [selected |-> plans[PlanKey], derived |-> work.derived]
        ELSE LET selected == Select(ScoreLayers)
             IN  [selected |-> selected,
                  derived |-> [plans |-> IF Shareable THEN Put(plans, {PlanKey}, selected) ELSE plans,
                               mean |-> IF case.pscore = "layermean" THEN MeanLayers ELSE {}]]

(* A block adds the cached increment to a token it does not recompute, and  *)
(* stores increments, keys and values of those it does.  VGGT makes dindice *)
(* anew for the next block.                                                 *)
Through(x, inc, selected) ==
    [t \in DOMAIN x |-> IF t \in selected THEN x[t] ELSE x[t] \cup inc[t]]
Persist(old, x, selected) == [t \in DOMAIN x |-> IF t \in selected THEN x[t] ELSE old[t]]

CorrectBlock ==
    /\ work # NoWork /\ work.layer < work.hi
    /\ LET l == work.layer
           selected == Plan.selected
           old(r) == work.cache[r]
       IN  /\ \E place \in IF Executor = "vggt" THEN Addresses ELSE {work.place} :
                 work' = [work EXCEPT
                    !.layer = l + 1,
                    !.place = place,
                    !.derived = Plan.derived,
                    !.x = [r \in work.bucket |-> Through(@[r], old(r).inc[l], selected[r])],
                    !.cache = [r \in work.bucket |->
                        [inc |-> [old(r).inc EXCEPT ![l] = Persist(@, work.x[r], selected[r])],
                         kv |-> [old(r).kv EXCEPT ![l] = Persist(@, work.x[r], selected[r])]]]]
           /\ chosen' = [r \in Rows |->
                  IF r \in work.bucket THEN Put(chosen[r], {l}, selected[r]) ELSE chosen[r]]
    /\ UNCHANGED << case, scores, step, arrived, depth, features, cache, scored, dindices, derived,
                    kept >>

(* Mutant of Scatter: only keys and values come back from the batch.        *)
ScatterKv(own, batch) == [inc |-> own.inc, kv |-> batch.kv]

(* _scatter_m2f_correct_batch_cache; the others wrote into their own cache. *)
Scatter(own, batch) == [inc |-> batch.inc, kv |-> batch.kv]

(* m2f keeps the features of tokens outside dindice if they are as deep.    *)
Merge(r) ==
    IF Executor = "m2f" /\ depth = work.hi
    THEN [t \in Tokens(case, r) |-> IF t \in Pre(case) \cup ToSet(work.cands[r])
                                    THEN work.x[r][t] ELSE features[r][t]]
    ELSE work.x[r]

FinishBucket ==
    /\ work # NoWork /\ work.layer = work.hi
    /\ LET done == work.bucket
       IN  /\ features' = [r \in Rows |-> IF r \in done THEN Merge(r) ELSE features[r]]
           /\ cache' = [r \in Rows |->
                  IF r \in done THEN Scatter(cache[r], work.cache[r]) ELSE cache[r]]
           /\ derived' = IF Executor = "m2f" THEN derived
                         ELSE Put(derived, {done}, work.derived)
           /\ kept' = [r \in Rows |->
                  IF r \in done
                  THEN kept[r] \cup {t \in Patches(case, r) :
                          /\ case.sent[r][t] \in arrived
                          /\ \A l \in 0 .. work.hi - 1 : t \in chosen[r][l]}
                  ELSE kept[r]]
    /\ IF work.todo = {}
       THEN work' = NoWork /\ step' = step + 1 /\ depth' = work.hi
       ELSE /\ \E place \in Places(First(work.todo), work.gid) :
                   work' = Begin(First(work.todo), work.todo \ {First(work.todo)},
                                 work.gid, work.hi, place)
            /\ UNCHANGED << step, depth >>
    /\ UNCHANGED << case, scores, arrived, scored, dindices, chosen >>

Finished == step > Len(case.plan) /\ UNCHANGED vars

Next == Load \/ Approx \/ StartCorrect \/ CorrectBlock \/ FinishBucket \/ Finished

Spec == Init /\ [][Next]_vars

-----------------------------------------------------------------------------
(* Properties.                                                              *)

(* Every variable holds what the program can hold there.                    *)
TypeOK ==
    /\ step \in 1 .. Len(case.plan) + 1
    /\ depth \in 0..case.layers /\ scored \subseteq Layers
    /\ \A r \in Rows :
          /\ features[r] \in [Tokens(case, r) -> Versions]
          /\ DOMAIN cache[r].inc \subseteq Layers /\ DOMAIN cache[r].kv = DOMAIN cache[r].inc
          /\ \A l \in DOMAIN cache[r].inc :
                /\ cache[r].inc[l] \in [Tokens(case, r) -> Versions \ {{}}]
                /\ cache[r].kv[l] \in [Tokens(case, r) -> Versions \ {{}}]
          /\ \A l \in DOMAIN chosen[r] : /\ Pre(case) \subseteq chosen[r][l]
                                         /\ chosen[r][l] \subseteq Tokens(case, r)
          /\ kept[r] \subseteq Patches(case, r)
    /\ work # NoWork => work.layer \in 0..work.hi /\ work.bucket \subseteq Rows

(* block.py: a selection that differs from block to block means "no token   *)
(* is ever corrected all the way through".  A correction recomputes the     *)
(* same tokens in all its blocks, unless each block's own score decides.    *)
SelectionStable ==
    case.pscore # "per_layer" =>
        \A r \in Rows : \A l, m \in DOMAIN chosen[r] : chosen[r][l] = chosen[r][m]

(* vggt_omega.py: "This round's tokens only".  Whatever plans are kept and  *)
(* found again, a block recomputes candidates of the correction it is part  *)
(* of and nothing else of the picture.                                      *)
ThisRoundOnly ==
    work # NoWork =>
        \A r \in work.bucket : \A l \in DOMAIN chosen[r] :
            chosen[r][l] \subseteq Pre(case) \cup ToSet(work.cands[r])

(* Being corrected in a batch changes nothing for a row: over a threshold   *)
(* it is corrected exactly where its own candidates reach the threshold, by *)
(* ratio at least in the best of its own candidates.  VGGT's padding is not *)
(* flagged: copies of a best candidate take the places of others (README).  *)
Own(r) == ToSet(Candidates(case, r, work.gid))
Best(r, over) ==
    LET better(t) == {u \in Own(r) :
            LET other == Score(case, scores, r, u, over)
                mine == Score(case, scores, r, t, over)
            IN  other > mine \/ (other = mine /\ u < t)}
    IN  {t \in Own(r) : Cardinality(better(t)) < Quota(case, Cardinality(Own(r)))}
Reaching(r, over) == {t \in Own(r) : Reaches(case, scores, r, t, over)}
ByThreshold(r, over, patches) ==
    IF case.cap = 0 \/ Cardinality(Reaching(r, over)) \in 1..case.cap
    THEN patches = Reaching(r, over) \ Pre(case)
    ELSE Cardinality(patches) <= Max({case.cap, 1})
SelectionOwn ==
    work # NoWork /\ Shareable =>
        \A r \in work.bucket : \A l \in DOMAIN chosen[r] :
            LET patches == chosen[r][l] \ Pre(case)
                over == ScoreLayers
            IN  IF UseThreshold(case) THEN ByThreshold(r, over, patches)
                ELSE (Executor = "vggt" => Len(Candidates(case, r, work.gid)) = Len(work.cands[r]))
                         => Best(r, over) \ Pre(case) \subseteq patches

(* block.py: "a later round that replays this block for a different token   *)
(* group reproduces the corrected value here".  A patch whose residual had  *)
(* arrived and that was corrected in all blocks keeps features, increments  *)
(* and keys of that residual alone, in every block, through whatever        *)
(* approximations and corrections follow.                                   *)
CorrectionsPersist ==
    work = NoWork =>
        \A r \in Rows : \A t \in kept[r] :
            /\ features[r][t] = {1}
            /\ \A l \in DOMAIN cache[r].inc :
                  cache[r].inc[l][t] = {1} /\ cache[r].kv[l][t] = {1}

(* block.py: the mean is over "all layers of one source".  When a block     *)
(* selects by the mean of the scores, it is that of all approximated layers.*)
ScoresCurrent ==
    work # NoWork => work.derived.mean \in {{}, scored}
=============================================================================
