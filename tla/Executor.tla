------------------------------ MODULE Executor ------------------------------
(***************************************************************************)
(* What the instructions of a task do to the state a model executor keeps  *)
(* for a request: the session context as the executors of                  *)
(* offload/server/model read and write it, the block caches of the model   *)
(* forks as far as they decide which pixels reach the head, and the parts  *)
(* of WorkerModule._dispatch every executor shares.                        *)
(*                                                                         *)
(* The image is cut into one part per residual group: the tokens the group *)
(* refines (the detector's window groups: the tokens of one window, which  *)
(* is a backbone pass of its own).  Whole is the detector's global source, *)
(* the image scaled down.  Pixels are abstracted to versions: version v is *)
(* the image as it is when group v has been decoded.  A head with several  *)
(* levels takes the output of every layer here.                            *)
(***************************************************************************)
EXTENDS SchedulingPolicies

ExecutorName == config.executor   \* get_model_executor's choice for model_name
Windows == config.windows         \* correction groups are the detector's windows
Images == 1..config.batch         \* the images of a request

ExecutorNames == {"classifier", "openclip", "sam3", "qwen", "linhead", "m2f",
                  "depther", "vggt", "detector"}
OneImage == {"openclip", "sam3", "qwen", "vggt"}         \* answer image 0 only
Forgetful == {"openclip", "qwen"}                        \* forks without persistence
MultiLevel == {"detector", "m2f", "depther", "vggt"}     \* heads on several layers

ASSUME ExecutorAssumption ==
    \A c \in Configs :
        /\ c.executor \in ExecutorNames
        /\ c.batch \in Nat \ {0}
        /\ c.executor \in OneImage => c.batch = 1
        /\ c.executor = "detector" <=> c.mode # "none"
        /\ c.windows \in BOOLEAN
        /\ c.windows => c.executor = "detector"
        /\ c.exit => c.executor \in {"classifier", "linhead"}

Whole == 0
Regions == 1..NumGroups
Parts == {Whole} \cup Regions
Layers == 0 .. TotalLayers - 1

(* What a head was applied to: the depth of the features, the input loaded  *)
(* last, and the groups whose pixels are missing from their own tokens,     *)
(* where the head or the attention of a layer reads them.                   *)
Outcome(depth, ver, stale) == [depth |-> depth, ver |-> ver, stale |-> stale]
NoOutcome == Outcome(None, None, {})

NewSession ==
    [input |-> None,                            \* input_tensor
     tokens |-> [p \in Parts |-> None],         \* input_tokens
     at |-> [p \in Parts |-> None],             \* current_feature: its depth
     ver |-> [p \in Parts |-> None],            \* ... and the tokens it came from
     outs |-> [p \in Parts |-> 0],              \* layer outputs kept for the head
     inc |-> [p \in Regions |-> [l \in Layers |-> None]],  \* cache: blocks_out_sum
     kv |-> [p \in Regions |-> [l \in Layers |-> None]],   \* cache: keys and values
     output |-> NoOutcome,                      \* output
     active |-> Images,                         \* active_indices
     final |-> [i \in Images |-> NoOutcome]]    \* final_results

Skippable == {"LOAD_INPUT", "PREPARE_TOKENS", "FULL_INFERENCE", "APPROX_FORWARD",
              "CORRECT_FORWARD", "HEAD_INFERENCE", "DECIDE_EXIT"}
Skipped(s, instr) == s.active = {} /\ instr.op \in Skippable

Prepared(s) == s.tokens[1] # None
Cached(s, p) == {l \in Layers : s.kv[p][l] # None}

-----------------------------------------------------------------------------
(* prepare_tokens.  The global source is made from the base image in the    *)
(* global_first mode of the window groups, whatever has arrived since.      *)
BaseGlobal == Windows /\ GlobalMode = "global_first"

PrepareAll(s) ==
    [s EXCEPT !.tokens = [p \in Parts |-> IF p = Whole /\ BaseGlobal THEN 0 ELSE s.input]]

(* The detector's shortcut: only the window of the group is made anew, the  *)
(* other windows and the global source keep their tokens.                   *)
PrepareWindow(s) == [s EXCEPT !.tokens[s.input] = s.input]

(* What becomes of the current feature: made only if there is none, thrown  *)
(* away, put back to the tokens, or kept.                                   *)
FirstFeature(s) ==
    IF s.at[1] # None THEN s
    ELSE [s EXCEPT !.at = [p \in Parts |-> 0], !.ver = s.tokens]
DropFeature(s) == [s EXCEPT !.at = [p \in Parts |-> None]]
RewindFeature(s) == [s EXCEPT !.at = [p \in Parts |-> 0], !.ver = s.tokens]

PrepareTokens(s) ==
    LET made == IF Windows /\ s.input \in Regions /\ Prepared(s)
                THEN PrepareWindow(s) ELSE PrepareAll(s)
    IN  CASE s.input = None -> s
          [] s.input # None /\ ExecutorName \in {"classifier", "openclip", "sam3"}
               -> FirstFeature(made)
          [] s.input # None /\ ExecutorName = "linhead" -> DropFeature(made)
          [] s.input # None /\ ExecutorName = "vggt" -> RewindFeature(made)
          [] OTHER -> made

-----------------------------------------------------------------------------
(* approx_forward.  A pass from layer 0 starts from the tokens, a later one *)
(* goes on from the current feature, whatever its depth; VGGT always goes   *)
(* on, its tokens being put back by prepare_tokens.                         *)
Restarted(s, lo) ==
    IF lo # 0 \/ ExecutorName = "vggt" THEN s
    ELSE [s EXCEPT !.at = [p \in Parts |-> IF p = Whole THEN @[p] ELSE 0],
                   !.ver = [p \in Parts |-> IF p = Whole THEN @[p] ELSE s.tokens[p]],
                   !.outs = [p \in Parts |-> IF p = Whole \/ ExecutorName = "depther"
                                             THEN @[p] ELSE 0]]

(* Each block caches the keys and values of every token, and what it added  *)
(* to it.                                                                   *)
Refreshed(cache, s, lo, hi) ==
    [p \in Regions |-> [l \in Layers |-> IF l \in lo .. hi - 1 THEN s.ver[p] ELSE cache[p][l]]]

Advance(s, lo, hi) ==
    [s EXCEPT !.at = [p \in Parts |-> IF p = Whole THEN @[p] ELSE @[p] + (hi - lo)],
              !.outs = [p \in Parts |-> CASE p = Whole -> @[p]
                                          [] p # Whole /\ ExecutorName \in {"detector", "m2f"}
                                               -> @[p] + (hi - lo)
                                          [] OTHER -> Max({@[p], hi})],
              !.inc = Refreshed(@, s, lo, hi), !.kv = Refreshed(@, s, lo, hi)]

(* The global source is run exactly, at the depth of the pass.              *)
GlobalExact(s, hi) ==
    [s EXCEPT !.at[Whole] = hi, !.ver[Whole] = s.tokens[Whole], !.outs[Whole] = hi]

(* ... or, in a pass over the windows, put off or left as it is.            *)
GlobalInPass(s, lo, hi) ==
    CASE GlobalMode = "approx" -> GlobalExact(s, hi)
      [] GlobalMode = "final_correct" ->
           [s EXCEPT !.at[Whole] = 0, !.ver[Whole] = s.tokens[Whole],
                     !.outs[Whole] = IF lo = 0 THEN 0 ELSE @]
      [] OTHER -> s

ApproxForward(s, instr) ==
    LET first == FirstFeature(s)
    IN  IF ~Prepared(s) THEN s
        ELSE IF instr.global THEN GlobalExact(first, instr.hi)
        ELSE GlobalInPass(Advance(Restarted(first, instr.lo), instr.lo, instr.hi),
                          instr.lo, instr.hi)

-----------------------------------------------------------------------------
(* correct_forward.  The tokens a correction recomputes: those of its group *)
(* (VGGT: of the group of the task); the dense-prediction executors take    *)
(* every group for an id they do not know.                                  *)
Targets(s, gid) ==
    CASE ExecutorName = "vggt" -> {s.input} \cap Regions
      [] ExecutorName \in {"linhead", "m2f", "depther"} /\ gid \notin Regions -> Regions
      [] OTHER -> {gid} \cap Regions

(* The parts whose feature is replaced: the window of the group; else every *)
(* part, rebuilt as tokens plus cached increments; the Mask2Former          *)
(* segmentor merges only what it recomputed if the depth is the same.       *)
Merges(s, hi) == ExecutorName = "m2f" /\ s.at[1] = hi
Rebuilt(s, targets, hi) == IF Windows \/ Merges(s, hi) THEN targets ELSE Regions

(* What the recomputed tokens leave in a cache.                             *)
Scattered(cache, s, targets, hi) ==
    [p \in Regions |-> [l \in Layers |->
        IF p \in targets /\ l < hi THEN s.tokens[p] ELSE cache[p][l]]]

(* Mutant of Persist: the increments stay those of the approximation        *)
(* (the bug block.py:1165-1177 describes).                                  *)
PersistNothing(s, targets, hi) == s.inc

(* The corrected increments replace the approximate ones; the forks of CLIP *)
(* and Qwen keep the approximate ones.                                      *)
Persist(s, targets, hi) ==
    IF ExecutorName \in Forgetful THEN s.inc ELSE Scattered(s.inc, s, targets, hi)

(* The oldest pixels in a feature put together from increments.             *)
Replayed(s, p, hi) == Min({s.tokens[p]} \cup {s.inc[p][l] : l \in 0 .. hi - 1})

CorrectForward(s, instr) ==
    LET hi == instr.hi
        targets == Targets(s, instr.gid)
        rebuilt == Rebuilt(s, targets, hi)
        from(p) == IF ExecutorName = "vggt" THEN s.at[p] ELSE 0
        restarts == ExecutorName = "detector" \/ (ExecutorName = "m2f" /\ ~Merges(s, hi))
    IN  IF targets = {} \/ ~Prepared(s) THEN s
        ELSE [s EXCEPT !.at = [p \in Parts |-> IF p \in rebuilt THEN from(p) + hi ELSE @[p]],
                       !.ver = [p \in Parts |-> CASE p \in targets -> s.tokens[p]
                                                  [] p \in rebuilt \ targets -> Replayed(s, p, hi)
                                                  [] OTHER -> @[p]],
                       !.outs = [p \in Parts |-> IF p \notin rebuilt THEN @[p]
                                                 ELSE IF restarts THEN hi ELSE Max({@[p], hi})],
                       !.inc = Persist(s, targets, hi),
                       !.kv = Scattered(@, s, targets, hi)]

-----------------------------------------------------------------------------
(* head_inference and full_inference.                                       *)
Used == IF ExecutorName = "detector" THEN Parts ELSE Regions

(* CLIP's head reads the class token only, Qwen's the last token of the     *)
(* text: both are recomputed in every round, from all keys and values.      *)
ReadsImage == ExecutorName \notin {"openclip", "qwen"}

Stale(s) == {g \in Regions \cap 1..s.input :
                \/ ReadsImage /\ s.ver[g] < g
                \/ \E l \in Cached(s, g) : s.kv[g][l] < g}

HeadInference(s) ==
    [s EXCEPT !.output = Outcome(IF \A p \in Used : s.at[p] = s.at[1] THEN s.at[1] ELSE None,
                                 s.input, Stale(s))]

FullInference(s) == [s EXCEPT !.output = Outcome(TotalLayers, s.input, {})]

(* get_final_results for the images still active.                           *)
Collect(s) ==
    IF s.output = NoOutcome THEN s.final
    ELSE [i \in Images |-> IF i \in s.active THEN s.output ELSE s.final[i]]

(* decide_exit: the images in exits meet the early-exit criterion.          *)
DecideExit(s, exits) ==
    LET left == s.active \ exits
        sliced == [s EXCEPT !.final = [i \in Images |-> IF i \in exits THEN s.output ELSE @[i]],
                            !.active = left]
    IN  IF left # {} THEN sliced
        ELSE [DropFeature(sliced) EXCEPT !.tokens = [p \in Parts |-> None]]

Exits(s, instr) ==
    IF /\ instr.op = "DECIDE_EXIT" /\ ExecutorName = "classifier"
       /\ ~Skipped(s, instr) /\ s.output # NoOutcome
    THEN SUBSET s.active ELSE {{}}

-----------------------------------------------------------------------------
(* An instruction that raises: tokens without an input, a correction of a   *)
(* layer nothing is cached for (KeyError), a head without a feature, VGGT's *)
(* head without the output of every layer it reads, and SAM 3's always: it  *)
(* wants input_boxes in the context, and nothing puts them there.           *)
Raises(s, instr) ==
    /\ ~Skipped(s, instr)
    /\ \/ /\ instr.op = "PREPARE_TOKENS" /\ s.input = None
          /\ ExecutorName \in {"linhead", "m2f", "depther", "vggt"}
       \/ /\ instr.op = "CORRECT_FORWARD"
          /\ \E p \in Targets(s, instr.gid) : ~(0 .. instr.hi - 1 \subseteq Cached(s, p))
       \/ /\ instr.op = "HEAD_INFERENCE"
          /\ \/ \E p \in Used : s.at[p] = None
             \/ ExecutorName = "vggt" /\ \E p \in Regions : s.outs[p] < TotalLayers
       \/ /\ instr.op \in {"HEAD_INFERENCE", "FULL_INFERENCE"} /\ s.input # None
          /\ ExecutorName = "sam3"

Dispatch(s, instr, gid, exits) ==
    CASE Skipped(s, instr) -> s
      [] instr.op = "LOAD_INPUT" /\ ~Skipped(s, instr) -> [s EXCEPT !.input = gid]
      [] instr.op = "PREPARE_TOKENS" /\ ~Skipped(s, instr) -> PrepareTokens(s)
      [] instr.op = "APPROX_FORWARD" /\ ~Skipped(s, instr) -> ApproxForward(s, instr)
      [] instr.op = "CORRECT_FORWARD" /\ ~Skipped(s, instr) -> CorrectForward(s, instr)
      [] instr.op = "HEAD_INFERENCE" /\ ~Skipped(s, instr) -> HeadInference(s)
      [] instr.op = "FULL_INFERENCE" /\ ~Skipped(s, instr) -> FullInference(s)
      [] instr.op = "DECIDE_EXIT" /\ ~Skipped(s, instr) -> DecideExit(s, exits)
      [] instr.op = "EXIT_ALL" -> [s EXCEPT !.final = Collect(s), !.active = {}]
      [] instr.op = "SEND_RESPONSE" -> [s EXCEPT !.final = Collect(s)]
      [] OTHER -> s
=============================================================================
