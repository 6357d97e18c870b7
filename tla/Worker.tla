------------------------------- MODULE Worker -------------------------------
(***************************************************************************)
(* WorkerModule (offload/server/worker.py): the three threads of the       *)
(* worker process and the session contexts they share without a lock.      *)
(*                                                                         *)
(*   input_queue -> decoder -> gpu_queue -> GPU worker -> monitor_queue    *)
(*   -> reaper -> output_queue                                             *)
(*                                                                         *)
(* What a canvas (input_hr_np) shows is the set of groups whose pixels are *)
(* in it, a group being the pair of the image it belongs to and its id;    *)
(* the empty set is None.  Contexts are Python objects: a thread that has  *)
(* looked one up goes on using it after the sessions dictionary lost it.   *)
(*                                                                         *)
(* What surrounds the worker is the client seen through the scheduler: for *)
(* each image a task per group 0..LastGroup, tasks without patches in      *)
(* answer to feedback, then a wait for the result.  Resend selects the     *)
(* evaluation drivers under analysis/experiments, which send CONFIG again  *)
(* for every image and every retry, so that request ids start over.        *)
(***************************************************************************)
EXTENDS Integers, Sequences, FiniteSets

CONSTANTS
    Images,        \* number of images sent, one after the other
    LastGroup,     \* the final residual group
    DecodeModes,   \* the values of incremental_decode considered
    Resend,        \* CONFIG before every image and retry
    Loads,         \* whether loading the model at a CONFIG may succeed, may raise
    Settles,       \* the drivers' sleep after CONFIG outlasts the GPU thread's taking it
    MaxTries,      \* attempts per image (3 in the drivers, 1 in SourceModule)
    MaxAhead       \* bound: feedback-driven tasks per attempt

ASSUME WorkerAssumption ==
    /\ Images \in Nat \ {0}
    /\ LastGroup \in Nat \ {0}
    /\ DecodeModes \subseteq BOOLEAN
    /\ Resend \in BOOLEAN
    /\ Settles \in BOOLEAN
    /\ Loads \subseteq BOOLEAN /\ Loads # {}
    /\ MaxTries \in Nat \ {0}
    /\ MaxTries > 1 => Resend
    /\ MaxAhead \in Nat

VARIABLES
    inputQ, gpuQ, monitorQ, outputQ,
    sessions,               \* self.sessions: request id -> index in ctx
    ctx,                    \* every context created so far
    ready,                  \* _config_ready
    executor,               \* self.executor is there
    incremental,            \* the transmission policy decodes onto the canvas in place
    dpc, dtask, dctx, dcanvas,   \* the decoder thread and its locals
    gpc, gtask, gcanvas, gctx,   \* the GPU thread and its locals
    rpc,                         \* the reaper thread
    phase, image, sent, ahead, tries, answers      \* the client

queues == << inputQ, gpuQ, monitorQ, outputQ >>
decoder == << dpc, dtask, dctx, dcanvas >>
flags == << ready, executor >>
gpu == << gpc, gtask, gcanvas, gctx >>
client == << phase, image, sent, ahead, tries, answers >>
vars == << queues, sessions, ctx, flags, incremental, decoder, gpu, rpc, client >>

Groups == 0..LastGroup
Pixels == (1..Images) \X Groups
Feedback == -1               \* group id of a task without patches

(* Mutants of RequestId: counted from one too many; never advanced.         *)
RequestIdNext(i) == i + 1
RequestIdFirst(i) == 1

(* The id of the first task of an image is its request id.  task_counter    *)
(* restarts with every CONFIG and never else: image i stands for a number   *)
(* no other image got, 0 for the first one after a CONFIG.                  *)
RequestId(i) == IF Resend THEN 0 ELSE i
RequestIds == 0..Images

Task(i, g) == [image |-> i, req |-> RequestId(i), gid |-> g]
NoTask == Task(1, Feedback)     \* of a thread that has none, and of other messages
Message(type, task, canvas) == [type |-> type, task |-> task, canvas |-> canvas]

(* _create_session_context, the executor's input_tensor and whether its     *)
(* cache_feature holds the approximation, and _pending_preds as the canvas  *)
(* they were computed from.                                                 *)
NewContext == [canvas |-> {}, patches |-> {}, input |-> {}, approx |-> FALSE, preds |-> {}]

Init ==
    /\ inputQ = << >> /\ gpuQ = << >> /\ monitorQ = << >> /\ outputQ = << >>
    /\ sessions = << >> /\ ctx = << >> /\ ready = FALSE /\ executor = FALSE
    /\ incremental \in DecodeModes
    /\ dpc = "take" /\ dtask = NoTask /\ dctx = 0 /\ dcanvas = {}
    /\ gpc = "take" /\ gtask = NoTask /\ gcanvas = {} /\ gctx = 0
    /\ rpc = "take"
    /\ phase = "config" /\ image = 1 /\ sent = 0 /\ ahead = 0 /\ tries = 1
    /\ answers = << >>

Known(q) == q \in DOMAIN sessions

(* Mutant of Without: every session is dropped, not one.                    *)
WithoutAny(q) == << >>

Without(q) == [p \in DOMAIN sessions \ {q} |-> sessions[p]]

(* self.sessions[q] = _create_session_context(): the entry there may be is  *)
(* replaced, whoever made it.                                               *)
Create(q) ==
    /\ ctx' = Append(ctx, NewContext)
    /\ sessions' = [p \in DOMAIN sessions \cup {q} |->
                       IF p = q THEN Len(ctx) + 1 ELSE sessions[p]]

-----------------------------------------------------------------------------
(* The client.                                                              *)
SendConfig ==
    /\ phase = "config"
    /\ inputQ' = inputQ \o << Message("CONFIG", NoTask, {}) >>
                 \o (IF Resend THEN << >> ELSE << Message("TIME_SYNC", NoTask, {}) >>)
    /\ phase' = IF Resend THEN "send" ELSE "sync"
    /\ sent' = 0 /\ ahead' = 0
    /\ UNCHANGED << gpuQ, monitorQ, outputQ, sessions, ctx, flags, decoder, gpu, rpc, image,
                    tries, answers >>

ReceiveTimeSync ==
    /\ phase = "sync" /\ outputQ # << >>
    /\ outputQ' = Tail(outputQ)
    /\ phase' = "send"
    /\ UNCHANGED << inputQ, gpuQ, monitorQ, sessions, ctx, flags, decoder, gpu, rpc, image,
                    sent, ahead, tries, answers >>

(* time.sleep(2.0), "let CONFIG propagate".                                 *)
Settled ==
    Settles => \A i \in DOMAIN (inputQ \o gpuQ) : (inputQ \o gpuQ)[i].type # "CONFIG"

SendGroup ==
    /\ phase = "send" /\ (Resend => Settled)
    /\ inputQ' = Append(inputQ, Message("TASK", Task(image, sent), {}))
    /\ sent' = sent + 1
    /\ phase' = IF sent = LastGroup THEN "wait" ELSE "send"
    /\ UNCHANGED << gpuQ, monitorQ, outputQ, sessions, ctx, flags, decoder, gpu, rpc, image,
                    ahead, tries, answers >>

(* A task the scheduler makes of an APPROX_DONE, while groups are due.      *)
SendAhead ==
    /\ phase = "send" /\ sent > 0
    /\ ahead < MaxAhead
    /\ inputQ' = Append(inputQ, Message("TASK", Task(image, Feedback), {}))
    /\ ahead' = ahead + 1
    /\ UNCHANGED << gpuQ, monitorQ, outputQ, sessions, ctx, flags, decoder, gpu, rpc, phase,
                    image, sent, tries, answers >>

ReceiveResult ==
    /\ phase = "wait" /\ outputQ # << >>
    /\ outputQ' = Tail(outputQ)
    /\ answers' = Append(answers, Head(outputQ))
    /\ tries' = 1
    /\ IF image < Images
       THEN /\ image' = image + 1
            /\ sent' = 0 /\ ahead' = 0
            /\ phase' = IF Resend THEN "config" ELSE "send"
            /\ UNCHANGED inputQ
       ELSE /\ phase' = "done"
            /\ inputQ' = Append(inputQ, Message("STOP", NoTask, {}))
            /\ UNCHANGED << image, sent, ahead >>
    /\ UNCHANGED << gpuQ, monitorQ, sessions, ctx, flags, decoder, gpu, rpc >>

(* The drivers' result_q.get(timeout=...) expires: CONFIG and the patches   *)
(* of the same image again.                                                 *)
Retry ==
    /\ phase = "wait" /\ outputQ = << >>
    /\ tries < MaxTries
    /\ tries' = tries + 1
    /\ phase' = "config"
    /\ UNCHANGED << queues, sessions, ctx, flags, decoder, gpu, rpc, image, sent, ahead,
                    answers >>

(* The last attempt times out: the driver raises, and stops the pipeline in *)
(* its finally clause.                                                      *)
Abort ==
    /\ phase = "wait" /\ outputQ = << >>
    /\ Resend /\ tries = MaxTries
    /\ phase' = "done"
    /\ inputQ' = Append(inputQ, Message("STOP", NoTask, {}))
    /\ UNCHANGED << gpuQ, monitorQ, outputQ, sessions, ctx, flags, decoder, gpu, rpc, image,
                    sent, ahead, tries, answers >>

ClientStep ==
    \/ SendConfig \/ ReceiveTimeSync \/ SendGroup \/ SendAhead \/ ReceiveResult
    \/ Retry \/ Abort

-----------------------------------------------------------------------------
(* The decoder thread.                                                      *)
DecoderTake ==
    /\ dpc = "take" /\ inputQ # << >>
    /\ inputQ' = Tail(inputQ)
    /\ LET msg == Head(inputQ)
       IN IF msg.type = "TASK"
          THEN dtask' = msg.task /\ dpc' = "open" /\ UNCHANGED gpuQ
          ELSE /\ gpuQ' = Append(gpuQ, msg)
               /\ dpc' = IF msg.type = "STOP" THEN "stopped" ELSE "take"
               /\ UNCHANGED dtask
    /\ UNCHANGED << monitorQ, outputQ, sessions, ctx, flags, dctx, dcanvas, gpu, rpc, client >>

(* The wait for _config_ready, and whether the request has a context.       *)
DecoderOpen ==
    /\ dpc = "open" /\ ready
    /\ dpc' = IF Known(dtask.req) THEN "find" ELSE "create"
    /\ UNCHANGED << queues, sessions, ctx, flags, dtask, dctx, dcanvas, gpu, rpc, client >>

DecoderCreate ==
    /\ dpc = "create"
    /\ Create(dtask.req)
    /\ dpc' = "find"
    /\ UNCHANGED << queues, flags, dtask, dctx, dcanvas, gpu, rpc, client >>

(* The look-up.  If CONFIG or the reaper has removed the context meanwhile, *)
(* KeyError ends the task.                                                  *)
DecoderFind ==
    /\ dpc = "find"
    /\ IF Known(dtask.req)
       THEN /\ dctx' = sessions[dtask.req]
            /\ dpc' = IF dtask.gid = Feedback THEN "snapshot" ELSE "read"
       ELSE dpc' = "take" /\ UNCHANGED dctx
    /\ UNCHANGED << queues, sessions, ctx, flags, dtask, dcanvas, gpu, rpc, client >>

(* The start of a decode: the patches join patch_buffer, the canvas is read.*)
DecoderRead ==
    /\ dpc = "read"
    /\ ctx' = [ctx EXCEPT ![dctx].patches =
                  IF incremental THEN @ ELSE @ \cup {<< dtask.image, dtask.gid >>}]
    /\ dcanvas' = ctx[dctx].canvas
    /\ dpc' = "decode"
    /\ UNCHANGED << queues, sessions, flags, dtask, dctx, gpu, rpc, client >>

(* Mutant of Decoded: only the patches of this task are decoded.            *)
DecodedAlone(context) == {<< dtask.image, dtask.gid >>}

(* policy.decode: in place, a base replaces the canvas and a residual adds  *)
(* to it; otherwise the image is rebuilt from every patch in the buffer.    *)
Decoded(context) ==
    IF ~incremental THEN context.patches
    ELSE IF dtask.gid = 0 THEN {<< dtask.image, 0 >>}
    ELSE dcanvas \cup {<< dtask.image, dtask.gid >>}

DecoderAssign ==
    /\ dpc = "decode"
    /\ ctx' = [ctx EXCEPT ![dctx].canvas = Decoded(ctx[dctx])]
    /\ dpc' = "snapshot"
    /\ UNCHANGED << queues, sessions, flags, dtask, dctx, dcanvas, gpu, rpc, client >>

(* _snapshot_input_state reads the shared context once more.                *)
DecoderSnapshot ==
    /\ dpc = "snapshot"
    /\ gpuQ' = Append(gpuQ, Message("TASK", dtask, ctx[dctx].canvas))
    /\ dpc' = "take"
    /\ UNCHANGED << inputQ, monitorQ, outputQ, sessions, ctx, flags, dtask, dctx, dcanvas, gpu,
                    rpc, client >>

DecoderStep ==
    \/ DecoderTake \/ DecoderOpen \/ DecoderCreate \/ DecoderFind \/ DecoderRead
    \/ DecoderAssign \/ DecoderSnapshot

-----------------------------------------------------------------------------
(* The GPU thread.                                                          *)
GpuStop ==
    /\ gpc = "take" /\ gpuQ # << >> /\ Head(gpuQ).type = "STOP"
    /\ gpuQ' = Tail(gpuQ)
    /\ gpc' = "stopped"
    /\ monitorQ' = Append(monitorQ, [op |-> "STOP", req |-> NoTask.req])
    /\ UNCHANGED << inputQ, outputQ, sessions, ctx, flags, decoder, gtask, gcanvas, gctx, rpc,
                    client >>

(* Mutant of Announced: the decoder is let go once the model is there.      *)
AnnouncedLoaded(loads) == ready \/ loads

(* _config_ready is set before anything that may raise.                     *)
Announced(loads) == TRUE

(* CONFIG: the sessions are dropped, and the model is loaded, which may     *)
(* raise; the executor of an earlier CONFIG then stays.                     *)
GpuConfig ==
    /\ gpc = "take" /\ gpuQ # << >> /\ Head(gpuQ).type = "CONFIG"
    /\ gpuQ' = Tail(gpuQ)
    /\ sessions' = << >>
    /\ \E loads \in Loads : /\ ready' = Announced(loads)
                            /\ executor' = (executor \/ loads)
    /\ UNCHANGED << inputQ, monitorQ, outputQ, ctx, decoder, gpu, rpc, client >>

GpuTimeSync ==
    /\ gpc = "take" /\ gpuQ # << >> /\ Head(gpuQ).type = "TIME_SYNC"
    /\ gpuQ' = Tail(gpuQ)
    /\ outputQ' = Append(outputQ, {})
    /\ UNCHANGED << inputQ, monitorQ, sessions, ctx, flags, decoder, gpu, rpc, client >>

(* A task is dropped when there is no executor; otherwise the thread sees   *)
(* whether the request has a context.                                       *)
GpuTask ==
    /\ gpc = "take" /\ gpuQ # << >> /\ Head(gpuQ).type = "TASK"
    /\ gpuQ' = Tail(gpuQ)
    /\ gtask' = Head(gpuQ).task /\ gcanvas' = Head(gpuQ).canvas
    /\ gpc' = IF ~executor THEN "take"
              ELSE IF Known(Head(gpuQ).task.req) THEN "update" ELSE "create"
    /\ UNCHANGED << inputQ, monitorQ, outputQ, sessions, ctx, flags, decoder, gctx, rpc,
                    client >>

(* A context is made for the snapshot, or by execute_pipeline.              *)
GpuCreate ==
    /\ gpc \in {"create", "recreate"}
    /\ Create(gtask.req)
    /\ gpc' = IF gpc = "create" THEN "update" ELSE "find"
    /\ UNCHANGED << queues, flags, decoder, gtask, gcanvas, gctx, rpc, client >>

(* The snapshot goes into the context the dictionary has by then; KeyError  *)
(* ends the task.                                                           *)
GpuUpdate ==
    /\ gpc = "update"
    /\ IF Known(gtask.req)
       THEN ctx' = [ctx EXCEPT ![sessions[gtask.req]].canvas = gcanvas] /\ gpc' = "open"
       ELSE gpc' = "take" /\ UNCHANGED ctx
    /\ UNCHANGED << queues, sessions, flags, decoder, gtask, gcanvas, gctx, rpc, client >>

(* execute_pipeline looks again whether there is a context ...              *)
GpuOpen ==
    /\ gpc = "open"
    /\ gpc' = IF Known(gtask.req) THEN "find" ELSE "recreate"
    /\ UNCHANGED << queues, sessions, ctx, flags, decoder, gtask, gcanvas, gctx, rpc, client >>

(* ... and keeps the one it finds for the task; KeyError ends it.           *)
GpuFind ==
    /\ gpc = "find"
    /\ IF Known(gtask.req)
       THEN gctx' = sessions[gtask.req] /\ gpc' = "load"
       ELSE gpc' = "take" /\ UNCHANGED gctx
    /\ UNCHANGED << queues, sessions, ctx, flags, decoder, gtask, gcanvas, rpc, client >>

(* LOAD_INPUT reads the canvas the context shows by then.                   *)
GpuLoad ==
    /\ gpc = "load"
    /\ ctx' = [ctx EXCEPT ![gctx].input =
                  IF gtask.gid = Feedback \/ ctx[gctx].canvas = {} THEN @ ELSE ctx[gctx].canvas]
    /\ gpc' = "run"
    /\ UNCHANGED << queues, sessions, flags, decoder, gtask, gcanvas, gctx, rpc, client >>

(* The rest of the task: group 0 approximates, a residual group corrects    *)
(* what was approximated and approximates further, the last one responds.   *)
Raised == gtask.gid > 0 /\ ~ctx[gctx].approx
(* Mutants of Jobs: the session is freed first; every group is answered;    *)
(* the session is never freed.                                              *)
JobsFreeFirst == IF gtask.gid = LastGroup THEN << "FREE_SESSION", "SEND_RESPONSE" >>
                 ELSE << "APPROX_FORWARD" >>
JobsEach == IF gtask.gid > 0 THEN << "SEND_RESPONSE" >> ELSE << "APPROX_FORWARD" >>
JobsKeep == IF gtask.gid = LastGroup THEN << "SEND_RESPONSE" >> ELSE << "APPROX_FORWARD" >>

Jobs == IF gtask.gid = LastGroup THEN << "SEND_RESPONSE", "FREE_SESSION" >>
        ELSE << "APPROX_FORWARD" >>

GpuRun ==
    /\ gpc = "run"
    /\ gpc' = "take"
    /\ IF Raised
       THEN sessions' = Without(gtask.req) /\ UNCHANGED << ctx, monitorQ >>
       ELSE /\ monitorQ' = monitorQ \o
                   [i \in DOMAIN Jobs |-> [op |-> Jobs[i], req |-> gtask.req]]
            /\ ctx' = [ctx EXCEPT ![gctx].approx = @ \/ ctx[gctx].input # {},
                                  ![gctx].preds = IF gtask.gid = LastGroup
                                                  THEN ctx[gctx].input ELSE @]
            /\ UNCHANGED sessions
    /\ UNCHANGED << inputQ, gpuQ, outputQ, flags, decoder, gtask, gcanvas, gctx, rpc, client >>

GpuStep ==
    \/ GpuStop \/ GpuConfig \/ GpuTimeSync \/ GpuTask
    \/ GpuCreate \/ GpuUpdate \/ GpuOpen \/ GpuFind \/ GpuLoad \/ GpuRun

-----------------------------------------------------------------------------
(* The reaper thread: a job whose session is gone is skipped.               *)
ReaperTake ==
    /\ rpc = "take" /\ monitorQ # << >>
    /\ monitorQ' = Tail(monitorQ)
    /\ LET job == Head(monitorQ)
       IN /\ rpc' = IF job.op = "STOP" THEN "stopped" ELSE "take"
          /\ outputQ' = IF job.op = "SEND_RESPONSE" /\ Known(job.req)
                        THEN Append(outputQ, ctx[sessions[job.req]].preds) ELSE outputQ
          /\ sessions' = IF job.op = "FREE_SESSION" THEN Without(job.req) ELSE sessions
    /\ UNCHANGED << inputQ, gpuQ, ctx, flags, decoder, gpu, client >>

Stopped ==
    /\ dpc = "stopped" /\ gpc = "stopped" /\ rpc = "stopped"
    /\ UNCHANGED vars

Next ==
    /\ ClientStep \/ DecoderStep \/ GpuStep \/ ReaperTake \/ Stopped
    /\ UNCHANGED incremental

Spec == Init /\ [][Next]_vars

(* The threads block only on their queues and events, and the driver's wait *)
(* has a time-out.                                                          *)
FairSpec ==
    /\ Spec
    /\ WF_vars(ClientStep /\ UNCHANGED incremental)
    /\ WF_vars(DecoderStep /\ UNCHANGED incremental)
    /\ WF_vars(GpuStep /\ UNCHANGED incremental)
    /\ WF_vars(ReaperTake /\ UNCHANGED incremental)

-----------------------------------------------------------------------------
(* Properties.                                                              *)

TaskType == [image : 1..Images, req : RequestIds, gid : Groups \cup {Feedback}]
MessageType == [type : {"CONFIG", "TIME_SYNC", "STOP", "TASK"}, task : TaskType,
                canvas : SUBSET Pixels]
JobType == [op : {"STOP", "APPROX_FORWARD", "SEND_RESPONSE", "FREE_SESSION"},
            req : RequestIds]
ContextType == [canvas : SUBSET Pixels, patches : SUBSET Pixels, input : SUBSET Pixels,
                approx : BOOLEAN, preds : SUBSET Pixels]

(* Every variable holds what the program can hold there; a thread that is   *)
(* inside a task has a context that exists.                                 *)
TypeOK ==
    /\ inputQ \in Seq(MessageType) /\ gpuQ \in Seq(MessageType)
    /\ monitorQ \in Seq(JobType)
    /\ outputQ \in Seq(SUBSET Pixels) /\ answers \in Seq(SUBSET Pixels)
    /\ ctx \in Seq(ContextType)
    /\ DOMAIN sessions \subseteq RequestIds
    /\ sessions \in [DOMAIN sessions -> DOMAIN ctx]
    /\ ready \in BOOLEAN /\ executor \in BOOLEAN /\ incremental \in BOOLEAN
    /\ dpc \in {"take", "open", "create", "find", "read", "decode", "snapshot", "stopped"}
    /\ dtask \in TaskType /\ dcanvas \in SUBSET Pixels
    /\ dpc \in {"read", "decode", "snapshot"} => dctx \in DOMAIN ctx
    /\ dpc \in {"read", "decode"} => dtask.gid \in Groups
    /\ gpc \in {"take", "create", "update", "open", "recreate", "find", "load", "run", "stopped"}
    /\ gtask \in TaskType /\ gcanvas \in SUBSET Pixels
    /\ gpc \in {"load", "run"} => gctx \in DOMAIN ctx
    /\ rpc \in {"take", "stopped"}
    /\ phase \in {"config", "sync", "send", "wait", "done"}
    /\ image \in 1..Images /\ ahead \in 0..MaxAhead
    /\ sent \in 0..LastGroup + 1 /\ (phase \in {"sync", "send"} => sent \in Groups)
    /\ tries \in 1..MaxTries

PixelsOf(context) == context.canvas \cup context.patches \cup context.input \cup context.preds
OfImage(i) == {i} \X Groups

(* The contexts the two threads share are looked up by request id, and      *)
(* snapshots and locals outlive the look-up; even so the pixels of one      *)
(* image never reach the canvas, the model input or the predictions of      *)
(* another one's request.                                                   *)
NoForeignPixels ==
    \A q \in DOMAIN sessions : PixelsOf(ctx[sessions[q]]) \subseteq OfImage(q)

(* The model is never run on an input without the base group, in whatever   *)
(* order the two threads write input_hr_np.                                 *)
BasePresent ==
    \A q \in DOMAIN sessions :
        LET input == ctx[sessions[q]].input IN input # {} => << q, 0 >> \in input

(* A thread inside a task works on the context the dictionary has for the   *)
(* request: no CONFIG, FREE_SESSION or failed task of the other thread has  *)
(* replaced it under its feet.                                              *)
ContextLive ==
    /\ dpc \in {"read", "decode", "snapshot"} => Known(dtask.req) /\ sessions[dtask.req] = dctx
    /\ gpc \in {"load", "run"} => Known(gtask.req) /\ sessions[gtask.req] = gctx

(* No task is dropped: a residual group finds the approximation it corrects *)
(* and the reaper finds the session of a response it has to send.           *)
TasksServed ==
    /\ gpc = "run" => ~Raised
    /\ \A j \in DOMAIN monitorQ : monitorQ[j].op = "SEND_RESPONSE" => Known(monitorQ[j].req)

(* The i-th answer the client takes is the prediction of the i-th image.    *)
AnswersMatched == \A i \in DOMAIN answers : answers[i] \subseteq OfImage(i)
AnswerOwnImage == AnswersMatched /\ \A i \in DOMAIN answers : answers[i] # {}

(* Once the three threads have stopped, no session has been leaked.         *)
NothingLeaked ==
    dpc = "stopped" /\ gpc = "stopped" /\ rpc = "stopped" => sessions = << >>

(* Whatever is dropped on the way, by a KeyError, a correction that raises  *)
(* or a model that cannot be loaded, the driver comes to its end and the    *)
(* three threads stop.                                                      *)
ThreadsStop == <>(dpc = "stopped" /\ gpc = "stopped" /\ rpc = "stopped")

(* docs/memo/interleaved_correction_contract.md: the correction of a group  *)
(* sees full resolution at every token that arrived, its own included.      *)
Cumulative ==
    gpc = "run" /\ gtask.gid # Feedback =>
        {gtask.image} \X (0..gtask.gid) \subseteq ctx[gctx].input
=============================================================================
