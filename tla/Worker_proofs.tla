--------------------------- MODULE Worker_proofs ----------------------------
(* Proofs about Worker: its type invariant; that no context ever holds      *)
(* pixels of an image other than its request's; and, from the protocol of   *)
(* the three threads, that every task is served and every image answered.   *)
EXTENDS Worker, TLAPS

USE WorkerAssumption DEF flags

(* What the operations on a queue keep, whatever its elements are.          *)
LEMMA QueueTyped ==
    ASSUME NEW S, NEW s \in Seq(S)
    PROVE  /\ << >> \in Seq(S)
           /\ \A e \in S : Append(s, e) \in Seq(S)
           /\ s # << >> => Head(s) \in S /\ Tail(s) \in Seq(S)
OBVIOUS

(* A task of an image is well typed, and so is a message about it.          *)
LEMMA TaskTyped ==
    ASSUME NEW i \in 1..Images, NEW g \in Groups \cup {Feedback}
    PROVE  Task(i, g) \in TaskType
BY DEF Task, TaskType, RequestId, RequestIds

(* The task of a thread that has none is well typed.                        *)
LEMMA NoTaskTyped == NoTask \in TaskType
BY TaskTyped DEF NoTask

(* A message made of well-typed parts is well typed.                        *)
LEMMA MessageTyped ==
    ASSUME NEW type \in {"CONFIG", "TIME_SYNC", "STOP", "TASK"},
           NEW task \in TaskType, NEW canvas \in SUBSET Pixels
    PROVE  Message(type, task, canvas) \in MessageType
BY DEF Message, MessageType

(* What creating a context for a request yields, in place of the one the    *)
(* dictionary may have.                                                     *)
LEMMA Created ==
    ASSUME TypeOK, NEW q \in RequestIds, Create(q)
    PROVE  /\ ctx' \in Seq(ContextType) /\ DOMAIN ctx \subseteq DOMAIN ctx'
           /\ \A c \in DOMAIN ctx : ctx'[c] = ctx[c]
           /\ Len(ctx) + 1 \in DOMAIN ctx' /\ Len(ctx) + 1 \notin DOMAIN ctx
           /\ ctx'[Len(ctx) + 1] = NewContext
           /\ \A c \in DOMAIN ctx' : c # Len(ctx) + 1 => c \in DOMAIN ctx
           /\ DOMAIN sessions' = DOMAIN sessions \cup {q} /\ DOMAIN sessions' \subseteq RequestIds
           /\ sessions' \in [DOMAIN sessions' -> DOMAIN ctx']
           /\ sessions'[q] = Len(ctx) + 1
           /\ \A p \in DOMAIN sessions : p # q => sessions'[p] = sessions[p]
<1>1. /\ ctx \in Seq(ContextType) /\ DOMAIN sessions \subseteq RequestIds
      /\ sessions \in [DOMAIN sessions -> DOMAIN ctx]
  BY DEF TypeOK
<1>2. NewContext \in ContextType
  BY DEF NewContext, ContextType
<1>3. ctx' = Append(ctx, NewContext)
  BY DEF Create
<1>4. /\ ctx' \in Seq(ContextType)
      /\ DOMAIN ctx' = 1..Len(ctx) + 1 /\ DOMAIN ctx = 1..Len(ctx) /\ Len(ctx) \in Nat
      /\ \A c \in DOMAIN ctx : ctx'[c] = ctx[c]
      /\ ctx'[Len(ctx) + 1] = NewContext
  BY <1>1, <1>2, <1>3
<1>5. /\ DOMAIN ctx \subseteq DOMAIN ctx'
      /\ Len(ctx) + 1 \in DOMAIN ctx' /\ Len(ctx) + 1 \notin DOMAIN ctx
      /\ \A c \in DOMAIN ctx' : c # Len(ctx) + 1 => c \in DOMAIN ctx
  BY <1>4
<1>6. sessions' = [p \in DOMAIN sessions \cup {q} |->
                      IF p = q THEN Len(ctx) + 1 ELSE sessions[p]]
  BY DEF Create
<1>7. QED
  BY <1>1, <1>4, <1>5, <1>6

(* The context a look-up finds.                                             *)
LEMMA Found ==
    ASSUME TypeOK, NEW q, Known(q)
    PROVE  sessions[q] \in DOMAIN ctx /\ ctx[sessions[q]] \in ContextType
BY DEF TypeOK, Known

(* A context replaced by a well-typed one.                                  *)
LEMMA ContextTyped ==
    ASSUME NEW s \in Seq(ContextType), NEW c \in DOMAIN s, NEW new \in ContextType
    PROVE  /\ [s EXCEPT ![c] = new] \in Seq(ContextType)
           /\ DOMAIN [s EXCEPT ![c] = new] = DOMAIN s
OBVIOUS

(* The fields of a context are well typed.                                  *)
LEMMA ContextFields ==
    ASSUME NEW c \in ContextType, NEW pixels \in SUBSET Pixels
    PROVE  /\ [c EXCEPT !.canvas = pixels] \in ContextType
           /\ [c EXCEPT !.patches = pixels] \in ContextType
           /\ [c EXCEPT !.input = pixels] \in ContextType
           /\ [c EXCEPT !.preds = pixels] \in ContextType
           /\ [c EXCEPT !.approx = TRUE] \in ContextType
BY DEF ContextType

(* The type invariant holds initially ...                                   *)
LEMMA TypeInit == Init => TypeOK
<1> SUFFICES ASSUME Init PROVE TypeOK
  OBVIOUS
<1>1. sessions \in [DOMAIN sessions -> DOMAIN ctx] /\ DOMAIN sessions \subseteq RequestIds
  BY DEF Init
<1>2. /\ inputQ \in Seq(MessageType) /\ gpuQ \in Seq(MessageType) /\ monitorQ \in Seq(JobType)
      /\ outputQ \in Seq(SUBSET Pixels) /\ answers \in Seq(SUBSET Pixels)
      /\ ctx \in Seq(ContextType)
  BY DEF Init
<1>3. incremental \in BOOLEAN
  BY DEF Init
<1>4. /\ dtask \in TaskType /\ gtask \in TaskType
      /\ dcanvas \in SUBSET Pixels /\ gcanvas \in SUBSET Pixels
  BY NoTaskTyped DEF Init
<1>5. /\ image \in 1..Images /\ ahead \in 0..MaxAhead /\ tries \in 1..MaxTries
      /\ sent \in 0..LastGroup + 1
  BY DEF Init
<1>6. QED
  BY <1>1, <1>2, <1>3, <1>4, <1>5 DEF Init, TypeOK

(* ... and every step keeps it.                                             *)
LEMMA TypeNext == TypeOK /\ Next => TypeOK'
<1> SUFFICES ASSUME TypeOK, Next PROVE TypeOK'
  OBVIOUS
<1>0. incremental' = incremental
  BY DEF Next
<1> USE <1>0 DEF TypeOK
<1>1. CASE SendConfig
  <2>1. Message("CONFIG", NoTask, {}) \in MessageType
    BY MessageTyped, NoTaskTyped
  <2>2. Message("TIME_SYNC", NoTask, {}) \in MessageType
    BY MessageTyped, NoTaskTyped
  <2>3. inputQ' \in Seq(MessageType)
    BY <1>1, <2>1, <2>2 DEF SendConfig
  <2>4. QED
    BY <1>1, <2>3 DEF SendConfig, Groups, decoder, gpu
<1>2. CASE ReceiveTimeSync
  <2>1. outputQ' \in Seq(SUBSET Pixels)
    BY <1>2, QueueTyped DEF ReceiveTimeSync
  <2>2. QED
    BY <1>2, <2>1 DEF ReceiveTimeSync, Groups, decoder, gpu
<1>3. CASE SendGroup
  <2>1. Message("TASK", Task(image, sent), {}) \in MessageType
    BY <1>3, MessageTyped, TaskTyped DEF SendGroup
  <2>2. inputQ' \in Seq(MessageType)
    BY <1>3, <2>1 DEF SendGroup
  <2>3. QED
    BY <1>3, <2>2 DEF SendGroup, Groups, decoder, gpu
<1>4. CASE SendAhead
  <2>1. Message("TASK", Task(image, Feedback), {}) \in MessageType
    BY MessageTyped, TaskTyped
  <2>2. inputQ' \in Seq(MessageType)
    BY <1>4, <2>1 DEF SendAhead
  <2>3. QED
    BY <1>4, <2>2 DEF SendAhead, decoder, gpu
<1>5. CASE ReceiveResult
  <2>1. Message("STOP", NoTask, {}) \in MessageType
    BY MessageTyped, NoTaskTyped
  <2>2. Append(inputQ, Message("STOP", NoTask, {})) \in Seq(MessageType)
    BY <2>1
  <2>3. Head(outputQ) \in SUBSET Pixels /\ Tail(outputQ) \in Seq(SUBSET Pixels)
    BY <1>5, QueueTyped DEF ReceiveResult
  <2>4. Append(answers, Head(outputQ)) \in Seq(SUBSET Pixels)
    BY <2>3, QueueTyped
  <2>5. /\ outputQ' \in Seq(SUBSET Pixels) /\ answers' \in Seq(SUBSET Pixels)
        /\ inputQ' \in Seq(MessageType) /\ tries' \in 1..MaxTries
    <3>1. inputQ' = inputQ \/ inputQ' = Append(inputQ, Message("STOP", NoTask, {}))
      BY <1>5 DEF ReceiveResult
    <3>2. outputQ' = Tail(outputQ) /\ answers' = Append(answers, Head(outputQ)) /\ tries' = 1
      BY <1>5 DEF ReceiveResult
    <3>3. inputQ' \in Seq(MessageType)
      BY <2>2, <3>1
    <3>4. outputQ' \in Seq(SUBSET Pixels) /\ answers' \in Seq(SUBSET Pixels)
      BY <2>3, <2>4, <3>2
    <3>5. tries' \in 1..MaxTries
      BY <3>2
    <3>6. QED
      BY <3>3, <3>4, <3>5
  <2>6. /\ image' \in 1..Images /\ ahead' \in 0..MaxAhead /\ sent' \in 0..LastGroup + 1
        /\ phase' \in {"config", "send", "done"} /\ (phase' = "send" => sent' \in Groups)
    <3>1. CASE image < Images
      <4>1. image' = image + 1 /\ sent' = 0 /\ ahead' = 0 /\ phase' \in {"config", "send"}
        BY <1>5, <3>1 DEF ReceiveResult
      <4>2. image + 1 \in 1..Images /\ 0 \in Groups /\ 0 \in 0..LastGroup + 1 /\ 0 \in 0..MaxAhead
        BY <3>1 DEF Groups
      <4>3. QED
        BY <4>1, <4>2
    <3>2. CASE ~(image < Images)
      <4>1. image' = image /\ sent' = sent /\ ahead' = ahead /\ phase' = "done"
        BY <1>5, <3>2 DEF ReceiveResult
      <4>2. QED
        BY <4>1
    <3>3. QED
      BY <3>1, <3>2
  <2>7. UNCHANGED << gpuQ, monitorQ, sessions, ctx, ready, executor, dpc, dtask, dctx, dcanvas,
                     gpc, gtask, gcanvas, gctx, rpc >>
    BY <1>5 DEF ReceiveResult, flags, decoder, gpu
  <2>8. phase' \in {"sync", "send"} => sent' \in Groups
    BY <2>6
  <2>9. phase' \in {"config", "sync", "send", "wait", "done"}
    BY <2>6
  <2>10. /\ ctx' \in Seq(ContextType) /\ monitorQ' \in Seq(JobType) /\ gpuQ' \in Seq(MessageType)
         /\ DOMAIN sessions' \subseteq RequestIds
         /\ sessions' \in [DOMAIN sessions' -> DOMAIN ctx']
    BY <2>7
  <2>11. /\ dpc' \in {"take", "open", "create", "find", "read", "decode", "snapshot", "stopped"}
         /\ dtask' \in TaskType /\ dcanvas' \in SUBSET Pixels
         /\ dpc' \in {"read", "decode", "snapshot"} => dctx' \in DOMAIN ctx'
         /\ dpc' \in {"read", "decode"} => dtask'.gid \in Groups
         /\ gtask' \in TaskType /\ gcanvas' \in SUBSET Pixels
         /\ gpc' \in {"load", "run"} => gctx' \in DOMAIN ctx'
    BY <2>7
  <2>12. /\ gpc' \in {"take", "create", "update", "open", "recreate", "find", "load", "run", "stopped"}
         /\ rpc' \in {"take", "stopped"} /\ ready' \in BOOLEAN /\ executor' \in BOOLEAN
    BY <2>7
  <2>13. QED
    BY <2>5, <2>6, <2>8, <2>9, <2>10, <2>11, <2>12
<1>6. CASE Retry
  BY <1>6 DEF Retry, queues, decoder, gpu
<1>7. CASE Abort
  <2>1. Message("STOP", NoTask, {}) \in MessageType
    BY MessageTyped, NoTaskTyped
  <2>2. QED
    BY <1>7, <2>1 DEF Abort, decoder, gpu
<1>8. CASE DecoderTake
  <2>1. inputQ' \in Seq(MessageType) /\ Head(inputQ) \in MessageType
    BY <1>8, QueueTyped DEF DecoderTake
  <2>2. dtask' \in TaskType
    BY <1>8, <2>1 DEF DecoderTake, MessageType
  <2>3. Append(gpuQ, Head(inputQ)) \in Seq(MessageType)
    BY <2>1, QueueTyped
  <2>4. gpuQ' \in Seq(MessageType)
    BY <1>8, <2>3 DEF DecoderTake
  <2>5. dpc' \in {"take", "open", "stopped"}
    BY <1>8 DEF DecoderTake
  <2>6. QED
    BY <1>8, <2>1, <2>2, <2>4, <2>5 DEF DecoderTake, gpu, client
<1>9. CASE DecoderOpen
  BY <1>9 DEF DecoderOpen, queues, gpu, client
<1>18. CASE DecoderCreate
  <2>1. dtask.req \in RequestIds
    BY DEF TaskType
  <2>2. Create(dtask.req)
    BY <1>18 DEF DecoderCreate
  <2>3. /\ ctx' \in Seq(ContextType) /\ DOMAIN ctx \subseteq DOMAIN ctx'
        /\ DOMAIN sessions' \subseteq RequestIds
        /\ sessions' \in [DOMAIN sessions' -> DOMAIN ctx']
    BY <2>1, <2>2, Created
  <2>4. QED
    BY <1>18, <2>3 DEF DecoderCreate, queues, gpu, client
<1>19. CASE DecoderFind
  <2>1. Known(dtask.req) => sessions[dtask.req] \in DOMAIN ctx
    BY Found
  <2>2. dtask.gid # Feedback => dtask.gid \in Groups
    BY DEF TaskType
  <2>3. QED
    BY <1>19, <2>1, <2>2 DEF DecoderFind, queues, gpu, client
<1>20. CASE DecoderRead
  <2> DEFINE joined == IF incremental THEN ctx[dctx].patches
                       ELSE ctx[dctx].patches \cup {<< dtask.image, dtask.gid >>}
             new == [ctx[dctx] EXCEPT !.patches = joined]
  <2>1. dctx \in DOMAIN ctx /\ ctx[dctx] \in ContextType
    BY <1>20 DEF DecoderRead
  <2>2. joined \in SUBSET Pixels /\ ctx[dctx].canvas \in SUBSET Pixels
    <3>1. << dtask.image, dtask.gid >> \in Pixels
      BY <1>20 DEF DecoderRead, TaskType, Pixels
    <3>2. QED
      BY <2>1, <3>1 DEF ContextType
  <2>3. new \in ContextType
    BY <2>1, <2>2, ContextFields
  <2>4. ctx' = [ctx EXCEPT ![dctx] = new]
    BY <1>20 DEF DecoderRead
  <2> HIDE DEF new
  <2>5. ctx' \in Seq(ContextType) /\ DOMAIN ctx' = DOMAIN ctx
    BY <2>1, <2>3, <2>4, ContextTyped
  <2>6. QED
    BY <1>20, <2>2, <2>5 DEF DecoderRead, queues, gpu, client
<1>10. CASE DecoderAssign
  <2>1. dctx \in DOMAIN ctx /\ ctx[dctx] \in ContextType
    BY <1>10 DEF DecoderAssign
  <2>2. Decoded(ctx[dctx]) \in SUBSET Pixels
    <3>1. dtask.gid # Feedback => << dtask.image, dtask.gid >> \in Pixels
      BY DEF TaskType, Pixels
    <3>2. << dtask.image, 0 >> \in Pixels
      BY DEF TaskType, Pixels, Groups
    <3>3. dtask.gid # Feedback
      BY <1>10 DEF DecoderAssign, Feedback, Groups
    <3>4. QED
      BY <2>1, <3>1, <3>2, <3>3 DEF Decoded, ContextType
  <2>3. [ctx[dctx] EXCEPT !.canvas = Decoded(ctx[dctx])] \in ContextType
    BY <2>1, <2>2, ContextFields
  <2>4. ctx' = [ctx EXCEPT ![dctx] = [ctx[dctx] EXCEPT !.canvas = Decoded(ctx[dctx])]]
    BY <1>10 DEF DecoderAssign
  <2>5. ctx' \in Seq(ContextType) /\ DOMAIN ctx' = DOMAIN ctx
    BY <2>1, <2>3, <2>4, ContextTyped
  <2>6. QED
    BY <1>10, <2>5 DEF DecoderAssign, queues, gpu, client
<1>11. CASE DecoderSnapshot
  <2>1. ctx[dctx].canvas \in SUBSET Pixels
    <3>1. ctx[dctx] \in ContextType
      BY <1>11 DEF DecoderSnapshot
    <3>2. QED
      BY <3>1 DEF ContextType
  <2>2. Message("TASK", dtask, ctx[dctx].canvas) \in MessageType
    BY <2>1, MessageTyped
  <2>3. gpuQ' \in Seq(MessageType)
    BY <1>11, <2>2, QueueTyped DEF DecoderSnapshot
  <2>4. QED
    BY <1>11, <2>3 DEF DecoderSnapshot, gpu, client
<1>12. CASE GpuStop
  <2>1. gpuQ' \in Seq(MessageType)
    BY <1>12, QueueTyped DEF GpuStop
  <2>2. [op |-> "STOP", req |-> NoTask.req] \in JobType
    BY NoTaskTyped DEF JobType, TaskType
  <2>3. monitorQ' \in Seq(JobType)
    <3>1. Append(monitorQ, [op |-> "STOP", req |-> NoTask.req]) \in Seq(JobType)
      BY <2>2, QueueTyped
    <3>2. QED
      BY <1>12, <3>1 DEF GpuStop
  <2>4. QED
    BY <1>12, <2>1, <2>3 DEF GpuStop, decoder, client
<1>13. CASE GpuConfig
  <2>1. gpuQ' \in Seq(MessageType) /\ sessions' = << >>
    BY <1>13, QueueTyped DEF GpuConfig
  <2>2. DOMAIN sessions' \subseteq RequestIds /\ sessions' \in [DOMAIN sessions' -> DOMAIN ctx]
    BY <2>1
  <2>3. ready' \in BOOLEAN /\ executor' \in BOOLEAN
    BY <1>13 DEF GpuConfig, Announced
  <2>4. QED
    BY <1>13, <2>1, <2>2, <2>3 DEF GpuConfig, decoder, gpu, client
<1>21. CASE GpuTimeSync
  <2>1. gpuQ' \in Seq(MessageType)
    BY <1>21, QueueTyped DEF GpuTimeSync
  <2>2. outputQ' \in Seq(SUBSET Pixels)
    BY <1>21, QueueTyped DEF GpuTimeSync
  <2>3. QED
    BY <1>21, <2>1, <2>2 DEF GpuTimeSync, decoder, gpu, client
<1>22. CASE GpuTask
  <2>1. Head(gpuQ) \in MessageType /\ gpuQ' \in Seq(MessageType)
    BY <1>22, QueueTyped DEF GpuTask
  <2>2. Head(gpuQ).task \in TaskType /\ Head(gpuQ).canvas \in SUBSET Pixels
    BY <2>1 DEF MessageType
  <2>3. QED
    BY <1>22, <2>1, <2>2 DEF GpuTask, decoder, client
<1>23. CASE GpuCreate
  <2>1. gtask.req \in RequestIds
    BY DEF TaskType
  <2>2. Create(gtask.req)
    BY <1>23 DEF GpuCreate
  <2>3. /\ ctx' \in Seq(ContextType) /\ DOMAIN ctx \subseteq DOMAIN ctx'
        /\ DOMAIN sessions' \subseteq RequestIds
        /\ sessions' \in [DOMAIN sessions' -> DOMAIN ctx']
    BY <2>1, <2>2, Created
  <2>4. QED
    BY <1>23, <2>3 DEF GpuCreate, queues, decoder, client
<1>24. CASE GpuUpdate
  <2>1. CASE Known(gtask.req)
    <3> DEFINE c == sessions[gtask.req]
               new == [ctx[c] EXCEPT !.canvas = gcanvas]
    <3>1. c \in DOMAIN ctx /\ ctx[c] \in ContextType
      BY <2>1, Found
    <3>2. new \in ContextType
      BY <3>1, ContextFields
    <3>3. ctx' = [ctx EXCEPT ![c] = new] /\ gpc' = "open"
      BY <1>24, <2>1 DEF GpuUpdate
    <3> HIDE DEF new, c
    <3>4. ctx' \in Seq(ContextType) /\ DOMAIN ctx' = DOMAIN ctx
      BY <3>1, <3>2, <3>3, ContextTyped
    <3>5. QED
      BY <1>24, <3>3, <3>4 DEF GpuUpdate, queues, decoder, client
  <2>2. CASE ~Known(gtask.req)
    BY <1>24, <2>2 DEF GpuUpdate, queues, decoder, client
  <2>3. QED
    BY <2>1, <2>2
<1>25. CASE GpuOpen
  BY <1>25 DEF GpuOpen, queues, decoder, client
<1>26. CASE GpuFind
  <2>1. Known(gtask.req) => sessions[gtask.req] \in DOMAIN ctx
    BY Found
  <2>2. QED
    BY <1>26, <2>1 DEF GpuFind, queues, decoder, client
<1>27. CASE GpuLoad
  <2> DEFINE seen == IF gtask.gid = Feedback \/ ctx[gctx].canvas = {}
                     THEN ctx[gctx].input ELSE ctx[gctx].canvas
             new == [ctx[gctx] EXCEPT !.input = seen]
  <2>1. gctx \in DOMAIN ctx /\ ctx[gctx] \in ContextType
    BY <1>27 DEF GpuLoad
  <2>2. seen \in SUBSET Pixels
    BY <2>1 DEF ContextType
  <2>3. new \in ContextType
    BY <2>1, <2>2, ContextFields
  <2>4. ctx' = [ctx EXCEPT ![gctx] = new]
    BY <1>27 DEF GpuLoad
  <2> HIDE DEF new
  <2>5. ctx' \in Seq(ContextType) /\ DOMAIN ctx' = DOMAIN ctx
    BY <2>1, <2>3, <2>4, ContextTyped
  <2>6. QED
    BY <1>27, <2>5 DEF GpuLoad, queues, decoder, client
<1>14. CASE GpuRun
  <2> DEFINE made == [i \in DOMAIN Jobs |-> [op |-> Jobs[i], req |-> gtask.req]]
             new == [ctx[gctx] EXCEPT !.approx = @ \/ ctx[gctx].input # {},
                                      !.preds = IF gtask.gid = LastGroup
                                                THEN ctx[gctx].input ELSE @]
  <2>1. gctx \in DOMAIN ctx /\ ctx[gctx] \in ContextType
    BY <1>14 DEF GpuRun
  <2>2. new \in ContextType
    BY <2>1 DEF ContextType
  <2>3. made \in Seq(JobType)
    <3>1. \E n \in Nat : DOMAIN Jobs = 1..n
      <4>1. gtask.gid = LastGroup => DOMAIN Jobs = 1..2
        BY DEF Jobs
      <4>2. gtask.gid # LastGroup => DOMAIN Jobs = 1..1
        BY DEF Jobs
      <4>3. QED
        BY <4>1, <4>2
    <3>2. \A i \in DOMAIN Jobs : Jobs[i] \in {"SEND_RESPONSE", "FREE_SESSION", "APPROX_FORWARD"}
      BY DEF Jobs
    <3>3. gtask.req \in RequestIds
      BY DEF TaskType
    <3> HIDE DEF TypeOK
    <3>4. \A i \in DOMAIN Jobs : [op |-> Jobs[i], req |-> gtask.req] \in JobType
      BY <3>2, <3>3 DEF JobType
    <3>5. QED
      BY <3>1, <3>4
  <2>4. gpc' = "take" /\ UNCHANGED << inputQ, gpuQ, outputQ, flags, decoder, gtask, gcanvas,
                                        gctx, rpc, client >>
    BY <1>14 DEF GpuRun
  <2>5. CASE Raised
    <3>1. sessions' = Without(gtask.req) /\ UNCHANGED << ctx, monitorQ >>
      BY <1>14, <2>5 DEF GpuRun
    <3>2. DOMAIN sessions' \subseteq RequestIds /\ sessions' \in [DOMAIN sessions' -> DOMAIN ctx']
      BY <3>1 DEF Without
    <3>3. QED
      BY <2>4, <3>1, <3>2 DEF decoder, client
  <2>6. CASE ~Raised
    <3>1. monitorQ' = monitorQ \o made /\ ctx' = [ctx EXCEPT ![gctx] = new] /\ UNCHANGED sessions
      BY <1>14, <2>6 DEF GpuRun
    <3> HIDE DEF made, new
    <3>2. monitorQ' \in Seq(JobType)
      BY <2>3, <3>1
    <3>3. ctx' \in Seq(ContextType) /\ DOMAIN ctx' = DOMAIN ctx
      BY <2>1, <2>2, <3>1, ContextTyped
    <3>4. QED
      BY <2>4, <3>1, <3>2, <3>3 DEF decoder, client
  <2>7. QED
    BY <2>5, <2>6
<1>15. CASE ReaperTake
  <2> DEFINE job == Head(monitorQ)
  <2>1. job \in JobType /\ monitorQ' \in Seq(JobType)
    BY <1>15, QueueTyped DEF ReaperTake
  <2>2. outputQ' \in Seq(SUBSET Pixels)
    <3>1. CASE outputQ' = outputQ
      BY <3>1
    <3>2. CASE Known(job.req) /\ outputQ' = Append(outputQ, ctx[sessions[job.req]].preds)
      <4>1. ctx[sessions[job.req]] \in ContextType
        BY <3>2 DEF Known
      <4>2. ctx[sessions[job.req]].preds \in SUBSET Pixels
        BY <4>1 DEF ContextType
      <4>3. QED
        BY <3>2, <4>2, QueueTyped
    <3>3. QED
      BY <1>15, <3>1, <3>2 DEF ReaperTake
  <2>3. sessions' = sessions \/ sessions' = Without(job.req)
    BY <1>15 DEF ReaperTake
  <2>4. DOMAIN sessions' \subseteq RequestIds /\ sessions' \in [DOMAIN sessions' -> DOMAIN ctx]
    BY <2>3 DEF Without
  <2>5. QED
    BY <1>15, <2>1, <2>2, <2>4 DEF ReaperTake, decoder, gpu, client
<1>16. CASE Stopped
  BY <1>16 DEF Stopped, vars, queues, decoder, gpu, client
<1>17. QED
  BY <1>1, <1>2, <1>3, <1>4, <1>5, <1>6, <1>7, <1>8, <1>9, <1>10, <1>11, <1>12, <1>13, <1>14,
     <1>15, <1>16, <1>18, <1>19, <1>20, <1>21, <1>22, <1>23, <1>24, <1>25, <1>26, <1>27
  DEF Next, ClientStep, DecoderStep, GpuStep

(* Type correctness: the queues, the contexts and the locals of the three   *)
(* threads keep their types for every number of images, groups, attempts    *)
(* and feedback-driven tasks (worker.py).                                   *)
THEOREM WorkerTypeOK == Spec => []TypeOK
<1>1. TypeOK /\ UNCHANGED vars => TypeOK'
  BY DEF TypeOK, vars, queues, decoder, gpu, client
<1>2. QED
  BY <1>1, TypeInit, TypeNext, PTL DEF Spec

-----------------------------------------------------------------------------
(* That no context holds foreign pixels is not inductive: a thread goes on  *)
(* with a context the dictionary has lost, and messages carry pixels and    *)
(* request ids ahead of it.  With one CONFIG the id of a request names its  *)
(* image (OwnTask, OwnMessage); a context is held by the dictionary under a *)
(* request id, or by a thread inside a task, always for one image, and its  *)
(* pixels are of that image.                                                *)
OwnTask == {task \in TaskType : task.req = task.image}
OwnMessage == {msg \in MessageType :
                  msg.task \in OwnTask /\ msg.canvas \subseteq OfImage(msg.task.image)}

Holds(i, c) ==
    \/ i \in DOMAIN sessions /\ sessions[i] = c
    \/ dpc \in {"read", "decode", "snapshot"} /\ dtask.image = i /\ dctx = c
    \/ gpc \in {"load", "run"} /\ gtask.image = i /\ gctx = c

OneOwner ==
    \A i, j \in RequestIds : \A c \in DOMAIN ctx : Holds(i, c) /\ Holds(j, c) => i = j
OwnPixels ==
    \A i \in RequestIds : \A c \in DOMAIN ctx :
        Holds(i, c) => PixelsOf(ctx[c]) \subseteq OfImage(i)

Messages ==
    /\ inputQ \in Seq(OwnMessage) /\ gpuQ \in Seq(OwnMessage)
    /\ dtask \in OwnTask /\ gtask \in OwnTask
    /\ dpc = "decode" => dcanvas \subseteq OfImage(dtask.image)
    /\ gcanvas \subseteq OfImage(gtask.image)

IInv == TypeOK /\ Messages /\ OneOwner /\ OwnPixels

(* With one CONFIG every task the client sends is its image's own.          *)
LEMMA TaskOwn ==
    ASSUME Resend = FALSE, NEW i \in 1..Images, NEW g \in Groups \cup {Feedback}
    PROVE  Task(i, g) \in OwnTask
BY TaskTyped DEF OwnTask, Task, RequestId

(* A message whose task is its image's own and whose canvas shows no other  *)
(* image is one a thread may carry.                                         *)
LEMMA MessageOwn ==
    ASSUME NEW type \in {"CONFIG", "TIME_SYNC", "STOP", "TASK"},
           NEW task \in OwnTask, NEW canvas \in SUBSET Pixels,
           canvas \subseteq OfImage(task.image)
    PROVE  Message(type, task, canvas) \in OwnMessage
BY MessageTyped DEF OwnTask, OwnMessage, Message

(* So is one that carries no canvas.                                        *)
LEMMA EmptyMessageOwn ==
    ASSUME NEW type \in {"CONFIG", "TIME_SYNC", "STOP", "TASK"}, NEW task \in OwnTask
    PROVE  Message(type, task, {}) \in OwnMessage
BY MessageOwn

(* The context a look-up finds is held for the request.                     *)
LEMMA FoundOwn ==
    ASSUME TypeOK, OwnPixels, NEW q \in RequestIds, Known(q)
    PROVE  Holds(q, sessions[q]) /\ PixelsOf(ctx[sessions[q]]) \subseteq OfImage(q)
<1>1. sessions[q] \in DOMAIN ctx
  BY Found
<1>2. Holds(q, sessions[q])
  BY DEF Known, Holds
<1>3. QED
  BY <1>1, <1>2 DEF OwnPixels

(* A step that leaves the contexts alone and lets some of them go.          *)
LEMMA Released ==
    ASSUME OneOwner, OwnPixels, ctx' = ctx,
           \A j \in RequestIds : \A d \in DOMAIN ctx : Holds(j, d)' => Holds(j, d)
    PROVE  OneOwner' /\ OwnPixels'
BY DEF OneOwner, OwnPixels

(* A step that adds pixels of image i to a context held for i, or new.      *)
LEMMA Painted ==
    ASSUME TypeOK, OneOwner, OwnPixels, NEW i \in RequestIds, NEW c \in DOMAIN ctx',
           Holds(i, c) \/ c \notin DOMAIN ctx,
           PixelsOf(ctx'[c]) \subseteq OfImage(i),
           \A d \in DOMAIN ctx' : d # c => d \in DOMAIN ctx /\ ctx'[d] = ctx[d],
           \A j \in RequestIds : \A d \in DOMAIN ctx' :
               Holds(j, d)' => Holds(j, d) \/ (j = i /\ d = c)
    PROVE  OneOwner' /\ OwnPixels'
<1>1. \A j \in RequestIds : \A d \in DOMAIN ctx' : Holds(j, d) => d \in DOMAIN ctx
  BY DEF TypeOK, Holds
<1>2. ASSUME NEW j \in RequestIds, Holds(j, c)'
      PROVE  j = i
  BY <1>1, <1>2 DEF OneOwner
<1>3. OneOwner'
  <2> SUFFICES ASSUME NEW j \in RequestIds, NEW k \in RequestIds, NEW d \in DOMAIN ctx',
                      Holds(j, d)', Holds(k, d)'
               PROVE  j = k
    BY DEF OneOwner
  <2>1. CASE d = c
    BY <1>2, <2>1
  <2>2. CASE d # c
    BY <2>2 DEF OneOwner
  <2>3. QED
    BY <2>1, <2>2
<1>4. OwnPixels'
  <2> SUFFICES ASSUME NEW j \in RequestIds, NEW d \in DOMAIN ctx', Holds(j, d)'
               PROVE  PixelsOf(ctx'[d]) \subseteq OfImage(j)
    BY DEF OwnPixels, PixelsOf, OfImage
  <2>1. CASE d = c
    BY <1>2, <2>1
  <2>2. CASE d # c
    BY <2>2 DEF OwnPixels
  <2>3. QED
    BY <2>1, <2>2
<1>5. QED
  BY <1>3, <1>4

(* The same for a context that was just created.                            *)
LEMMA CreatedOwn ==
    ASSUME TypeOK, OneOwner, OwnPixels, NEW q \in RequestIds, Create(q),
           \A j \in RequestIds : \A d \in DOMAIN ctx' :
               Holds(j, d)' => Holds(j, d) \/ (j = q /\ d = Len(ctx) + 1)
    PROVE  OneOwner' /\ OwnPixels'
<1> DEFINE c == Len(ctx) + 1
<1>1. /\ c \in DOMAIN ctx' /\ c \notin DOMAIN ctx /\ ctx'[c] = NewContext
      /\ \A d \in DOMAIN ctx' : d # c => d \in DOMAIN ctx /\ ctx'[d] = ctx[d]
  BY Created
<1>2. PixelsOf(NewContext) = {}
  BY DEF NewContext, PixelsOf
<1>3. PixelsOf(ctx'[c]) \subseteq OfImage(q)
  BY <1>1, <1>2
<1> HIDE DEF c
<1>4. QED
  BY <1>1, <1>3, Painted DEF c

(* And for one a thread paints: what the threads hold stays.                *)
LEMMA HeldPainted ==
    ASSUME TypeOK, OneOwner, OwnPixels, NEW i \in RequestIds, NEW c \in DOMAIN ctx, NEW new,
           Holds(i, c), PixelsOf(new) \subseteq OfImage(i), ctx' = [ctx EXCEPT ![c] = new],
           \A j \in RequestIds : \A d \in DOMAIN ctx : Holds(j, d)' => Holds(j, d)
    PROVE  OneOwner' /\ OwnPixels'
<1>1. /\ DOMAIN ctx' = DOMAIN ctx /\ ctx'[c] = new
      /\ \A d \in DOMAIN ctx' : d # c => ctx'[d] = ctx[d]
  BY DEF TypeOK
<1>2. QED
  BY <1>1, Painted

(* Messages and locals stay with their image.                               *)
LEMMA MessagesNext ==
    ASSUME Resend = FALSE, IInv, Next
    PROVE  Messages'
<1> USE DEF Messages
<1>1. TypeOK /\ Messages /\ OwnPixels
  BY DEF IInv
<1>2. NoTask \in OwnTask
  BY NoTaskTyped DEF OwnTask, NoTask, Task, RequestId
<1>3. \A type \in {"CONFIG", "TIME_SYNC", "STOP"} :
         Append(inputQ, Message(type, NoTask, {})) \in Seq(OwnMessage)
  <2>1. \A type \in {"CONFIG", "TIME_SYNC", "STOP"} : Message(type, NoTask, {}) \in OwnMessage
    BY <1>2, EmptyMessageOwn
  <2>2. QED
    BY <1>1, <2>1, QueueTyped
<1>4. \A g \in Groups \cup {Feedback} :
         Append(inputQ, Message("TASK", Task(image, g), {})) \in Seq(OwnMessage)
  <2> SUFFICES ASSUME NEW g \in Groups \cup {Feedback}
               PROVE  Append(inputQ, Message("TASK", Task(image, g), {})) \in Seq(OwnMessage)
    OBVIOUS
  <2>1. Task(image, g) \in OwnTask
    BY <1>1, TaskOwn DEF TypeOK
  <2>2. QED
    BY <1>1, <2>1, EmptyMessageOwn, QueueTyped
<1>5. CASE SendConfig
  <2>1. Append(Append(inputQ, Message("CONFIG", NoTask, {})), Message("TIME_SYNC", NoTask, {}))
            \in Seq(OwnMessage)
    BY <1>2, <1>3, EmptyMessageOwn, QueueTyped
  <2>2. inputQ' = Append(Append(inputQ, Message("CONFIG", NoTask, {})),
                         Message("TIME_SYNC", NoTask, {}))
    <3>1. inputQ \in Seq(OwnMessage)
      BY <1>1
    <3>2. QED
      BY <1>5, <3>1 DEF SendConfig
  <2>3. QED
    BY <1>1, <1>5, <2>1, <2>2 DEF SendConfig, decoder, gpu
<1>6. CASE ReceiveTimeSync
  BY <1>1, <1>6 DEF ReceiveTimeSync, decoder, gpu
<1>7. CASE SendGroup
  BY <1>1, <1>4, <1>7 DEF SendGroup, TypeOK, decoder, gpu
<1>8. CASE SendAhead
  BY <1>1, <1>4, <1>8 DEF SendAhead, decoder, gpu
<1>9. CASE ReceiveResult
  <2>1. inputQ' = inputQ \/ inputQ' = Append(inputQ, Message("STOP", NoTask, {}))
    BY <1>9 DEF ReceiveResult
  <2>2. QED
    BY <1>1, <1>3, <1>9, <2>1 DEF ReceiveResult, decoder, gpu
<1>10. CASE Retry
  BY <1>1, <1>10 DEF Retry, queues, decoder, gpu
<1>11. CASE Abort
  BY <1>1, <1>3, <1>11 DEF Abort, decoder, gpu
<1>12. CASE DecoderTake
  <2>1. Head(inputQ) \in OwnMessage /\ inputQ' \in Seq(OwnMessage)
    BY <1>1, <1>12, QueueTyped DEF DecoderTake
  <2>2. Append(gpuQ, Head(inputQ)) \in Seq(OwnMessage)
    BY <1>1, <2>1, QueueTyped
  <2>3. gpuQ' \in Seq(OwnMessage) /\ dtask' \in OwnTask /\ dpc' # "decode"
    BY <1>1, <1>12, <2>1, <2>2 DEF DecoderTake, OwnMessage
  <2>4. QED
    BY <1>1, <1>12, <2>1, <2>3 DEF DecoderTake, gpu
<1>13. CASE DecoderOpen \/ DecoderCreate \/ DecoderFind
  BY <1>1, <1>13 DEF DecoderOpen, DecoderCreate, DecoderFind, queues, gpu
<1>22. CASE DecoderRead
  <2>1. /\ dtask.image \in RequestIds /\ dctx \in DOMAIN ctx /\ Holds(dtask.image, dctx)
    BY <1>1, <1>22 DEF DecoderRead, Holds, TypeOK, TaskType, RequestIds
  <2>2. ctx[dctx].canvas \subseteq OfImage(dtask.image)
    BY <1>1, <2>1 DEF OwnPixels, PixelsOf
  <2>3. QED
    BY <1>1, <1>22, <2>2 DEF DecoderRead, queues, gpu
<1>14. CASE DecoderAssign
  BY <1>1, <1>14 DEF DecoderAssign, queues, gpu
<1>15. CASE DecoderSnapshot
  <2>1. /\ dtask.image \in RequestIds /\ dctx \in DOMAIN ctx /\ Holds(dtask.image, dctx)
        /\ ctx[dctx] \in ContextType
    BY <1>1, <1>15 DEF DecoderSnapshot, Holds, TypeOK, TaskType, RequestIds
  <2>2. ctx[dctx].canvas \subseteq OfImage(dtask.image) /\ ctx[dctx].canvas \in SUBSET Pixels
    BY <1>1, <2>1 DEF OwnPixels, PixelsOf, ContextType
  <2>3. Message("TASK", dtask, ctx[dctx].canvas) \in OwnMessage
    BY <1>1, <2>2, MessageOwn
  <2>4. gpuQ' \in Seq(OwnMessage)
    BY <1>1, <1>15, <2>3, QueueTyped DEF DecoderSnapshot
  <2>5. QED
    BY <1>1, <1>15, <2>4 DEF DecoderSnapshot, gpu
<1>16. CASE GpuTask
  <2>1. Head(gpuQ) \in OwnMessage /\ gpuQ' \in Seq(OwnMessage)
    BY <1>1, <1>16, QueueTyped DEF GpuTask
  <2>2. gtask' = Head(gpuQ).task /\ gcanvas' = Head(gpuQ).canvas
    BY <1>16 DEF GpuTask
  <2>3. gtask' \in OwnTask /\ gcanvas' \subseteq OfImage(gtask'.image)
    BY <2>1, <2>2 DEF OwnMessage
  <2>4. QED
    BY <1>1, <1>16, <2>1, <2>3 DEF GpuTask, decoder, OfImage
<1>17. CASE GpuStop \/ GpuConfig \/ GpuTimeSync
  <2>1. gpuQ' \in Seq(OwnMessage)
    BY <1>1, <1>17, QueueTyped DEF GpuStop, GpuConfig, GpuTimeSync
  <2>2. QED
    BY <1>1, <1>17, <2>1 DEF GpuStop, GpuConfig, GpuTimeSync, decoder, gpu
<1>23. CASE GpuCreate \/ GpuUpdate \/ GpuOpen \/ GpuFind \/ GpuLoad
  BY <1>1, <1>23 DEF GpuCreate, GpuUpdate, GpuOpen, GpuFind, GpuLoad, queues, decoder
<1>18. CASE GpuRun
  BY <1>1, <1>18 DEF GpuRun, decoder
<1>19. CASE ReaperTake
  BY <1>1, <1>19 DEF ReaperTake, decoder, gpu
<1>20. CASE Stopped
  BY <1>1, <1>20 DEF Stopped, vars, queues, decoder, gpu
<1>21. QED
  BY <1>5, <1>6, <1>7, <1>8, <1>9, <1>10, <1>11, <1>12, <1>13, <1>14, <1>15, <1>16, <1>17,
     <1>18, <1>19, <1>20, <1>22, <1>23 DEF Next, ClientStep, DecoderStep, GpuStep

(* Every step leaves each context held for one image and painted with it.   *)
LEMMA OwnershipNext ==
    ASSUME IInv, Next
    PROVE  OneOwner' /\ OwnPixels'
<1>1. TypeOK /\ Messages /\ OneOwner /\ OwnPixels
  BY DEF IInv
<1>2. /\ dtask.image \in RequestIds /\ dtask.req = dtask.image
      /\ gtask.image \in RequestIds /\ gtask.req = gtask.image
  BY <1>1 DEF Messages, OwnTask, TaskType
<1>3. CASE ClientStep
  <2>1. UNCHANGED << ctx, sessions, decoder, gpu >>
    BY <1>3 DEF ClientStep, SendConfig, ReceiveTimeSync, SendGroup, SendAhead, ReceiveResult,
                Retry, Abort
  <2>2. QED
    BY <1>1, <2>1, Released DEF Holds, decoder, gpu
<1>4. CASE DecoderTake
  BY <1>1, <1>4, Released DEF DecoderTake, Holds, gpu
<1>5. CASE DecoderOpen
  BY <1>1, <1>5, Released DEF DecoderOpen, Holds, gpu
<1>14. CASE DecoderCreate
  <2> DEFINE q == dtask.req
  <2>1. Create(q) /\ dpc' = "find" /\ dpc = "create" /\ UNCHANGED << dtask, dctx, gpu >>
    BY <1>14 DEF DecoderCreate
  <2>2. /\ DOMAIN sessions' = DOMAIN sessions \cup {q} /\ sessions'[q] = Len(ctx) + 1
        /\ \A p \in DOMAIN sessions : p # q => sessions'[p] = sessions[p]
    BY <1>1, <1>2, <2>1, Created
  <2>3. \A j \in RequestIds : \A d \in DOMAIN ctx' :
           Holds(j, d)' => Holds(j, d) \/ (j = q /\ d = Len(ctx) + 1)
    BY <2>1, <2>2 DEF Holds, gpu
  <2>4. QED
    BY <1>1, <1>2, <2>1, <2>3, CreatedOwn
<1>15. CASE DecoderFind
  <2>1. \A j \in RequestIds : \A d \in DOMAIN ctx : Holds(j, d)' => Holds(j, d)
    BY <1>2, <1>15 DEF DecoderFind, Holds, Known, gpu
  <2>2. QED
    BY <1>1, <1>15, <2>1, Released DEF DecoderFind
<1>16. CASE DecoderRead
  <2> DEFINE joined == IF incremental THEN ctx[dctx].patches
                       ELSE ctx[dctx].patches \cup {<< dtask.image, dtask.gid >>}
             new == [ctx[dctx] EXCEPT !.patches = joined]
  <2>1. Holds(dtask.image, dctx) /\ dctx \in DOMAIN ctx /\ ctx[dctx] \in ContextType
    BY <1>1, <1>16 DEF DecoderRead, Holds, TypeOK
  <2>2. /\ ctx' = [ctx EXCEPT ![dctx] = new] /\ dpc = "read" /\ dpc' = "decode"
        /\ UNCHANGED << sessions, dtask, dctx, gpu >>
    BY <1>16 DEF DecoderRead
  <2>3. PixelsOf(new) \subseteq OfImage(dtask.image)
    <3>1. PixelsOf(ctx[dctx]) \subseteq OfImage(dtask.image)
      BY <1>1, <1>2, <2>1 DEF OwnPixels
    <3>2. << dtask.image, dtask.gid >> \in OfImage(dtask.image)
      BY <1>1, <2>2 DEF TypeOK, OfImage
    <3>3. joined \subseteq OfImage(dtask.image)
      BY <3>1, <3>2 DEF PixelsOf
    <3>4. QED
      BY <2>1, <3>1, <3>3 DEF PixelsOf, ContextType
  <2> HIDE DEF new
  <2>4. \A j \in RequestIds : \A d \in DOMAIN ctx : Holds(j, d)' => Holds(j, d)
    BY <2>2 DEF Holds, gpu
  <2>5. QED
    BY <1>1, <1>2, <2>1, <2>2, <2>3, <2>4, HeldPainted
<1>6. CASE DecoderAssign
  <2>1. Holds(dtask.image, dctx) /\ dctx \in DOMAIN ctx /\ ctx[dctx] \in ContextType
    BY <1>1, <1>6 DEF DecoderAssign, Holds, TypeOK
  <2>2. Decoded(ctx[dctx]) \subseteq OfImage(dtask.image)
    <3>1. ctx[dctx].patches \subseteq OfImage(dtask.image)
      BY <1>1, <1>2, <2>1 DEF OwnPixels, PixelsOf
    <3>2. dtask.gid \in Groups /\ 0 \in Groups /\ dcanvas \subseteq OfImage(dtask.image)
      BY <1>1, <1>6 DEF DecoderAssign, TypeOK, Messages, Groups
    <3>3. QED
      BY <3>1, <3>2 DEF Decoded, OfImage
  <2>3. /\ ctx' = [ctx EXCEPT ![dctx] = [ctx[dctx] EXCEPT !.canvas = Decoded(ctx[dctx])]]
        /\ UNCHANGED << sessions, dtask, dctx, gpu >> /\ dpc' = "snapshot"
    BY <1>6 DEF DecoderAssign
  <2>4. PixelsOf(ctx'[dctx]) \subseteq OfImage(dtask.image)
    <3>1. PixelsOf(ctx[dctx]) \subseteq OfImage(dtask.image)
      BY <1>1, <1>2, <2>1 DEF OwnPixels
    <3>2. ctx'[dctx] = [ctx[dctx] EXCEPT !.canvas = Decoded(ctx[dctx])]
      BY <1>1, <2>1, <2>3 DEF TypeOK
    <3>3. QED
      BY <2>1, <2>2, <3>1, <3>2 DEF PixelsOf, ContextType
  <2>5. DOMAIN ctx' = DOMAIN ctx /\ \A d \in DOMAIN ctx' : d # dctx => ctx'[d] = ctx[d]
    BY <1>1, <2>1, <2>3 DEF TypeOK
  <2>6. \A j \in RequestIds : \A d \in DOMAIN ctx' : Holds(j, d)' => Holds(j, d)
    BY <1>6, <2>3 DEF Holds, DecoderAssign, gpu
  <2>7. QED
    BY <1>1, <1>2, <2>1, <2>4, <2>5, <2>6, Painted
<1>7. CASE DecoderSnapshot
  BY <1>1, <1>7, Released DEF DecoderSnapshot, Holds, gpu
<1>8. CASE GpuStop \/ GpuConfig \/ GpuTimeSync \/ GpuTask
  <2>1. ctx' = ctx /\ (sessions' = sessions \/ sessions' = << >>) /\ UNCHANGED decoder
        /\ (gpc' \in {"load", "run"} => gpc' = gpc /\ UNCHANGED << gtask, gctx >>)
    BY <1>8 DEF GpuStop, GpuConfig, GpuTimeSync, GpuTask, gpu
  <2>2. QED
    BY <1>1, <2>1, Released DEF Holds, decoder
<1>17. CASE GpuCreate
  <2> DEFINE q == gtask.req
  <2>1. Create(q) /\ gpc' \in {"update", "find"} /\ UNCHANGED decoder
    BY <1>17 DEF GpuCreate
  <2>2. /\ DOMAIN sessions' = DOMAIN sessions \cup {q} /\ sessions'[q] = Len(ctx) + 1
        /\ \A p \in DOMAIN sessions : p # q => sessions'[p] = sessions[p]
    BY <1>1, <1>2, <2>1, Created
  <2>3. \A j \in RequestIds : \A d \in DOMAIN ctx' :
           Holds(j, d)' => Holds(j, d) \/ (j = q /\ d = Len(ctx) + 1)
    BY <2>1, <2>2 DEF Holds, decoder
  <2>4. QED
    BY <1>1, <1>2, <2>1, <2>3, CreatedOwn
<1>18. CASE GpuUpdate
  <2>1. CASE Known(gtask.req)
    <3> DEFINE c == sessions[gtask.req]
               new == [ctx[c] EXCEPT !.canvas = gcanvas]
    <3>1. /\ Holds(gtask.image, c) /\ c \in DOMAIN ctx /\ ctx[c] \in ContextType
          /\ PixelsOf(ctx[c]) \subseteq OfImage(gtask.image)
      BY <1>1, <1>2, <2>1, Found, FoundOwn
    <3>2. /\ ctx' = [ctx EXCEPT ![c] = new] /\ gpc' = "open" /\ UNCHANGED << sessions, decoder >>
      BY <1>18, <2>1 DEF GpuUpdate
    <3>3. PixelsOf(new) \subseteq OfImage(gtask.image)
      BY <1>1, <3>1 DEF PixelsOf, ContextType, Messages
    <3> HIDE DEF new, c
    <3>4. \A j \in RequestIds : \A d \in DOMAIN ctx : Holds(j, d)' => Holds(j, d)
      BY <3>2 DEF Holds, decoder
    <3>5. QED
      BY <1>1, <1>2, <3>1, <3>2, <3>3, <3>4, HeldPainted
  <2>2. CASE ~Known(gtask.req)
    <3>1. UNCHANGED << ctx, sessions, decoder >> /\ gpc' = "take"
      BY <1>18, <2>2 DEF GpuUpdate
    <3>2. QED
      BY <1>1, <3>1, Released DEF Holds, decoder
  <2>3. QED
    BY <2>1, <2>2
<1>19. CASE GpuOpen
  <2>1. UNCHANGED << ctx, sessions, decoder >> /\ gpc' \in {"find", "recreate"}
    BY <1>19 DEF GpuOpen
  <2>2. QED
    BY <1>1, <2>1, Released DEF Holds, decoder
<1>20. CASE GpuFind
  <2>1. \A j \in RequestIds : \A d \in DOMAIN ctx : Holds(j, d)' => Holds(j, d)
    BY <1>2, <1>20 DEF GpuFind, Holds, Known, decoder
  <2>2. QED
    BY <1>1, <1>20, <2>1, Released DEF GpuFind
<1>9. CASE GpuLoad
  <2> DEFINE seen == IF gtask.gid = Feedback \/ ctx[gctx].canvas = {}
                     THEN ctx[gctx].input ELSE ctx[gctx].canvas
             new == [ctx[gctx] EXCEPT !.input = seen]
  <2>1. Holds(gtask.image, gctx) /\ gctx \in DOMAIN ctx /\ ctx[gctx] \in ContextType
    BY <1>1, <1>9 DEF GpuLoad, Holds, TypeOK
  <2>2. /\ ctx' = [ctx EXCEPT ![gctx] = new] /\ gpc = "load" /\ gpc' = "run"
        /\ UNCHANGED << sessions, decoder, gtask, gctx >>
    BY <1>9 DEF GpuLoad
  <2>3. PixelsOf(new) \subseteq OfImage(gtask.image)
    <3>1. PixelsOf(ctx[gctx]) \subseteq OfImage(gtask.image)
      BY <1>1, <1>2, <2>1 DEF OwnPixels
    <3>2. QED
      BY <2>1, <3>1 DEF PixelsOf, ContextType
  <2> HIDE DEF new
  <2>4. \A j \in RequestIds : \A d \in DOMAIN ctx : Holds(j, d)' => Holds(j, d)
    BY <2>2 DEF Holds, decoder
  <2>5. QED
    BY <1>1, <1>2, <2>1, <2>2, <2>3, <2>4, HeldPainted
<1>10. CASE GpuRun
  <2> DEFINE new == [ctx[gctx] EXCEPT !.approx = @ \/ ctx[gctx].input # {},
                                      !.preds = IF gtask.gid = LastGroup
                                                THEN ctx[gctx].input ELSE @]
  <2>1. /\ gpc = "run" /\ gpc' = "take" /\ UNCHANGED decoder
        /\ Holds(gtask.image, gctx) /\ gctx \in DOMAIN ctx /\ ctx[gctx] \in ContextType
    BY <1>1, <1>10 DEF GpuRun, Holds, TypeOK
  <2>2. CASE Raised
    <3>1. ctx' = ctx /\ sessions' = Without(gtask.req)
      BY <1>10, <2>2 DEF GpuRun
    <3>2. QED
      BY <1>1, <2>1, <3>1, Released DEF Holds, Without, decoder
  <2>3. CASE ~Raised
    <3>1. ctx' = [ctx EXCEPT ![gctx] = new] /\ sessions' = sessions
      BY <1>10, <2>3 DEF GpuRun
    <3>2. PixelsOf(ctx[gctx]) \subseteq OfImage(gtask.image)
      BY <1>1, <1>2, <2>1 DEF OwnPixels
    <3>3. PixelsOf(new) \subseteq OfImage(gtask.image)
      BY <2>1, <3>2 DEF PixelsOf, ContextType
    <3> HIDE DEF new
    <3>4. /\ DOMAIN ctx' = DOMAIN ctx /\ ctx'[gctx] = new
          /\ \A d \in DOMAIN ctx' : d # gctx => ctx'[d] = ctx[d]
      BY <1>1, <2>1, <3>1 DEF TypeOK
    <3>5. \A j \in RequestIds : \A d \in DOMAIN ctx' : Holds(j, d)' => Holds(j, d)
      BY <2>1, <3>1 DEF Holds, decoder
    <3>6. QED
      BY <1>1, <1>2, <2>1, <3>3, <3>4, <3>5, Painted
  <2>4. QED
    BY <2>2, <2>3
<1>11. CASE ReaperTake
  <2>1. /\ UNCHANGED << ctx, decoder, gpu >>
        /\ sessions' = sessions \/ sessions' = Without(Head(monitorQ).req)
    BY <1>11 DEF ReaperTake
  <2>2. QED
    BY <1>1, <2>1, Released DEF Holds, Without, decoder, gpu
<1>12. CASE Stopped
  BY <1>1, <1>12, Released DEF Stopped, vars, Holds, decoder, gpu
<1>13. QED
  BY <1>3, <1>4, <1>5, <1>6, <1>7, <1>8, <1>9, <1>10, <1>11, <1>12, <1>14, <1>15, <1>16, <1>17,
     <1>18, <1>19, <1>20
  DEF Next, DecoderStep, GpuStep

(* The invariant holds initially ...                                        *)
LEMMA IInvInit ==
    ASSUME Resend = FALSE, Init
    PROVE  IInv
<1>1. inputQ \in Seq(OwnMessage) /\ gpuQ \in Seq(OwnMessage) /\ dpc # "decode"
  BY DEF Init
<1>2. dtask \in OwnTask /\ gtask \in OwnTask /\ gcanvas \subseteq OfImage(gtask.image)
  BY NoTaskTyped DEF Init, OwnTask, NoTask, Task, RequestId
<1>3. OneOwner /\ OwnPixels
  <2>1. DOMAIN ctx = {}
    BY DEF Init
  <2>2. QED
    BY <2>1 DEF OneOwner, OwnPixels
<1>4. QED
  BY <1>1, <1>2, <1>3, TypeInit DEF IInv, Messages

(* ... and every step keeps it.                                             *)
LEMMA IInvNext ==
    ASSUME Resend = FALSE, IInv, [Next]_vars
    PROVE  IInv'
<1>1. CASE Next
  BY <1>1, TypeNext, MessagesNext, OwnershipNext DEF IInv
<1>2. CASE UNCHANGED vars
  <2>1. TypeOK'
    BY <1>2 DEF IInv, TypeOK, vars, queues, decoder, gpu, client
  <2>2. Messages'
    BY <1>2 DEF IInv, Messages, vars, queues, decoder, gpu
  <2>3. OneOwner' /\ OwnPixels'
    <3>1. \A i \in RequestIds : \A c \in DOMAIN ctx : Holds(i, c)' => Holds(i, c)
      BY <1>2 DEF Holds, vars, decoder, gpu
    <3>2. QED
      BY <1>2, <3>1, Released DEF IInv, vars
  <2>4. QED
    BY <2>1, <2>2, <2>3 DEF IInv
<1>3. QED
  BY <1>1, <1>2

(* The two threads share the contexts without a lock, and snapshots and     *)
(* locals outlive the dictionary's entries (worker.py 154-157, 197-224,     *)
(* 283-288, 503-506): with one CONFIG per run, no context is ever painted   *)
(* with pixels of an image other than its request's, for every number of    *)
(* images and groups, rebuilt or updated in place.                          *)
THEOREM WorkerNoForeignPixels ==
    ASSUME Resend = FALSE
    PROVE  Spec => []NoForeignPixels
<1>1. IInv => NoForeignPixels
  BY DEF IInv, TypeOK, OwnPixels, NoForeignPixels, Holds
<1>2. Init => IInv
  BY IInvInit
<1>3. IInv /\ [Next]_vars => IInv'
  BY IInvNext
<1>4. QED
  BY <1>1, <1>2, <1>3, PTL DEF Spec

-----------------------------------------------------------------------------
(* The way of the messages, from the GPU thread back to the client: what    *)
(* the two threads hold is still on it.                                     *)
DecoderAt == {"open", "create", "find", "read", "decode", "snapshot"}
GpuAt == {"create", "update", "open", "recreate", "find", "load", "run"}
Running == IF gpc \in GpuAt THEN << Message("TASK", gtask, {}) >> ELSE << >>
Decoding == IF dpc \in DecoderAt THEN << Message("TASK", dtask, {}) >> ELSE << >>
Line == << Running, gpuQ, Decoding, inputQ >>
Places == 1..4
Clear(line) == \A k \in Places : line[k] = << >>

(* What may have something behind it, and something in front of it.         *)
CanPrecede(msg) ==
    msg.type = "CONFIG" \/ (msg.type = "TASK" /\ msg.task.gid # LastGroup)
CanFollow(msg) ==
    msg.type = "TIME_SYNC" \/ (msg.type = "TASK" /\ msg.task.gid # 0)
Sorted(line) ==
    \A k, l \in Places : \A i \in DOMAIN line[k] : \A j \in DOMAIN line[l] :
        k < l \/ (k = l /\ i < j) => CanPrecede(line[k][i]) /\ CanFollow(line[l][j])

(* What the client may have on the way in its present phase.                *)
Proper(msg) ==
    /\ msg.type \in {"CONFIG", "TIME_SYNC"} => phase = "sync"
    /\ msg.type = "STOP" => phase = "done"
    /\ msg.type = "TASK" => /\ msg.task.image = image
                            /\ sent > 0
                            /\ phase = IF msg.task.gid = LastGroup THEN "wait" ELSE phase
                            /\ phase \in {"send", "wait"}
Flow == \A k \in Places : \A i \in DOMAIN Line[k] : Proper(Line[k][i])

Start ==
    /\ phase \in {"config", "sync"} => sent = 0
    /\ phase = "config" => Clear(Line)
    /\ phase = "send" /\ sent = 0 => Clear(Line)

Stream == Sorted(Line) /\ Flow /\ Start

-----------------------------------------------------------------------------
(* The answers.                                                             *)
Job(op, q) == [op |-> op, req |-> q]
Freeing(q) == \E j \in DOMAIN monitorQ : monitorQ[j] = Job("FREE_SESSION", q)

(* A response still to be sent is the current image's, the only one, and    *)
(* its session is freed right after it.                                     *)
Responses ==
    \A j \in DOMAIN monitorQ : monitorQ[j].op = "SEND_RESPONSE" =>
        /\ monitorQ[j].req = image /\ phase = "wait" /\ Clear(Line) /\ outputQ = << >>
        /\ Known(image) /\ ctx[sessions[image]].preds # {}
        /\ j + 1 \in DOMAIN monitorQ /\ monitorQ[j + 1] = Job("FREE_SESSION", image)
        /\ \A i \in 1..j - 1 : monitorQ[i].op # "SEND_RESPONSE"
                               /\ monitorQ[i] # Job("FREE_SESSION", image)

(* A result the client has not taken is the only one, of the request it     *)
(* waits for.                                                               *)
Results ==
    outputQ # << >> =>
        /\ Len(outputQ) = 1 /\ Clear(Line) /\ phase \in {"sync", "wait"}
        /\ phase = "wait" => /\ outputQ[1] # {} /\ outputQ[1] \subseteq OfImage(image)
                             /\ \A j \in DOMAIN monitorQ : monitorQ[j].op # "SEND_RESPONSE"

Answered ==
    /\ Len(answers) = IF phase = "done" THEN image ELSE image - 1
    /\ \A i \in DOMAIN answers : answers[i] # {} /\ answers[i] \subseteq OfImage(i)

(* A session is freed once its image has been answered, and not before.     *)
Freed ==
    /\ \A q \in DOMAIN sessions :
          Freeing(q) \/ (q = image /\ phase \in {"send", "wait"} /\ outputQ = << >>)
    /\ \A j \in DOMAIN monitorQ : monitorQ[j].op = "FREE_SESSION" =>
          \/ monitorQ[j].req < image
          \/ monitorQ[j].req = image /\ (phase = "done" \/ (phase = "wait" /\ Clear(Line)))

(* STOP is the last job there is.                                           *)
Ends ==
    /\ \A i, j \in DOMAIN monitorQ : i < j => monitorQ[i].op # "STOP"
    /\ \A i \in DOMAIN monitorQ : monitorQ[i].op = "STOP" => gpc = "stopped"
    /\ rpc = "stopped" => monitorQ = << >> /\ gpc = "stopped"
    /\ gpc = "stopped" => phase = "done"

Replies == Responses /\ Results /\ Answered /\ Freed /\ Ends

-----------------------------------------------------------------------------
(* The canvases.                                                            *)
Base == << image, 0 >>

(* The image's base group has not been decoded yet.                         *)
IsBase(msg) == msg.type = "TASK" /\ msg.task.gid = 0
HasBase(queue) == \E i \in DOMAIN queue : IsBase(queue[i])
Undecoded == HasBase(inputQ) \/ (dpc \in DecoderAt \ {"snapshot"} /\ dtask.gid = 0)

(* The GPU thread has not finished with it yet.                             *)
BaseDue ==
    \/ HasBase(inputQ) \/ (dpc \in DecoderAt /\ dtask.gid = 0)
    \/ HasBase(gpuQ) \/ (gpc \in GpuAt /\ gtask.gid = 0)

(* Tasks of the image are on their way, or still to come.                   *)
Begun == sent > 0 /\ (phase = "send" \/ (phase = "wait" /\ ~Clear(Line)))

Painting ==
    Begun /\ ~Undecoded =>
        /\ Known(image) /\ Base \in ctx[sessions[image]].canvas
        /\ ~incremental => Base \in ctx[sessions[image]].patches
Approximated == Begun /\ ~BaseDue => Known(image) /\ ctx[sessions[image]].approx
Snapshots == \A i \in DOMAIN gpuQ : gpuQ[i].type = "TASK" => Base \in gpuQ[i].canvas
DecoderBase ==
    dpc = "decode" => IF incremental THEN dtask.gid = 0 \/ Base \in dcanvas
                      ELSE Base \in ctx[dctx].patches
Loaded == gpc = "run" /\ gtask.gid # Feedback => Base \in ctx[gctx].input

Canvases ==
    /\ Painting /\ Approximated /\ Snapshots /\ DecoderBase /\ Loaded
    /\ ContextLive /\ BasePresent

-----------------------------------------------------------------------------
(* The look-ups: what a thread has seen in the dictionary is still there    *)
(* when it looks again, and only the decoder, for a base group, finds that  *)
(* a request has no context.                                                *)
Serving ==
    /\ executor = ready /\ (DOMAIN sessions # {} => ready)
    /\ dpc \in DecoderAt \ {"open"} => ready
    /\ dpc = "create" => dtask.gid = 0
    /\ dpc = "find" => Known(dtask.req)
    /\ gpc \notin {"create", "recreate"}
    /\ gpc = "update" => << gtask.image, 0 >> \in gcanvas

SInv == IInv /\ Stream /\ Replies /\ Canvases /\ Serving

-----------------------------------------------------------------------------
(* Lemmas about one queue.                                                  *)
LEMMA QueueAppend ==
    ASSUME NEW S, NEW s \in Seq(S), NEW e \in S
    PROVE  /\ Len(Append(s, e)) = Len(s) + 1 /\ DOMAIN Append(s, e) = 1..Len(s) + 1
           /\ DOMAIN s = 1..Len(s) /\ Len(s) \in Nat
           /\ \A i \in DOMAIN Append(s, e) :
                 \/ i \in DOMAIN s /\ Append(s, e)[i] = s[i]
                 \/ i = Len(s) + 1 /\ Append(s, e)[i] = e
           /\ \A i \in DOMAIN s : i \in DOMAIN Append(s, e) /\ Append(s, e)[i] = s[i]
           /\ Append(s, e)[Len(s) + 1] = e
OBVIOUS

(* What is left when the first element of a queue is taken.                 *)
LEMMA QueueTail ==
    ASSUME NEW S, NEW s \in Seq(S), s # << >>
    PROVE  /\ Len(Tail(s)) = Len(s) - 1 /\ DOMAIN s = 1..Len(s) /\ Len(s) \in Nat \ {0}
           /\ DOMAIN Tail(s) = 1..Len(s) - 1
           /\ 1 \in DOMAIN s /\ Head(s) = s[1]
           /\ \A i \in DOMAIN Tail(s) : i + 1 \in DOMAIN s /\ Tail(s)[i] = s[i + 1]
           /\ \A i \in DOMAIN s : i # 1 => i - 1 \in DOMAIN Tail(s) /\ Tail(s)[i - 1] = s[i]
OBVIOUS

-----------------------------------------------------------------------------
(* Lemmas about the line.                                                   *)
Lines == [Places -> Seq(MessageType)]
Drop(line, a) == [line EXCEPT ![a] = Tail(line[a])]
Add(line, a, x) == [line EXCEPT ![a] = Append(line[a], x)]
Within(line, set) == \A k \in Places : \A i \in DOMAIN line[k] : line[k][i] \in set
Orderly(line, set) == line \in Lines /\ Sorted(line) /\ Within(line, set)

(* A message leaves: what is behind it stays in order, and nothing is if it *)
(* was the first of all and has nothing behind it.                          *)
LEMMA LineDrop ==
    ASSUME NEW S, NEW line, Orderly(line, S), NEW a \in Places, line[a] # << >>
    PROVE  /\ Orderly(Drop(line, a), S)
           /\ Head(line[a]) \in S /\ Head(line[a]) \in MessageType
           /\ (\A k \in 1..a - 1 : line[k] = << >>) /\ ~CanPrecede(Head(line[a]))
                 => Clear(Drop(line, a))
<1> DEFINE q == line[a]
           new == Drop(line, a)
<1>0. q \in Seq(MessageType) /\ q # << >> /\ line \in Lines
  BY DEF Lines, Orderly
<1>1. /\ Tail(q) \in Seq(MessageType) /\ Head(q) = q[1] /\ 1 \in DOMAIN q /\ q[1] \in MessageType
      /\ \A i \in DOMAIN Tail(q) : i + 1 \in DOMAIN q /\ Tail(q)[i] = q[i + 1] /\ 1 < i + 1
  BY <1>0
<1>2. new \in Lines /\ new[a] = Tail(q) /\ \A k \in Places \ {a} : new[k] = line[k]
  BY <1>0, <1>1 DEF Lines, Drop
<1>3. \A i, j \in DOMAIN Tail(q) : i \in Int /\ j \in Int /\ (i < j => i + 1 < j + 1)
  BY <1>1
<1> HIDE DEF q, new
<1>4. line[a] = q
  BY DEF q
<1>5. Sorted(line) /\ Within(line, S)
  BY DEF Orderly
<1>6. Within(new, S) /\ q[1] \in S
  BY <1>1, <1>2, <1>4, <1>5 DEF Within
<1>7. Sorted(new)
  <2> SUFFICES ASSUME NEW k \in Places, NEW l \in Places,
                      NEW i \in DOMAIN new[k], NEW j \in DOMAIN new[l],
                      k < l \/ (k = l /\ i < j)
               PROVE  CanPrecede(new[k][i]) /\ CanFollow(new[l][j])
    BY DEF Sorted
  <2>1. k # a => i \in DOMAIN line[k] /\ new[k][i] = line[k][i]
    BY <1>2
  <2>2. k = a => i + 1 \in DOMAIN line[k] /\ new[k][i] = line[k][i + 1]
    BY <1>1, <1>2, <1>4
  <2>3. l # a => j \in DOMAIN line[l] /\ new[l][j] = line[l][j]
    BY <1>2
  <2>4. l = a => j + 1 \in DOMAIN line[l] /\ new[l][j] = line[l][j + 1]
    BY <1>1, <1>2, <1>4
  <2>5. CASE k < l
    BY <1>5, <2>1, <2>2, <2>3, <2>4, <2>5 DEF Sorted
  <2>6. CASE k = l /\ i < j
    <3>1. CASE k = a
      BY <1>2, <1>3, <1>5, <2>2, <2>4, <2>6, <3>1 DEF Sorted
    <3>2. CASE k # a
      BY <1>5, <2>1, <2>3, <2>6, <3>2 DEF Sorted
    <3>3. QED
      BY <3>1, <3>2
  <2>7. QED
    BY <2>5, <2>6
<1>8. ASSUME \A k \in 1..a - 1 : line[k] = << >>, ~CanPrecede(q[1])
      PROVE  Clear(new)
  <2>1. \A k \in Places : k > a => line[k] = << >>
    <3> SUFFICES ASSUME NEW k \in Places, k > a, line[k] # << >> PROVE FALSE
      OBVIOUS
    <3>1. 1 \in DOMAIN line[k]
      BY <1>0 DEF Lines
    <3>2. QED
      BY <1>1, <1>4, <1>5, <1>8, <3>1 DEF Sorted, Places
  <2>2. Tail(q) = << >>
    <3> SUFFICES ASSUME Tail(q) # << >> PROVE FALSE
      OBVIOUS
    <3>1. 1 \in DOMAIN Tail(q)
      BY <1>1
    <3>2. 2 \in DOMAIN q
      BY <1>1, <3>1
    <3>3. QED
      BY <1>1, <1>4, <1>5, <1>8, <3>2 DEF Sorted, Places
  <2>3. \A k \in Places : k < a => line[k] = << >>
    BY <1>8 DEF Places
  <2>4. \A k \in Places : k < a \/ k = a \/ k > a
    BY DEF Places
  <2>5. \A k \in Places : k # a => new[k] = << >>
    BY <1>2, <2>1, <2>3, <2>4
  <2>6. QED
    BY <1>2, <2>2, <2>5 DEF Clear
<1>9. QED
  BY <1>1, <1>2, <1>4, <1>6, <1>7, <1>8 DEF Orderly, new

(* A message joins: it may stand behind what is in front of it, and in      *)
(* front of what is behind it.                                              *)
LEMMA LineAdd ==
    ASSUME NEW S, NEW line, Orderly(line, S), NEW a \in Places, NEW x \in MessageType, x \in S,
           \A k \in Places : \A i \in DOMAIN line[k] :
               IF k <= a THEN CanPrecede(line[k][i]) /\ CanFollow(x)
                         ELSE CanPrecede(x) /\ CanFollow(line[k][i])
    PROVE  Orderly(Add(line, a, x), S)
<1> DEFINE q == line[a]
           new == Add(line, a, x)
<1>0. q \in Seq(MessageType) /\ line \in Lines
  BY DEF Lines, Orderly
<1>1. /\ Append(q, x) \in Seq(MessageType)
      /\ \A i \in DOMAIN Append(q, x) :
            \/ i \in DOMAIN q /\ Append(q, x)[i] = q[i] /\ i <= Len(q)
            \/ i = Len(q) + 1 /\ Append(q, x)[i] = x
      /\ Len(q) \in Nat
  BY <1>0
<1>2. new \in Lines /\ new[a] = Append(q, x) /\ \A k \in Places \ {a} : new[k] = line[k]
  BY <1>0, <1>1 DEF Lines, Add
<1>3. \A i \in DOMAIN Append(q, x) : i \in Int
  BY <1>1
<1> HIDE DEF q, new
<1>4. line[a] = q
  BY DEF q
<1>5. Sorted(line) /\ Within(line, S)
  BY DEF Orderly
<1>6. Within(new, S)
  BY <1>1, <1>2, <1>4, <1>5 DEF Within
<1>7. Sorted(new)
  <2> SUFFICES ASSUME NEW k \in Places, NEW l \in Places,
                      NEW i \in DOMAIN new[k], NEW j \in DOMAIN new[l],
                      k < l \/ (k = l /\ i < j)
               PROVE  CanPrecede(new[k][i]) /\ CanFollow(new[l][j])
    BY DEF Sorted
  <2>1. \/ i \in DOMAIN line[k] /\ new[k][i] = line[k][i]
        \/ k = a /\ i = Len(q) + 1 /\ new[k][i] = x
    BY <1>1, <1>2, <1>4
  <2>2. \/ j \in DOMAIN line[l] /\ new[l][j] = line[l][j]
        \/ l = a /\ j = Len(q) + 1 /\ new[l][j] = x
    BY <1>1, <1>2, <1>4
  <2>3. CASE i \in DOMAIN line[k] /\ new[k][i] = line[k][i] /\ j \in DOMAIN line[l] /\ new[l][j] = line[l][j]
    BY <1>5, <2>3 DEF Sorted
  <2>4. CASE i \in DOMAIN line[k] /\ new[k][i] = line[k][i] /\ l = a /\ new[l][j] = x
    BY <2>4 DEF Places
  <2>5. CASE k = a /\ i = Len(q) + 1 /\ new[k][i] = x /\ j \in DOMAIN line[l] /\ new[l][j] = line[l][j]
    <3>1. k < l
      BY <1>0, <1>1, <1>4, <2>5
    <3>2. QED
      BY <2>5, <3>1 DEF Places
  <2>6. CASE k = a /\ i = Len(q) + 1 /\ l = a /\ j = Len(q) + 1
    BY <1>1, <2>6 DEF Places
  <2>7. QED
    BY <2>1, <2>2, <2>3, <2>4, <2>5, <2>6
<1>8. QED
  BY <1>2, <1>6, <1>7 DEF Orderly, new

(* A message passes on to a place further on, to the end of it, when no     *)
(* message is in between; with it go its type and its task.                 *)
LEMMA LinePass ==
    ASSUME NEW S, NEW line, Orderly(line, S), NEW a \in Places, NEW b \in Places, b < a,
           line[a] # << >>, \A k \in b + 1 .. a - 1 : line[k] = << >>,
           NEW x \in MessageType, x \in S,
           x.type = Head(line[a]).type, x.task = Head(line[a]).task
    PROVE  Orderly(Add(Drop(line, a), b, x), S)
<1> DEFINE mid == Drop(line, a)
           q == line[a]
<1>1. Orderly(mid, S) /\ Head(q) \in MessageType
  BY LineDrop
<1>2. q \in Seq(MessageType) /\ q # << >> /\ line \in Lines /\ Sorted(line)
  BY DEF Lines, Orderly
<1>3. /\ Tail(q) \in Seq(MessageType) /\ Head(q) = q[1] /\ 1 \in DOMAIN q
      /\ \A i \in DOMAIN Tail(q) : i + 1 \in DOMAIN q /\ Tail(q)[i] = q[i + 1] /\ 1 < i + 1
  BY <1>2
<1>4. mid[a] = Tail(q) /\ \A k \in Places \ {a} : mid[k] = line[k]
  BY <1>2 DEF Lines, Drop
<1> HIDE DEF q, mid
<1>5. line[a] = q
  BY DEF q
<1>6. (CanPrecede(x) <=> CanPrecede(q[1])) /\ (CanFollow(x) <=> CanFollow(q[1]))
  BY <1>3, <1>5 DEF CanPrecede, CanFollow
<1>7. \A k \in Places : \A i \in DOMAIN mid[k] :
          IF k <= b THEN CanPrecede(mid[k][i]) /\ CanFollow(x)
                    ELSE CanPrecede(x) /\ CanFollow(mid[k][i])
  <2> SUFFICES ASSUME NEW k \in Places, NEW i \in DOMAIN mid[k]
               PROVE  IF k <= b THEN CanPrecede(mid[k][i]) /\ CanFollow(x)
                                ELSE CanPrecede(x) /\ CanFollow(mid[k][i])
    OBVIOUS
  <2>1. CASE k <= b
    <3>1. k < a /\ k # a
      BY <2>1 DEF Places
    <3>2. i \in DOMAIN line[k] /\ mid[k][i] = line[k][i]
      BY <1>4, <3>1
    <3>3. QED
      BY <1>2, <1>3, <1>5, <1>6, <2>1, <3>1, <3>2 DEF Sorted
  <2>2. CASE k > b /\ k < a
    <3>1. line[k] = << >>
      BY <2>2 DEF Places
    <3>2. QED
      BY <1>4, <2>2, <3>1
  <2>3. CASE k = a
    BY <1>2, <1>3, <1>4, <1>5, <1>6, <2>3 DEF Sorted, Places
  <2>4. CASE k > a
    <3>1. i \in DOMAIN line[k] /\ mid[k][i] = line[k][i]
      BY <1>4, <2>4 DEF Places
    <3>2. QED
      BY <1>2, <1>3, <1>5, <1>6, <2>4, <3>1 DEF Sorted, Places
  <2>5. QED
    BY <2>1, <2>2, <2>3, <2>4 DEF Places
<1>8. QED
  BY <1>1, <1>7, LineAdd DEF mid

-----------------------------------------------------------------------------
(* The way of the messages.                                                 *)
ProperMessages == {msg \in MessageType : Proper(msg)}

(* The places of the line.                                                  *)
LEMMA LinePlaces ==
    /\ DOMAIN Line = Places
    /\ Line[1] = Running /\ Line[2] = gpuQ /\ Line[3] = Decoding /\ Line[4] = inputQ
    /\ 1 \in Places /\ 2 \in Places /\ 3 \in Places /\ 4 \in Places
BY DEF Line, Places

(* The line is made of four queues of messages.                             *)
LEMMA LineTyped ==
    ASSUME TypeOK
    PROVE  Line \in Lines /\ Running \in Seq(MessageType) /\ Decoding \in Seq(MessageType)
<1>1. {} \in SUBSET Pixels
  OBVIOUS
<1>2. \A task \in TaskType : Message("TASK", task, {}) \in MessageType
  BY <1>1, MessageTyped
<1>3. << >> \in Seq(MessageType) /\ \A msg \in MessageType : << msg >> \in Seq(MessageType)
  OBVIOUS
<1>4. Running \in Seq(MessageType) /\ Decoding \in Seq(MessageType)
  BY <1>2, <1>3 DEF Running, Decoding, TypeOK
<1>5. QED
  BY <1>4 DEF Line, Lines, Places, TypeOK

(* What the client has on the way is in order.                              *)
LEMMA StreamOrderly ==
    ASSUME TypeOK, Stream
    PROVE  Orderly(Line, ProperMessages)
<1>1. Line \in Lines
  BY LineTyped
<1>2. \A k \in Places : \A i \in DOMAIN Line[k] : Line[k][i] \in MessageType
  BY <1>1 DEF Lines
<1>3. QED
  BY <1>1, <1>2 DEF Stream, Flow, Orderly, Within, ProperMessages

(* An empty line is in order.                                               *)
LEMMA ClearOrderly ==
    ASSUME TypeOK, Clear(Line), NEW S
    PROVE  Orderly(Line, S)
<1>1. \A k \in Places : DOMAIN Line[k] = {}
  BY DEF Clear
<1>2. QED
  BY <1>1, LineTyped DEF Orderly, Sorted, Within

(* A message on the line, wherever it is.                                   *)
LEMMA OnLine ==
    ASSUME TypeOK, Stream, Results, NEW k \in Places, NEW i \in DOMAIN Line[k]
    PROVE  /\ Line[k][i] \in MessageType /\ Proper(Line[k][i])
           /\ ~Clear(Line) /\ outputQ = << >> /\ phase # "config"
           /\ phase = "send" => Line[k][i].type = "TASK" /\ CanPrecede(Line[k][i])
<1>1. Line[k][i] \in MessageType
  BY LineTyped DEF Lines
<1>2. Proper(Line[k][i])
  BY DEF Stream, Flow
<1>3. ~Clear(Line)
  BY DEF Clear
<1>4. outputQ = << >> /\ phase # "config"
  BY <1>3 DEF Results, Stream, Start
<1>5. QED
  BY <1>1, <1>2, <1>3, <1>4 DEF Proper, MessageType, CanPrecede

(* The client never tries twice, and never gives up.                        *)
LEMMA NoSecondTry ==
    ASSUME Resend = FALSE, TypeOK
    PROVE  ~Retry /\ ~Abort
<1>1. MaxTries = 1
  OBVIOUS
<1>2. tries = 1
  BY <1>1 DEF TypeOK
<1>3. QED
  BY <1>1, <1>2 DEF Retry, Abort

(* A step of the client puts messages in order on the line.                 *)
LEMMA StreamClient ==
    ASSUME Resend = FALSE, TypeOK, Stream, Results, ClientStep
    PROVE  Stream'
<1>1. UNCHANGED << gpuQ, Running, Decoding >>
  BY DEF ClientStep, SendConfig, ReceiveTimeSync, SendGroup, SendAhead, ReceiveResult, Retry,
         Abort, queues, decoder, gpu, Running, Decoding
<1>2. \A x : inputQ' = Append(inputQ, x) => Line' = Add(Line, 4, x)
  BY <1>1 DEF Line, Add
<1>3. inputQ' = inputQ => Line' = Line
  BY <1>1 DEF Line
<1>4. ASSUME Orderly(Line', ProperMessages') PROVE Sorted(Line') /\ Flow'
  BY <1>4 DEF Orderly, Within, ProperMessages, Flow
<1>5. CASE SendConfig
  <2> DEFINE first == Message("CONFIG", NoTask, {})
             second == Message("TIME_SYNC", NoTask, {})
             mid == Add(Line, 4, first)
  <2>1. Clear(Line) /\ Orderly(Line, ProperMessages') /\ inputQ = << >> /\ Line[4] = << >>
    BY <1>5, ClearOrderly, LinePlaces DEF SendConfig, Stream, Start, Clear
  <2>2. phase' = "sync" /\ sent' = 0 /\ inputQ' = Append(Append(inputQ, first), second)
    <3>1. inputQ \in Seq(MessageType)
      BY DEF TypeOK
    <3>2. QED
      BY <1>5, <3>1 DEF SendConfig
  <2>3. first \in MessageType /\ second \in MessageType
    BY MessageTyped, NoTaskTyped
  <2>4. /\ first.type = "CONFIG" /\ second.type = "TIME_SYNC"
        /\ CanPrecede(first) /\ CanFollow(second)
    BY DEF Message, CanPrecede, CanFollow
  <2> HIDE DEF first, second
  <2>5. first \in ProperMessages' /\ second \in ProperMessages'
    BY <2>2, <2>3, <2>4 DEF ProperMessages, Proper
  <2>6. Line' = Add(mid, 4, second)
    BY <1>1, <2>2 DEF Line, Add
  <2>7. Orderly(mid, ProperMessages')
    BY <2>1, <2>3, <2>5, LineAdd, LinePlaces DEF Clear
  <2>8. \A k \in Places : \A i \in DOMAIN mid[k] : k <= 4 /\ mid[k][i] = first
    <3>1. mid[4] = << first >> /\ \A k \in Places \ {4} : mid[k] = << >>
      BY <2>1, LinePlaces DEF Add, Clear
    <3>2. \A k \in Places : k <= 4
      BY DEF Places
    <3> HIDE DEF mid
    <3>3. QED
      BY <3>1, <3>2
  <2> HIDE DEF mid
  <2>9. Orderly(Line', ProperMessages')
    <3>1. Orderly(Add(mid, 4, second), ProperMessages')
      BY <2>3, <2>4, <2>5, <2>7, <2>8, LineAdd, LinePlaces
    <3>2. QED
      BY <2>6, <3>1
  <2>10. Start'
    BY <2>2 DEF Start
  <2>11. QED
    BY <1>4, <2>9, <2>10 DEF Stream
<1>6. CASE ReceiveTimeSync
  <2>1. Clear(Line) /\ Line' = Line /\ sent' = sent /\ sent = 0 /\ phase' = "send"
    BY <1>3, <1>6 DEF ReceiveTimeSync, Results, Stream, Start
  <2>2. Clear(Line')
    BY <2>1
  <2>3. Sorted(Line') /\ Flow'
    BY <2>2 DEF Clear, Sorted, Flow
  <2>4. QED
    BY <2>1, <2>2, <2>3 DEF Stream, Start
<1>7. ASSUME phase = "send", NEW g \in Groups \cup {Feedback},
             inputQ' = Append(inputQ, Message("TASK", Task(image, g), {})),
             g = 0 => sent = 0, image' = image, sent' > 0,
             phase' = IF g = LastGroup THEN "wait" ELSE "send",
             sent = 0 => g = 0
      PROVE  Stream'
  <2> DEFINE x == Message("TASK", Task(image, g), {})
  <2>1. /\ x \in MessageType /\ x.type = "TASK" /\ x.task.image = image /\ x.task.gid = g
        /\ Line' = Add(Line, 4, x)
    BY <1>2, <1>7, MessageTyped, TaskTyped DEF Message, Task, TypeOK
  <2>2. sent = 0 => Clear(Line)
    BY <1>7 DEF Stream, Start
  <2> HIDE DEF x
  <2>3. \A k \in Places : \A i \in DOMAIN Line[k] :
           /\ Line[k][i] \in MessageType /\ Proper(Line[k][i])
           /\ Line[k][i].type = "TASK" /\ CanPrecede(Line[k][i])
    BY <1>7, OnLine
  <2>4. x \in ProperMessages'
    BY <1>7, <2>1 DEF ProperMessages, Proper
  <2>5. Orderly(Line, ProperMessages')
    <3>1. Line \in Lines /\ Sorted(Line)
      BY LineTyped DEF Stream
    <3>2. \A k \in Places : \A i \in DOMAIN Line[k] : Line[k][i] \in ProperMessages'
      BY <1>7, <2>3 DEF ProperMessages, Proper, CanPrecede
    <3>3. QED
      BY <3>1, <3>2 DEF Orderly, Within
  <2>6. \A k \in Places : \A i \in DOMAIN Line[k] : k <= 4 /\ CanPrecede(Line[k][i]) /\ CanFollow(x)
    BY <1>7, <2>1, <2>2, <2>3 DEF CanFollow, Places, Clear
  <2>7. Orderly(Add(Line, 4, x), ProperMessages')
    BY <2>1, <2>4, <2>5, <2>6, LineAdd, LinePlaces
  <2>8. Orderly(Line', ProperMessages')
    BY <2>1, <2>7
  <2>9. QED
    BY <1>4, <1>7, <2>8 DEF Stream, Start
<1>8. CASE SendGroup
  <2>1. sent \in Groups
    BY <1>8 DEF SendGroup, TypeOK
  <2>2. QED
    BY <1>7, <1>8, <2>1 DEF SendGroup, Groups
<1>9. CASE SendAhead
  <2>1. Feedback # 0 /\ Feedback # LastGroup
    BY DEF Feedback
  <2>2. /\ phase = "send" /\ sent > 0 /\ image' = image /\ sent' = sent /\ phase' = phase
        /\ inputQ' = Append(inputQ, Message("TASK", Task(image, Feedback), {}))
    BY <1>9 DEF SendAhead
  <2>3. QED
    BY <1>7, <2>1, <2>2
<1>10. CASE ReceiveResult
  <2>1. Clear(Line)
    BY <1>10 DEF ReceiveResult, Results
  <2>2. CASE image < Images
    <3>1. Line' = Line /\ sent' = 0 /\ phase' = "send"
      BY <1>3, <1>10, <2>2 DEF ReceiveResult
    <3>2. Clear(Line')
      BY <2>1, <3>1
    <3>3. Sorted(Line') /\ Flow'
      BY <3>2 DEF Clear, Sorted, Flow
    <3>4. QED
      BY <3>1, <3>2, <3>3 DEF Stream, Start
  <2>3. CASE ~(image < Images)
    <3> DEFINE x == Message("STOP", NoTask, {})
    <3>1. phase' = "done" /\ Line' = Add(Line, 4, x)
      BY <1>2, <1>10, <2>3 DEF ReceiveResult
    <3>2. x \in MessageType /\ x.type = "STOP"
      BY MessageTyped, NoTaskTyped DEF Message
    <3> HIDE DEF x
    <3>3. x \in ProperMessages'
      BY <3>1, <3>2 DEF ProperMessages, Proper
    <3>4. Orderly(Line, ProperMessages')
      BY <2>1, ClearOrderly
    <3>5. Orderly(Add(Line, 4, x), ProperMessages')
      BY <2>1, <3>2, <3>3, <3>4, LineAdd, LinePlaces DEF Clear
    <3>6. Orderly(Line', ProperMessages')
      BY <3>1, <3>5
    <3>7. QED
      BY <1>4, <3>1, <3>6 DEF Stream, Start
  <2>4. QED
    BY <2>2, <2>3
<1>11. QED
  BY <1>5, <1>6, <1>8, <1>9, <1>10, NoSecondTry DEF ClientStep

(* What a step of the three threads does to the line: nothing, or it takes  *)
(* the first message of a place away or to a place further on.              *)
Taken(a) == Line[a] # << >> /\ Line' = Drop(Line, a)
Passed(a, b) ==
    /\ Line[a] # << >> /\ b < a /\ \A k \in b + 1 .. a - 1 : Line[k] = << >>
    /\ \E x \in MessageType : /\ x.type = Head(Line[a]).type /\ x.task = Head(Line[a]).task
                              /\ Line' = Add(Drop(Line, a), b, x)

(* The decoder passes a task to itself, anything else to the GPU queue.     *)
LEMMA LineDecoderTake ==
    ASSUME TypeOK, DecoderTake
    PROVE  IF Head(inputQ).type = "TASK" THEN Passed(4, 3) ELSE Passed(4, 2)
<1>1. /\ Decoding = << >> /\ inputQ # << >> /\ inputQ' = Tail(inputQ) /\ UNCHANGED Running
      /\ Head(inputQ) \in MessageType
  BY QueueTyped DEF DecoderTake, Decoding, DecoderAt, Running, gpu, TypeOK
<1>2. CASE Head(inputQ).type = "TASK"
  <2> DEFINE x == Message("TASK", Head(inputQ).task, {})
  <2>1. x \in MessageType /\ x.type = "TASK" /\ x.task = Head(inputQ).task
    <3>1. Head(inputQ).task \in TaskType
      BY <1>1 DEF MessageType
    <3>2. QED
      BY <3>1, MessageTyped DEF Message
  <2>2. dpc' = "open" /\ dtask' = Head(inputQ).task /\ gpuQ' = gpuQ
    BY <1>2 DEF DecoderTake
  <2>3. Decoding' = Append(Decoding, x)
    <3>1. Decoding' = << x >>
      BY <2>2 DEF Decoding, DecoderAt
    <3> HIDE DEF x
    <3>2. QED
      BY <1>1, <3>1
  <2> HIDE DEF x
  <2>4. Line' = Add(Drop(Line, 4), 3, x)
    <3>1. UNCHANGED << Running, gpuQ >> /\ inputQ' = Tail(inputQ)
      BY <1>1, <2>2
    <3>2. Line' = [[Line EXCEPT ![4] = inputQ'] EXCEPT ![3] = Decoding']
      BY <3>1 DEF Line
    <3>3. Drop(Line, 4) = [Line EXCEPT ![4] = inputQ']
      BY <3>1, LinePlaces DEF Drop
    <3>4. [Line EXCEPT ![4] = inputQ'][3] = Decoding
      BY LinePlaces
    <3>5. QED
      BY <2>3, <3>2, <3>3, <3>4 DEF Add
  <2>5. \A k \in 3 + 1 .. 4 - 1 : Line[k] = << >>
    OBVIOUS
  <2>6. QED
    BY <1>1, <1>2, <2>1, <2>4, <2>5, LinePlaces DEF Passed
<1>3. CASE Head(inputQ).type # "TASK"
  <2> DEFINE x == Head(inputQ)
  <2>1. dpc' \in {"take", "stopped"} /\ gpuQ' = Append(gpuQ, x) /\ Decoding' = << >>
    BY <1>3 DEF DecoderTake, Decoding, DecoderAt
  <2> HIDE DEF x
  <2>2. Line' = Add(Drop(Line, 4), 2, x)
    BY <1>1, <2>1 DEF Line, Add, Drop
  <2>3. \A k \in 2 + 1 .. 4 - 1 : Line[k] = << >>
    BY <1>1, LinePlaces
  <2>4. QED
    BY <1>1, <1>3, <2>2, <2>3, LinePlaces DEF Passed, x
<1>4. QED
  BY <1>2, <1>3

(* A snapshot passes the task from the decoder to the GPU queue.            *)
LEMMA LineDecoderSnapshot ==
    ASSUME TypeOK, DecoderSnapshot
    PROVE  Passed(3, 2)
<1> DEFINE x == Message("TASK", dtask, ctx[dctx].canvas)
           held == Message("TASK", dtask, {})
<1>1. x \in MessageType /\ x.type = held.type /\ x.task = held.task
  <2>1. ctx[dctx] \in ContextType /\ dtask \in TaskType
    BY DEF DecoderSnapshot, TypeOK
  <2>2. ctx[dctx].canvas \in SUBSET Pixels
    BY <2>1 DEF ContextType
  <2>3. QED
    BY <2>1, <2>2, MessageTyped DEF Message
<1>2. /\ Decoding = << held >> /\ Decoding' = << >> /\ gpuQ' = Append(gpuQ, x)
      /\ UNCHANGED << inputQ, Running >>
  BY DEF DecoderSnapshot, Decoding, DecoderAt, Running, gpu
<1> HIDE DEF x, held
<1>3. Tail(Decoding) = << >> /\ Head(Decoding) = held /\ Decoding # << >>
  BY <1>2
<1>4. Line' = Add(Drop(Line, 3), 2, x)
  BY <1>2, <1>3 DEF Line, Add, Drop
<1>5. \A k \in 2 + 1 .. 3 - 1 : Line[k] = << >>
  OBVIOUS
<1>6. QED
  BY <1>1, <1>3, <1>4, <1>5, LinePlaces DEF Passed

(* The GPU thread takes a message.                                          *)
GpuTakes == GpuStop \/ GpuConfig \/ GpuTimeSync \/ GpuTask

(* It passes a task to itself; anything else leaves the line.               *)
LEMMA LineGpuTake ==
    ASSUME TypeOK, GpuTakes
    PROVE  IF Head(gpuQ).type = "TASK" /\ executor THEN Passed(2, 1) ELSE Taken(2)
<1>1. /\ Running = << >> /\ gpuQ # << >> /\ gpuQ' = Tail(gpuQ) /\ UNCHANGED << inputQ, Decoding >>
      /\ Head(gpuQ) \in MessageType
  BY QueueTyped DEF GpuTakes, GpuStop, GpuConfig, GpuTimeSync, GpuTask, Decoding, Running, GpuAt,
                    decoder, TypeOK
<1>2. CASE Head(gpuQ).type = "TASK" /\ executor
  <2> DEFINE x == Message("TASK", Head(gpuQ).task, {})
  <2>1. x \in MessageType /\ x.type = "TASK" /\ x.task = Head(gpuQ).task
    <3>1. Head(gpuQ).task \in TaskType
      BY <1>1 DEF MessageType
    <3>2. QED
      BY <3>1, MessageTyped DEF Message
  <2>2. gpc' \in {"update", "create"} /\ gtask' = Head(gpuQ).task
    BY <1>2 DEF GpuTakes, GpuStop, GpuConfig, GpuTimeSync, GpuTask
  <2>3. Running' = Append(Running, x)
    <3>1. Running' = << x >>
      BY <2>2 DEF Running, GpuAt
    <3> HIDE DEF x
    <3>2. QED
      BY <1>1, <3>1
  <2> HIDE DEF x
  <2>4. Line' = Add(Drop(Line, 2), 1, x)
    BY <1>1, <2>3 DEF Line, Add, Drop
  <2>5. \A k \in 1 + 1 .. 2 - 1 : Line[k] = << >>
    OBVIOUS
  <2>6. QED
    BY <1>1, <1>2, <2>1, <2>4, <2>5, LinePlaces DEF Passed
<1>3. CASE ~(Head(gpuQ).type = "TASK" /\ executor)
  <2>1. gpc' \in {"take", "stopped"}
    BY <1>3 DEF GpuTakes, GpuStop, GpuConfig, GpuTimeSync, GpuTask, gpu
  <2>2. Running' = << >>
    BY <2>1 DEF Running, GpuAt
  <2>3. Line' = Drop(Line, 2)
    BY <1>1, <2>2 DEF Line, Drop
  <2>4. QED
    BY <1>1, <1>3, <2>3, LinePlaces DEF Taken
<1>4. QED
  BY <1>2, <1>3

(* A task that has been run leaves the line.                                *)
LEMMA LineGpuRun ==
    ASSUME TypeOK, GpuRun
    PROVE  Taken(1) /\ Head(Line[1]) = Message("TASK", gtask, {})
<1> DEFINE held == Message("TASK", gtask, {})
<1>1. Running = << held >> /\ Running' = << >> /\ UNCHANGED << gpuQ, Decoding, inputQ >>
  BY DEF GpuRun, Decoding, Running, GpuAt, decoder
<1> HIDE DEF held
<1>2. Running # << >> /\ Tail(Running) = << >> /\ Head(Running) = held
  BY <1>1
<1>3. Line' = Drop(Line, 1)
  BY <1>1, <1>2 DEF Line, Drop
<1>4. QED
  BY <1>2, <1>3, LinePlaces DEF Taken, held

(* A task whose context is not found leaves the line too.                   *)
LEMMA LineLost ==
    /\ DecoderFind /\ ~Known(dtask.req) => Taken(3)
    /\ GpuUpdate /\ ~Known(gtask.req) => Taken(1)
    /\ GpuFind /\ ~Known(gtask.req) => Taken(1)
<1>1. ASSUME DecoderFind, ~Known(dtask.req) PROVE Taken(3)
  <2> DEFINE held == Message("TASK", dtask, {})
  <2>1. Decoding = << held >> /\ Decoding' = << >> /\ UNCHANGED << gpuQ, Running, inputQ >>
    BY <1>1 DEF DecoderFind, Decoding, DecoderAt, Running, gpu, queues
  <2> HIDE DEF held
  <2>2. Decoding # << >> /\ Tail(Decoding) = << >>
    BY <2>1
  <2>3. Line' = Drop(Line, 3)
    BY <2>1, <2>2 DEF Line, Drop
  <2>4. QED
    BY <2>2, <2>3, LinePlaces DEF Taken
<1>2. ASSUME GpuUpdate \/ GpuFind, ~Known(gtask.req) PROVE Taken(1)
  <2> DEFINE held == Message("TASK", gtask, {})
  <2>1. Running = << held >> /\ Running' = << >> /\ UNCHANGED << gpuQ, Decoding, inputQ >>
    BY <1>2 DEF GpuUpdate, GpuFind, Decoding, Running, GpuAt, decoder, queues
  <2> HIDE DEF held
  <2>2. Running # << >> /\ Tail(Running) = << >>
    BY <2>1
  <2>3. Line' = Drop(Line, 1)
    BY <2>1, <2>2 DEF Line, Drop
  <2>4. QED
    BY <2>2, <2>3, LinePlaces DEF Taken
<1>3. QED
  BY <1>1, <1>2

(* The other steps of the threads leave the line alone.                     *)
LEMMA LineSame ==
    ASSUME \/ DecoderOpen \/ DecoderCreate \/ DecoderRead \/ DecoderAssign
           \/ DecoderFind /\ Known(dtask.req)
           \/ GpuCreate \/ GpuOpen \/ GpuLoad
           \/ (GpuUpdate \/ GpuFind) /\ Known(gtask.req)
           \/ ReaperTake \/ Stopped
    PROVE  Line' = Line
<1>1. CASE \/ DecoderOpen \/ DecoderCreate \/ DecoderRead \/ DecoderAssign
           \/ DecoderFind /\ Known(dtask.req)
  <2>1. UNCHANGED << gpuQ, inputQ, dtask, Running >> /\ dpc \in DecoderAt /\ dpc' \in DecoderAt
    BY <1>1 DEF DecoderOpen, DecoderCreate, DecoderRead, DecoderAssign, DecoderFind, queues, gpu,
                Running, DecoderAt
  <2>2. Decoding' = Decoding
    BY <2>1 DEF Decoding
  <2>3. QED
    BY <2>1, <2>2 DEF Line
<1>2. CASE GpuCreate \/ GpuOpen \/ GpuLoad \/ ((GpuUpdate \/ GpuFind) /\ Known(gtask.req))
  <2>1. UNCHANGED << gpuQ, inputQ, gtask, Decoding >> /\ gpc \in GpuAt /\ gpc' \in GpuAt
    BY <1>2 DEF GpuCreate, GpuOpen, GpuLoad, GpuUpdate, GpuFind, queues, decoder, Decoding, GpuAt
  <2>2. Running' = Running
    BY <2>1 DEF Running
  <2>3. QED
    BY <2>1, <2>2 DEF Line
<1>3. CASE ReaperTake \/ Stopped
  BY <1>3 DEF ReaperTake, Stopped, vars, queues, decoder, gpu, Line, Running, Decoding
<1>4. QED
  BY <1>1, <1>2, <1>3

(* The client stands still while the three threads step.                    *)
LEMMA ClientSame ==
    ASSUME DecoderStep \/ GpuStep \/ ReaperTake \/ Stopped
    PROVE  UNCHANGED client /\ UNCHANGED << phase, image, sent, ahead, tries, answers >>
<1>1. CASE DecoderStep
  BY <1>1 DEF DecoderStep, DecoderTake, DecoderOpen, DecoderCreate, DecoderFind, DecoderRead,
              DecoderAssign, DecoderSnapshot, client
<1>2. CASE GpuStep
  BY <1>2 DEF GpuStep, GpuStop, GpuConfig, GpuTimeSync, GpuTask, GpuCreate, GpuUpdate, GpuOpen,
              GpuFind, GpuLoad, GpuRun, client
<1>3. QED
  BY <1>1, <1>2 DEF ReaperTake, Stopped, vars, client

(* What a thread does to the line.                                          *)
LEMMA LineStep ==
    ASSUME TypeOK, DecoderStep \/ GpuStep \/ ReaperTake \/ Stopped
    PROVE  \/ Line' = Line
           \/ \E a \in Places : Taken(a) \/ \E b \in Places : Passed(a, b)
<1>1. CASE DecoderStep
  BY <1>1, LineDecoderTake, LineDecoderSnapshot, LineLost, LineSame, LinePlaces DEF DecoderStep
<1>2. CASE GpuStep
  BY <1>2, LineGpuTake, LineGpuRun, LineLost, LineSame, LinePlaces DEF GpuStep, GpuTakes
<1>3. QED
  BY <1>1, <1>2, LineSame

(* The three threads keep the line in order.                                *)
LEMMA StreamWorker ==
    ASSUME TypeOK, Stream, Results, DecoderStep \/ GpuStep \/ ReaperTake \/ Stopped
    PROVE  Stream'
<1>1. UNCHANGED << phase, image, sent >>
  BY ClientSame
<1>2. Orderly(Line, ProperMessages)
  BY StreamOrderly
<1>3. ASSUME NEW a \in Places, Taken(a) \/ \E b \in Places : Passed(a, b) PROVE Stream'
  <2>1. Line[a] # << >> /\ Line \in Lines
    BY <1>3, LineTyped DEF Taken, Passed
  <2>2. 1 \in DOMAIN Line[a] /\ Head(Line[a]) = Line[a][1]
    BY <2>1 DEF Lines
  <2>3. /\ Line[a][1] \in MessageType /\ Proper(Line[a][1]) /\ ~Clear(Line)
        /\ phase # "config"
    BY <2>2, OnLine
  <2>4. Orderly(Line', ProperMessages)
    <3>1. CASE Taken(a)
      BY <1>2, <3>1, LineDrop DEF Taken
    <3>2. CASE \E b \in Places : Passed(a, b)
      <4>1. PICK b \in Places : Passed(a, b)
        BY <3>2
      <4>2. PICK x \in MessageType : /\ x.type = Head(Line[a]).type /\ x.task = Head(Line[a]).task
                                     /\ Line' = Add(Drop(Line, a), b, x)
        BY <4>1 DEF Passed
      <4>3. x \in ProperMessages
        BY <2>2, <2>3, <4>2 DEF ProperMessages, Proper
      <4>4. QED
        BY <1>2, <4>1, <4>2, <4>3, LinePass DEF Passed
    <3>3. QED
      BY <1>3, <3>1, <3>2
  <2>5. Sorted(Line') /\ Flow'
    BY <1>1, <2>4 DEF Orderly, Within, ProperMessages, Flow, Proper
  <2>6. Start'
    BY <1>1, <2>3 DEF Stream, Start
  <2>7. QED
    BY <2>5, <2>6 DEF Stream
<1>4. ASSUME Line' = Line PROVE Stream'
  BY <1>1, <1>4 DEF Stream, Flow, Proper, Start
<1>5. QED
  BY <1>3, <1>4, LineStep

-----------------------------------------------------------------------------
(* What the threads know of the tasks they have.                            *)
LEMMA TaskOnLine ==
    ASSUME TypeOK, Stream, Results, NEW k \in Places, NEW i \in DOMAIN Line[k],
           Line[k][i].type = "TASK"
    PROVE  /\ Line[k][i].task.image = image /\ image \in RequestIds
           /\ phase \in {"send", "wait"} /\ Begun /\ ~Clear(Line) /\ outputQ = << >>
           /\ Line[k][i].task.gid = LastGroup => phase = "wait"
<1>1. Proper(Line[k][i]) /\ ~Clear(Line) /\ outputQ = << >>
  BY OnLine
<1>2. image \in RequestIds
  BY DEF TypeOK, RequestIds
<1>3. QED
  BY <1>1, <1>2 DEF Proper, Begun

(* The task the GPU thread is at is the image's; the base group has been    *)
(* decoded, and run unless this is it; behind the last group nothing follows. *)
LEMMA GpuTaskIs ==
    ASSUME TypeOK, Messages, Stream, Results, gpc \in GpuAt
    PROVE  /\ gtask.image = image /\ gtask.req = image /\ image \in RequestIds
           /\ phase \in {"send", "wait"} /\ Begun /\ ~Clear(Line) /\ outputQ = << >>
           /\ ~Undecoded
           /\ gtask.gid # 0 => ~BaseDue
           /\ gtask.gid = LastGroup =>
                 phase = "wait" /\ gpuQ = << >> /\ Decoding = << >> /\ inputQ = << >>
<1> DEFINE held == Message("TASK", gtask, {})
<1>1. Running = << held >> /\ held.type = "TASK" /\ held.task = gtask
  BY DEF Running, Message
<1> HIDE DEF held
<1>2. 1 \in DOMAIN Line[1] /\ Line[1][1] = held
  BY <1>1, LinePlaces
<1>3. /\ gtask.image = image /\ image \in RequestIds
      /\ phase \in {"send", "wait"} /\ Begun /\ ~Clear(Line) /\ outputQ = << >>
      /\ gtask.gid = LastGroup => phase = "wait"
  BY <1>1, <1>2, TaskOnLine, LinePlaces
<1>4. gtask.req = image
  BY <1>3 DEF Messages, OwnTask
<1>5. \A l \in 2..4 : \A j \in DOMAIN Line[l] : CanPrecede(held) /\ CanFollow(Line[l][j])
  <2>1. \A l \in 2..4 : 1 < l /\ l \in Places /\ 1 \in Places
    BY DEF Places
  <2>2. QED
    BY <1>2, <2>1 DEF Stream, Sorted
<1>6. ~HasBase(inputQ) /\ ~HasBase(gpuQ)
  BY <1>5, LinePlaces DEF HasBase, IsBase, CanFollow
<1>7. dpc \in DecoderAt => dtask.gid # 0
  <2> SUFFICES ASSUME dpc \in DecoderAt PROVE dtask.gid # 0
    OBVIOUS
  <2>1. 1 \in DOMAIN Line[3] /\ Line[3][1].type = "TASK" /\ Line[3][1].task = dtask
    BY LinePlaces DEF Decoding, Message
  <2>2. QED
    BY <1>5, <2>1 DEF CanFollow
<1>8. gtask.gid = LastGroup => gpuQ = << >> /\ Decoding = << >> /\ inputQ = << >>
  <2> SUFFICES ASSUME gtask.gid = LastGroup, NEW l \in 2..4, Line[l] # << >> PROVE FALSE
    BY LinePlaces
  <2>1. 1 \in DOMAIN Line[l]
    <3>1. l \in Places
      BY DEF Places
    <3>2. Line[l] \in Seq(MessageType)
      BY <3>1, LineTyped DEF Lines
    <3>3. QED
      BY <3>2
  <2>2. QED
    BY <1>1, <1>5, <2>1 DEF CanPrecede
<1>9. ~Undecoded /\ (gtask.gid # 0 => ~BaseDue)
  BY <1>6, <1>7 DEF Undecoded, BaseDue
<1>10. QED
  BY <1>3, <1>4, <1>8, <1>9

(* The task the decoder is at is the image's, and the base group is this one *)
(* or has been decoded.                                                     *)
LEMMA DecoderTask ==
    ASSUME TypeOK, Messages, Stream, Results, dpc \in DecoderAt
    PROVE  /\ dtask.image = image /\ dtask.req = image /\ image \in RequestIds
           /\ phase \in {"send", "wait"} /\ Begun /\ ~Clear(Line) /\ outputQ = << >>
           /\ ~HasBase(inputQ)
           /\ dtask.gid # 0 \/ dpc = "snapshot" => ~Undecoded
<1> DEFINE held == Message("TASK", dtask, {})
<1>1. Decoding = << held >> /\ held.type = "TASK" /\ held.task = dtask
  BY DEF Decoding, Message
<1> HIDE DEF held
<1>2. 1 \in DOMAIN Line[3] /\ Line[3][1] = held
  BY <1>1, LinePlaces
<1>3. /\ dtask.image = image /\ image \in RequestIds
      /\ phase \in {"send", "wait"} /\ Begun /\ ~Clear(Line) /\ outputQ = << >>
  BY <1>1, <1>2, TaskOnLine, LinePlaces
<1>4. dtask.req = image
  BY <1>3 DEF Messages, OwnTask
<1>5. \A j \in DOMAIN inputQ : CanFollow(inputQ[j])
  BY <1>2, LinePlaces DEF Stream, Sorted
<1>6. ~HasBase(inputQ)
  BY <1>5 DEF HasBase, IsBase, CanFollow
<1>7. QED
  BY <1>3, <1>4, <1>6 DEF Undecoded

(* The first message of the GPU thread's queue.                             *)
LEMMA GpuHead ==
    ASSUME TypeOK, Messages, Stream, Results, gpc = "take", gpuQ # << >>
    PROVE  /\ Head(gpuQ) \in OwnMessage /\ ~Clear(Line) /\ outputQ = << >>
           /\ 1 \in DOMAIN gpuQ /\ Head(gpuQ) = gpuQ[1]
           /\ Head(gpuQ).type \in {"CONFIG", "TIME_SYNC", "STOP", "TASK"}
           /\ Head(gpuQ).type \in {"CONFIG", "TIME_SYNC"} => phase = "sync"
           /\ Head(gpuQ).type = "STOP" => phase = "done"
           /\ Head(gpuQ).type \in {"TIME_SYNC", "STOP"} => Clear(Drop(Line, 2))
           /\ Head(gpuQ).type = "TASK" =>
                 /\ Head(gpuQ).task.image = image /\ Head(gpuQ).task.req = image
                 /\ image \in RequestIds /\ phase \in {"send", "wait"} /\ Begun /\ ~Undecoded
<1>1. gpuQ \in Seq(MessageType) /\ gpuQ \in Seq(OwnMessage)
  BY DEF TypeOK, Messages
<1>2. 1 \in DOMAIN gpuQ /\ Head(gpuQ) = gpuQ[1] /\ gpuQ[1] \in MessageType /\ gpuQ[1] \in OwnMessage
  BY <1>1
<1>3. Line[2] = gpuQ /\ Line[1] = << >>
  BY LinePlaces DEF Running, GpuAt
<1>4. Proper(gpuQ[1]) /\ ~Clear(Line) /\ outputQ = << >>
  BY <1>2, <1>3, OnLine, LinePlaces
<1>5. gpuQ[1].type = "TASK" =>
         gpuQ[1].task.image = image /\ image \in RequestIds /\ phase \in {"send", "wait"} /\ Begun
  BY <1>2, <1>3, TaskOnLine, LinePlaces
<1>6. gpuQ[1].task.req = gpuQ[1].task.image
  BY <1>2 DEF OwnMessage, OwnTask
<1>7. gpuQ[1].type \in {"TIME_SYNC", "STOP"} => Clear(Drop(Line, 2))
  <2> SUFFICES ASSUME gpuQ[1].type \in {"TIME_SYNC", "STOP"} PROVE Clear(Drop(Line, 2))
    OBVIOUS
  <2>1. ~CanPrecede(Head(Line[2]))
    BY <1>2, <1>3 DEF CanPrecede
  <2>2. \A k \in 1 .. 2 - 1 : Line[k] = << >>
    BY <1>3
  <2>3. Orderly(Line, ProperMessages)
    BY StreamOrderly
  <2>4. QED
    BY <1>3, <2>1, <2>2, <2>3, LineDrop, LinePlaces
<1>8. gpuQ[1].type = "TASK" => ~Undecoded
  <2>1. \A l \in {3, 4} : \A j \in DOMAIN Line[l] : CanFollow(Line[l][j])
    <3>1. \A l \in {3, 4} : 2 < l /\ l \in Places /\ 2 \in Places
      BY DEF Places
    <3>2. QED
      BY <1>2, <1>3, <3>1 DEF Stream, Sorted
  <2>2. ~HasBase(inputQ)
    BY <2>1, LinePlaces DEF HasBase, IsBase, CanFollow
  <2>3. ASSUME dpc \in DecoderAt PROVE dtask.gid # 0
    <3>1. 1 \in DOMAIN Line[3] /\ Line[3][1].type = "TASK" /\ Line[3][1].task = dtask
      BY <2>3, LinePlaces DEF Decoding, Message
    <3>2. QED
      BY <2>1, <3>1 DEF CanFollow
  <2>4. QED
    BY <2>2, <2>3 DEF Undecoded
<1>9. QED
  BY <1>2, <1>4, <1>5, <1>6, <1>7, <1>8 DEF Proper, MessageType

-----------------------------------------------------------------------------
(* The answers, step by step.                                               *)
LEMMA Unanswered ==
    ASSUME Replies, ~Clear(Line)
    PROVE  /\ outputQ = << >>
           /\ \A j \in DOMAIN monitorQ : monitorQ[j].op # "SEND_RESPONSE"
           /\ \A j \in DOMAIN monitorQ : monitorQ[j].op = "FREE_SESSION" =>
                 monitorQ[j].req < image \/ (monitorQ[j].req = image /\ phase = "done")
BY DEF Replies, Responses, Results, Freed

(* The client takes an answer only when it waits for it, and of its image.  *)
LEMMA RepliesClient ==
    ASSUME Resend = FALSE, TypeOK, Replies, ClientStep
    PROVE  Replies'
<1>1. UNCHANGED << monitorQ, sessions, ctx, gpc, rpc >> /\ ~Retry /\ ~Abort
  BY NoSecondTry DEF ClientStep, SendConfig, ReceiveTimeSync, SendGroup, SendAhead, ReceiveResult,
                     queues, gpu
<1>2. \A j \in DOMAIN monitorQ : monitorQ[j].op # "SEND_RESPONSE"
  BY <1>1 DEF ClientStep, SendConfig, ReceiveTimeSync, SendGroup, SendAhead, ReceiveResult,
              Replies, Responses
<1>3. Responses'
  BY <1>1, <1>2 DEF Responses
<1>4. phase # "done" /\ (outputQ # << >> => phase \in {"sync", "wait"} /\ Len(outputQ) = 1)
  BY <1>1 DEF ClientStep, SendConfig, ReceiveTimeSync, SendGroup, SendAhead, ReceiveResult,
              Replies, Results
<1>5. outputQ' = << >>
  <2>1. CASE outputQ = << >>
    BY <1>1, <2>1 DEF ClientStep, SendConfig, ReceiveTimeSync, SendGroup, SendAhead, ReceiveResult
  <2>2. CASE outputQ # << >>
    <3>1. outputQ' = Tail(outputQ)
      BY <1>1, <1>4, <2>2 DEF ClientStep, SendConfig, ReceiveTimeSync, SendGroup, SendAhead,
                              ReceiveResult
    <3>2. outputQ \in Seq(SUBSET Pixels)
      BY DEF TypeOK
    <3>3. QED
      BY <1>4, <2>2, <3>1, <3>2
  <2>3. QED
    BY <2>1, <2>2
<1>6. Results'
  BY <1>5 DEF Results
<1>7. gpc # "stopped"
  BY <1>4 DEF Replies, Ends
<1>8. Ends'
  BY <1>1, <1>7 DEF Replies, Ends
<1>9. CASE ReceiveResult
  <2>1. /\ phase = "wait" /\ outputQ # << >> /\ answers' = Append(answers, Head(outputQ))
        /\ \/ image' = image + 1 /\ phase' = "send"
           \/ image' = image /\ phase' = "done"
    BY <1>9 DEF ReceiveResult
  <2>2. Head(outputQ) = outputQ[1] /\ outputQ[1] # {} /\ outputQ[1] \subseteq OfImage(image)
    <3>1. outputQ \in Seq(SUBSET Pixels)
      BY DEF TypeOK
    <3>2. QED
      BY <2>1, <3>1 DEF Replies, Results
  <2>3. answers \in Seq(SUBSET Pixels) /\ image \in Nat /\ outputQ[1] \in SUBSET Pixels
    <3>1. outputQ \in Seq(SUBSET Pixels)
      BY DEF TypeOK
    <3>2. outputQ[1] \in SUBSET Pixels
      BY <2>1, <3>1
    <3>3. QED
      BY <3>2 DEF TypeOK
  <2>4. Len(answers) = image - 1 /\ \A i \in DOMAIN answers : answers[i] # {} /\ answers[i] \subseteq OfImage(i)
    BY <2>1 DEF Replies, Answered
  <2>5. /\ Len(answers') = image
        /\ \A i \in DOMAIN answers' :
              \/ i \in DOMAIN answers /\ answers'[i] = answers[i]
              \/ i = image /\ answers'[i] = outputQ[1]
    <3>1. answers' = Append(answers, outputQ[1])
      BY <2>1, <2>2
    <3> DEFINE new == Append(answers, outputQ[1])
    <3>2. /\ Len(new) = Len(answers) + 1
          /\ \A i \in DOMAIN new :
                \/ i \in DOMAIN answers /\ new[i] = answers[i]
                \/ i = Len(answers) + 1 /\ new[i] = outputQ[1]
      <4> DEFINE e == outputQ[1]
      <4>1. e \in SUBSET Pixels /\ answers \in Seq(SUBSET Pixels)
        BY <2>3
      <4> HIDE DEF e
      <4>2. QED
        BY <4>1, QueueAppend DEF e
    <3>3. Len(answers) + 1 = image
      BY <2>3, <2>4
    <3>4. answers' = new
      BY <3>1
    <3> HIDE DEF new
    <3>5. QED
      BY <3>2, <3>3, <3>4
  <2>6. Answered'
    BY <2>1, <2>2, <2>3, <2>4, <2>5 DEF Answered, OfImage
  <2>7. \A q \in DOMAIN sessions : Freeing(q)
    BY <2>1 DEF Replies, Freed
  <2>8. Freed'
    <3>1. \A q \in DOMAIN sessions' : Freeing(q)'
      BY <1>1, <2>7 DEF Freeing
    <3>2. ASSUME NEW j \in DOMAIN monitorQ', monitorQ'[j].op = "FREE_SESSION"
          PROVE  monitorQ'[j].req < image' \/ (monitorQ'[j].req = image' /\ phase' = "done")
      <4>1. monitorQ[j].req < image \/ monitorQ[j].req = image
        BY <1>1, <3>2 DEF Replies, Freed
      <4>2. monitorQ[j] \in JobType
        BY <1>1, <3>2 DEF TypeOK
      <4>3. monitorQ[j].req \in Int
        BY <4>2 DEF JobType, RequestIds
      <4>4. QED
        BY <1>1, <2>1, <2>3, <4>1, <4>3
    <3>3. QED
      BY <3>1, <3>2 DEF Freed
  <2>9. QED
    BY <1>3, <1>6, <1>8, <2>6, <2>8 DEF Replies
<1>10. CASE ~ReceiveResult
  <2>1. /\ UNCHANGED << image, answers >> /\ phase' \in {"sync", "send", "wait"}
        /\ phase \in {"send", "wait"} => phase' \in {"send", "wait"}
        /\ phase # "wait"
    BY <1>1, <1>10 DEF ClientStep, SendConfig, ReceiveTimeSync, SendGroup, SendAhead
  <2>2. Answered'
    BY <1>4, <2>1 DEF Replies, Answered
  <2>3. \A q \in DOMAIN sessions : Freeing(q) \/ (q = image /\ phase \in {"send", "wait"})
    BY DEF Replies, Freed
  <2>4. \A q \in DOMAIN sessions' : Freeing(q)' \/ (q = image' /\ phase' \in {"send", "wait"})
    BY <1>1, <2>1, <2>3 DEF Freeing
  <2>5. \A j \in DOMAIN monitorQ : monitorQ[j].op = "FREE_SESSION" => monitorQ[j].req < image
    BY <1>4, <2>1 DEF Replies, Freed
  <2>6. Freed'
    BY <1>1, <1>5, <2>1, <2>4, <2>5 DEF Freed
  <2>7. QED
    BY <1>3, <1>6, <1>8, <2>2, <2>6 DEF Replies
<1>11. QED
  BY <1>9, <1>10

(* Opening a context for the current image, and no other.                   *)
LEMMA FreedOpen ==
    ASSUME Replies, UNCHANGED << monitorQ, outputQ, phase, image >>, ~Clear(Line),
           \/ DOMAIN sessions' \subseteq DOMAIN sessions
           \/ DOMAIN sessions' = DOMAIN sessions \cup {image} /\ phase \in {"send", "wait"}
    PROVE  Freed' /\ Responses' /\ Results'
<1>1. /\ outputQ = << >>
      /\ \A j \in DOMAIN monitorQ : monitorQ[j].op # "SEND_RESPONSE"
      /\ \A j \in DOMAIN monitorQ : monitorQ[j].op = "FREE_SESSION" =>
            monitorQ[j].req < image \/ (monitorQ[j].req = image /\ phase = "done")
  BY Unanswered
<1>2. \A q \in DOMAIN sessions :
         Freeing(q) \/ (q = image /\ phase \in {"send", "wait"} /\ outputQ = << >>)
  BY DEF Replies, Freed
<1>3. \A q \in DOMAIN sessions' :
         Freeing(q)' \/ (q = image' /\ phase' \in {"send", "wait"} /\ outputQ' = << >>)
  BY <1>1, <1>2 DEF Freeing
<1>4. QED
  BY <1>1, <1>3 DEF Freed, Responses, Results

(* The decoder may open a session for the image being sent.                 *)
LEMMA RepliesDecoder ==
    ASSUME TypeOK, Messages, Stream, Replies, DecoderStep
    PROVE  Replies'
<1>1. UNCHANGED << monitorQ, outputQ, gpc, rpc, phase, image, answers >>
  BY DEF DecoderStep, DecoderTake, DecoderOpen, DecoderCreate, DecoderFind, DecoderRead,
         DecoderAssign, DecoderSnapshot, queues, gpu, client
<1>2. Answered' /\ Ends'
  BY <1>1 DEF Replies, Answered, Ends
<1>3. Results
  BY DEF Replies
<1>4. CASE DecoderTake
  <2>1. ~Clear(Line)
    BY <1>4, LinePlaces DEF DecoderTake, Clear
  <2>2. sessions' = sessions
    BY <1>4 DEF DecoderTake
  <2>3. QED
    BY <1>1, <1>2, <2>1, <2>2, FreedOpen DEF Replies
<1>5. CASE \/ DecoderOpen \/ DecoderCreate \/ DecoderFind \/ DecoderRead \/ DecoderAssign
           \/ DecoderSnapshot
  <2>0. dpc \in DecoderAt
    BY <1>5 DEF DecoderAt, DecoderOpen, DecoderCreate, DecoderFind, DecoderRead, DecoderAssign,
                DecoderSnapshot
  <2>1. dtask.req = image /\ phase \in {"send", "wait"} /\ ~Clear(Line)
    BY <1>3, <2>0, DecoderTask
  <2>2. sessions' = sessions \/ DOMAIN sessions' = DOMAIN sessions \cup {image}
    BY <1>5, <2>1 DEF DecoderOpen, DecoderCreate, DecoderFind, DecoderRead, DecoderAssign,
                      DecoderSnapshot, Create
  <2>3. QED
    BY <1>1, <1>2, <2>1, <2>2, FreedOpen DEF Replies
<1>6. QED
  BY <1>4, <1>5 DEF DecoderStep

(* A job is handed to the reaper: one that is no answer.                    *)
LEMMA JobAppended ==
    ASSUME TypeOK, NEW job \in JobType, monitorQ' = Append(monitorQ, job)
    PROVE  /\ \A j \in DOMAIN monitorQ' : \/ j \in DOMAIN monitorQ /\ monitorQ'[j] = monitorQ[j]
                                          \/ j = Len(monitorQ) + 1 /\ monitorQ'[j] = job
           /\ DOMAIN monitorQ = 1..Len(monitorQ) /\ DOMAIN monitorQ' = 1..Len(monitorQ) + 1
           /\ Len(monitorQ) \in Nat
           /\ \A q : Freeing(q) => Freeing(q)'
<1>1. monitorQ \in Seq(JobType)
  BY DEF TypeOK
<1>2. QED
  BY <1>1, QueueAppend DEF Freeing

(* CONFIG empties the dictionary while no session is owed a response.       *)
LEMMA RepliesGpuTake ==
    ASSUME TypeOK, Messages, Stream, Replies, GpuTakes
    PROVE  Replies'
<1> DEFINE msg == Head(gpuQ)
<1>1. /\ ~Clear(Line) /\ outputQ = << >>
      /\ msg.type \in {"CONFIG", "TIME_SYNC", "STOP", "TASK"}
      /\ msg.type \in {"CONFIG", "TIME_SYNC"} => phase = "sync"
      /\ msg.type = "STOP" => phase = "done"
      /\ msg.type \in {"TIME_SYNC", "STOP"} => Clear(Drop(Line, 2))
      /\ msg.type = "TASK" => msg.task.req = image /\ phase \in {"send", "wait"}
  BY GpuHead DEF GpuTakes, GpuStop, GpuConfig, GpuTimeSync, GpuTask, Replies
<1>2. UNCHANGED << phase, image, answers, rpc >> /\ gpc = "take"
  BY DEF GpuTakes, GpuStop, GpuConfig, GpuTimeSync, GpuTask, client
<1> HIDE DEF msg
<1>3. Answered'
  BY <1>2 DEF Replies, Answered
<1>4. /\ \A j \in DOMAIN monitorQ : monitorQ[j].op # "SEND_RESPONSE"
      /\ \A j \in DOMAIN monitorQ : monitorQ[j].op = "FREE_SESSION" =>
            monitorQ[j].req < image \/ (monitorQ[j].req = image /\ phase = "done")
      /\ \A j \in DOMAIN monitorQ : monitorQ[j].op # "STOP"
      /\ rpc # "stopped"
      /\ \A q \in DOMAIN sessions : phase \in {"sync", "done"} => Freeing(q)
  BY <1>1, <1>2, Unanswered DEF Replies, Ends, Freed
<1>5. CASE msg.type = "STOP"
  <2> DEFINE job == [op |-> "STOP", req |-> NoTask.req]
  <2>1. monitorQ' = Append(monitorQ, job) /\ gpc' = "stopped" /\ UNCHANGED << outputQ, sessions, ctx >>
    BY <1>5 DEF GpuTakes, GpuStop, GpuConfig, GpuTimeSync, GpuTask, msg
  <2>2. job \in JobType /\ job.op = "STOP"
    BY NoTaskTyped DEF JobType, TaskType
  <2> HIDE DEF job
  <2>3. /\ \A j \in DOMAIN monitorQ' : \/ j \in DOMAIN monitorQ /\ monitorQ'[j] = monitorQ[j]
                                       \/ j = Len(monitorQ) + 1 /\ monitorQ'[j] = job
        /\ DOMAIN monitorQ = 1..Len(monitorQ) /\ DOMAIN monitorQ' = 1..Len(monitorQ) + 1
        /\ Len(monitorQ) \in Nat
        /\ \A q : Freeing(q) => Freeing(q)'
    BY <2>1, <2>2, JobAppended
  <2>4. Responses' /\ Results'
    BY <1>1, <1>4, <2>1, <2>2, <2>3 DEF Responses, Results
  <2>5. Freed'
    <3>1. \A q \in DOMAIN sessions' : Freeing(q)'
      BY <1>1, <1>4, <1>5, <2>1, <2>3
    <3>2. \A j \in DOMAIN monitorQ' : monitorQ'[j].op = "FREE_SESSION" =>
             monitorQ'[j].req < image \/ (monitorQ'[j].req = image /\ phase = "done")
      BY <1>4, <2>2, <2>3
    <3>3. QED
      BY <1>2, <3>1, <3>2 DEF Freed
  <2>6. Ends'
    <3>1. \A i, j \in DOMAIN monitorQ' : i < j => i \in DOMAIN monitorQ /\ monitorQ'[i] = monitorQ[i]
      BY <2>3
    <3>2. QED
      BY <1>1, <1>2, <1>4, <1>5, <2>1, <3>1 DEF Ends
  <2>7. QED
    BY <1>3, <2>4, <2>5, <2>6 DEF Replies
<1>6. CASE msg.type = "CONFIG"
  <2>1. sessions' = << >> /\ UNCHANGED << monitorQ, outputQ, gpc >>
    BY <1>6 DEF GpuTakes, GpuStop, GpuConfig, GpuTimeSync, GpuTask, msg, gpu
  <2>2. DOMAIN sessions' \subseteq DOMAIN sessions
    BY <2>1
  <2>3. QED
    BY <1>1, <1>2, <1>3, <2>1, <2>2, FreedOpen DEF Replies, Ends
<1>7. CASE msg.type = "TIME_SYNC"
  <2>1. outputQ' = Append(outputQ, {}) /\ UNCHANGED << monitorQ, sessions, ctx, gpc >>
    BY <1>7 DEF GpuTakes, GpuStop, GpuConfig, GpuTimeSync, GpuTask, msg, gpu
  <2>2. outputQ' = << {} >> /\ Len(outputQ') = 1
    BY <1>1, <2>1
  <2>3. Clear(Line')
    <3>1. Line' = Drop(Line, 2)
      BY <1>7, LineGpuTake DEF msg, Taken
    <3>2. QED
      BY <1>1, <1>7, <3>1
  <2>4. Responses' /\ Results'
    BY <1>1, <1>2, <1>4, <1>7, <2>1, <2>2, <2>3 DEF Responses, Results
  <2>5. Freed'
    BY <1>1, <1>2, <1>4, <1>7, <2>1 DEF Freed, Freeing
  <2>6. QED
    BY <1>2, <1>3, <2>1, <2>4, <2>5 DEF Replies, Ends
<1>8. CASE msg.type = "TASK"
  <2>1. UNCHANGED << sessions, ctx, monitorQ, outputQ >> /\ gpc' # "stopped"
    BY <1>8 DEF GpuTakes, GpuStop, GpuConfig, GpuTimeSync, GpuTask, msg
  <2>2. Ends'
    BY <1>2, <1>4, <2>1 DEF Replies, Ends
  <2>3. QED
    BY <1>1, <1>2, <1>3, <2>1, <2>2, FreedOpen DEF Replies
<1>9. QED
  BY <1>1, <1>5, <1>6, <1>7, <1>8

(* Inside a task, the GPU thread may open a session too.                    *)
LEMMA RepliesGpuWithin ==
    ASSUME TypeOK, Messages, Stream, Replies,
           GpuCreate \/ GpuUpdate \/ GpuOpen \/ GpuFind \/ GpuLoad
    PROVE  Replies'
<1>1. /\ UNCHANGED << monitorQ, outputQ, rpc, phase, image, answers >>
      /\ gpc \in GpuAt /\ gpc # "stopped" /\ gpc' # "stopped"
  BY DEF GpuCreate, GpuUpdate, GpuOpen, GpuFind, GpuLoad, queues, client, GpuAt
<1>2. gtask.req = image /\ phase \in {"send", "wait"} /\ ~Clear(Line)
  BY <1>1, GpuTaskIs DEF Replies
<1>3. sessions' = sessions \/ DOMAIN sessions' = DOMAIN sessions \cup {image}
  BY <1>2 DEF GpuCreate, GpuUpdate, GpuOpen, GpuFind, GpuLoad, Create
<1>4. Answered' /\ Ends'
  BY <1>1 DEF Replies, Answered, Ends
<1>5. QED
  BY <1>1, <1>2, <1>3, <1>4, FreedOpen DEF Replies

(* A task is served: a residual group finds what it corrects.               *)
LEMMA TaskServed ==
    ASSUME SInv, gpc = "run"
    PROVE  /\ ~Raised /\ Known(image) /\ sessions[image] = gctx /\ gctx \in DOMAIN ctx
           /\ gtask.gid # Feedback => Base \in ctx[gctx].input
<1>1. /\ gtask.image = image /\ gtask.req = image /\ Begun
      /\ gtask.gid # 0 => ~BaseDue
  BY GpuTaskIs DEF SInv, IInv, Replies, GpuAt
<1>2. Known(image) /\ sessions[image] = gctx
  BY <1>1 DEF SInv, Canvases, ContextLive
<1>3. gctx \in DOMAIN ctx /\ (gtask.gid # Feedback => Base \in ctx[gctx].input)
  BY DEF SInv, IInv, TypeOK, Canvases, Loaded
<1>4. gtask.gid # 0 => ctx[gctx].approx
  BY <1>1, <1>2 DEF SInv, Canvases, Approximated
<1>5. QED
  BY <1>2, <1>3, <1>4 DEF Raised

(* The last group puts its response and the freeing of its session behind   *)
(* everything the reaper still has to do.                                   *)
LEMMA RepliesGpuRun ==
    ASSUME SInv, GpuRun
    PROVE  Replies'
<1> DEFINE first == Job("SEND_RESPONSE", image)
           second == Job("FREE_SESSION", image)
           other == Job("APPROX_FORWARD", image)
<1>1. /\ TypeOK /\ Messages /\ OwnPixels /\ Stream /\ Replies /\ Results
      /\ gpc = "run" /\ gpc' = "take"
      /\ UNCHANGED << outputQ, rpc, phase, image, answers >>
  BY DEF SInv, IInv, Replies, GpuRun, client
<1>2. /\ gtask.req = image /\ image \in RequestIds /\ phase \in {"send", "wait"}
      /\ ~Clear(Line) /\ outputQ = << >>
      /\ gtask.gid = LastGroup =>
            phase = "wait" /\ gpuQ = << >> /\ Decoding = << >> /\ inputQ = << >>
  BY <1>1, GpuTaskIs DEF GpuAt
<1>3. /\ ~Raised /\ Known(image) /\ sessions[image] = gctx /\ gctx \in DOMAIN ctx
      /\ gtask.gid # Feedback => Base \in ctx[gctx].input
  BY <1>1, TaskServed
<1>4. /\ \A j \in DOMAIN monitorQ : monitorQ[j].op # "SEND_RESPONSE"
      /\ \A j \in DOMAIN monitorQ : monitorQ[j].op = "FREE_SESSION" => monitorQ[j].req < image
      /\ \A j \in DOMAIN monitorQ : monitorQ[j].op # "STOP"
      /\ rpc # "stopped"
  BY <1>1, <1>2, Unanswered DEF Replies, Ends
<1>5. sessions' = sessions /\ monitorQ' = monitorQ \o [i \in DOMAIN Jobs |-> Job(Jobs[i], image)]
  BY <1>2, <1>3 DEF GpuRun, Job
<1>6. /\ first \in JobType /\ second \in JobType /\ other \in JobType
      /\ first.op = "SEND_RESPONSE" /\ second.op = "FREE_SESSION" /\ other.op = "APPROX_FORWARD"
      /\ first.req = image /\ second.req = image
  BY <1>2 DEF Job, JobType
<1>7. monitorQ \in Seq(JobType) /\ Len(monitorQ) \in Nat /\ DOMAIN monitorQ = 1..Len(monitorQ)
  BY <1>1 DEF TypeOK
<1>8. Answered'
  BY <1>1 DEF Replies, Answered
<1>9. \A q \in DOMAIN sessions : Freeing(q) \/ (q = image /\ phase \in {"send", "wait"})
  BY <1>1 DEF Replies, Freed
<1>10. CASE gtask.gid # LastGroup
  <2>1. monitorQ' = Append(monitorQ, other)
    <3>1. Jobs = << "APPROX_FORWARD" >>
      BY <1>10 DEF Jobs
    <3>2. [i \in DOMAIN Jobs |-> Job(Jobs[i], image)] = << other >>
      BY <3>1
    <3> HIDE DEF other
    <3>3. QED
      BY <1>5, <1>6, <1>7, <3>2
  <2> HIDE DEF other
  <2>2. /\ \A j \in DOMAIN monitorQ' : \/ j \in DOMAIN monitorQ /\ monitorQ'[j] = monitorQ[j]
                                       \/ j = Len(monitorQ) + 1 /\ monitorQ'[j] = other
        /\ \A q : Freeing(q) => Freeing(q)'
    BY <1>1, <1>6, <2>1, JobAppended
  <2>3. Responses' /\ Results' /\ Ends'
    BY <1>1, <1>2, <1>4, <1>6, <2>2 DEF Responses, Results, Ends
  <2>4. Freed'
    <3>1. \A q \in DOMAIN sessions' : Freeing(q)' \/ (q = image' /\ phase' \in {"send", "wait"} /\ outputQ' = << >>)
      BY <1>1, <1>2, <1>5, <1>9, <2>2
    <3>2. \A j \in DOMAIN monitorQ' : monitorQ'[j].op = "FREE_SESSION" => monitorQ'[j].req < image'
      BY <1>1, <1>4, <1>6, <2>2
    <3>3. QED
      BY <3>1, <3>2 DEF Freed
  <2>5. QED
    BY <1>8, <2>3, <2>4 DEF Replies
<1>11. CASE gtask.gid = LastGroup
  <2>1. monitorQ' = Append(Append(monitorQ, first), second)
    <3>1. Jobs = << "SEND_RESPONSE", "FREE_SESSION" >>
      BY <1>11 DEF Jobs
    <3>2. [i \in DOMAIN Jobs |-> Job(Jobs[i], image)] = << first, second >>
      BY <3>1
    <3> HIDE DEF first, second
    <3>3. QED
      BY <1>5, <1>6, <1>7, <3>2
  <2> HIDE DEF first, second
  <2>2. /\ \A j \in DOMAIN monitorQ' :
             \/ j \in DOMAIN monitorQ /\ monitorQ'[j] = monitorQ[j]
             \/ j = Len(monitorQ) + 1 /\ monitorQ'[j] = first
             \/ j = Len(monitorQ) + 2 /\ monitorQ'[j] = second
        /\ DOMAIN monitorQ' = 1..Len(monitorQ) + 2
        /\ \A j \in DOMAIN monitorQ : monitorQ'[j] = monitorQ[j]
        /\ monitorQ'[Len(monitorQ) + 1] = first /\ monitorQ'[Len(monitorQ) + 2] = second
    BY <1>6, <1>7, <2>1
  <2>3. \A q : Freeing(q) => Freeing(q)'
    BY <1>7, <2>2 DEF Freeing
  <2>4. Clear(Line')
    <3>1. Line' = Drop(Line, 1) /\ Head(Line[1]) = Message("TASK", gtask, {}) /\ Line[1] # << >>
      BY <1>1, LineGpuRun DEF Taken
    <3>2. ~CanPrecede(Head(Line[1]))
      BY <1>11, <3>1 DEF CanPrecede, Message
    <3>3. \A k \in 1 .. 1 - 1 : Line[k] = << >>
      OBVIOUS
    <3>4. Orderly(Line, ProperMessages)
      BY <1>1, StreamOrderly
    <3>5. QED
      BY <3>1, <3>2, <3>3, <3>4, LineDrop, LinePlaces
  <2>5. Known(image)' /\ ctx'[sessions'[image]].preds # {}
    <3>1. ctx \in Seq(ContextType) /\ gctx \in DOMAIN ctx /\ ctx[gctx] \in ContextType
      BY <1>1, <1>3 DEF TypeOK
    <3>2. gtask.gid # Feedback
      BY <1>11 DEF Feedback
    <3>3. ctx'[gctx].preds = ctx[gctx].input
      <4> DEFINE new == [ctx[gctx] EXCEPT !.approx = @ \/ ctx[gctx].input # {},
                                          !.preds = IF gtask.gid = LastGroup
                                                    THEN ctx[gctx].input ELSE @]
      <4>1. ctx' = [ctx EXCEPT ![gctx] = new]
        BY <1>3 DEF GpuRun
      <4>2. new.preds = ctx[gctx].input
        BY <1>11, <3>1 DEF ContextType
      <4> HIDE DEF new
      <4>3. QED
        BY <3>1, <4>1, <4>2
    <3>4. QED
      BY <1>1, <1>3, <1>5, <3>2, <3>3 DEF Known
  <2>6. Responses'
    <3> SUFFICES ASSUME NEW j \in DOMAIN monitorQ', monitorQ'[j].op = "SEND_RESPONSE"
                 PROVE  /\ monitorQ'[j].req = image' /\ phase' = "wait"
                        /\ Clear(Line') /\ outputQ' = << >>
                        /\ Known(image)' /\ ctx'[sessions'[image]].preds # {}
                        /\ j + 1 \in DOMAIN monitorQ'
                        /\ monitorQ'[j + 1] = Job("FREE_SESSION", image')
                        /\ \A i \in 1..j - 1 : /\ monitorQ'[i].op # "SEND_RESPONSE"
                                               /\ monitorQ'[i] # Job("FREE_SESSION", image')
      BY <1>1 DEF Responses
    <3>1. j = Len(monitorQ) + 1
      BY <1>4, <1>6, <2>2
    <3>2. j + 1 \in DOMAIN monitorQ' /\ monitorQ'[j + 1] = second
      BY <1>7, <2>2, <3>1
    <3>3. \A i \in 1..j - 1 : i \in DOMAIN monitorQ /\ monitorQ'[i] = monitorQ[i]
      BY <1>7, <2>2, <3>1
    <3>4. \A i \in DOMAIN monitorQ : monitorQ[i] # second
      BY <1>4, <1>6, <1>2 DEF RequestIds
    <3>5. QED
      BY <1>1, <1>2, <1>4, <1>6, <1>11, <2>2, <2>4, <2>5, <3>1, <3>2, <3>3, <3>4 DEF second
  <2>7. Results'
    BY <1>1, <1>2 DEF Results
  <2>8. Freed'
    <3>1. \A q \in DOMAIN sessions' :
             Freeing(q)' \/ (q = image' /\ phase' \in {"send", "wait"} /\ outputQ' = << >>)
      BY <1>1, <1>2, <1>5, <1>9, <2>3
    <3>2. \A j \in DOMAIN monitorQ' : monitorQ'[j].op = "FREE_SESSION" =>
             monitorQ'[j].req < image' \/ monitorQ'[j].req = image'
      BY <1>1, <1>4, <1>6, <2>2
    <3>3. QED
      BY <1>1, <1>2, <1>11, <2>4, <3>1, <3>2 DEF Freed
  <2>9. Ends'
    BY <1>1, <1>4, <1>6, <2>2 DEF Ends
  <2>10. QED
    BY <1>8, <2>6, <2>7, <2>8, <2>9 DEF Replies
<1>12. QED
  BY <1>10, <1>11

(* The reaper answers the image waited for, then frees its session.         *)
LEMMA RepliesReaper ==
    ASSUME SInv, ReaperTake
    PROVE  Replies'
<1> DEFINE job == Head(monitorQ)
<1>1. /\ TypeOK /\ OwnPixels /\ Replies /\ rpc = "take"
      /\ UNCHANGED << ctx, phase, image, answers, gpc >> /\ Line' = Line
      /\ monitorQ # << >> /\ monitorQ' = Tail(monitorQ)
  BY LineSame DEF SInv, IInv, ReaperTake, client, gpu
<1>2. /\ DOMAIN monitorQ = 1..Len(monitorQ) /\ Len(monitorQ) \in Nat \ {0}
      /\ DOMAIN monitorQ' = 1..Len(monitorQ) - 1
      /\ 1 \in DOMAIN monitorQ /\ job = monitorQ[1]
      /\ \A i \in DOMAIN monitorQ' : i + 1 \in DOMAIN monitorQ /\ monitorQ'[i] = monitorQ[i + 1]
      /\ \A i \in DOMAIN monitorQ : i # 1 => i - 1 \in DOMAIN monitorQ' /\ monitorQ'[i - 1] = monitorQ[i]
  <2>1. monitorQ \in Seq(JobType)
    BY <1>1 DEF TypeOK
  <2>2. QED
    BY <1>1, <2>1, QueueTail
<1>3. /\ rpc' = IF job.op = "STOP" THEN "stopped" ELSE "take"
      /\ outputQ' = IF job.op = "SEND_RESPONSE" /\ Known(job.req)
                    THEN Append(outputQ, ctx[sessions[job.req]].preds) ELSE outputQ
      /\ sessions' = IF job.op = "FREE_SESSION" THEN Without(job.req) ELSE sessions
  BY DEF ReaperTake
<1> HIDE DEF job
<1>4. Answered'
  BY <1>1 DEF Replies, Answered
<1>5. Ends'
  <2>1. job.op = "STOP" => monitorQ' = << >> /\ gpc = "stopped"
    <3> SUFFICES ASSUME job.op = "STOP" PROVE monitorQ' = << >> /\ gpc = "stopped"
      OBVIOUS
    <3>1. 2 \notin DOMAIN monitorQ /\ gpc = "stopped"
      BY <1>1, <1>2 DEF Replies, Ends
    <3>2. Len(monitorQ) = 1
      BY <1>2, <3>1
    <3>3. monitorQ \in Seq(JobType)
      BY <1>1 DEF TypeOK
    <3>4. QED
      BY <1>1, <3>1, <3>2, <3>3
  <2>2. \A i, j \in DOMAIN monitorQ' : i < j => monitorQ'[i].op # "STOP"
    <3> SUFFICES ASSUME NEW i \in DOMAIN monitorQ', NEW j \in DOMAIN monitorQ', i < j
                 PROVE  monitorQ'[i].op # "STOP"
      OBVIOUS
    <3>1. i + 1 \in DOMAIN monitorQ /\ j + 1 \in DOMAIN monitorQ /\ i + 1 < j + 1
          /\ monitorQ'[i] = monitorQ[i + 1]
      BY <1>2
    <3>2. QED
      BY <1>1, <3>1 DEF Replies, Ends
  <2>3. \A i \in DOMAIN monitorQ' : monitorQ'[i].op = "STOP" => gpc = "stopped"
    BY <1>1, <1>2 DEF Replies, Ends
  <2>4. QED
    BY <1>1, <1>3, <2>1, <2>2, <2>3 DEF Replies, Ends
<1>6. \A j \in DOMAIN monitorQ' : monitorQ'[j].op = "FREE_SESSION" =>
          \/ monitorQ'[j].req < image
          \/ monitorQ'[j].req = image /\ (phase = "done" \/ (phase = "wait" /\ Clear(Line)))
  BY <1>1, <1>2 DEF Replies, Freed
<1>7. CASE job.op = "SEND_RESPONSE"
  <2>1. /\ job.req = image /\ phase = "wait" /\ Clear(Line) /\ outputQ = << >> /\ Known(image)
        /\ ctx[sessions[image]].preds # {}
        /\ 2 \in DOMAIN monitorQ /\ monitorQ[2] = Job("FREE_SESSION", image)
    BY <1>1, <1>2, <1>7 DEF Replies, Responses
  <2>2. outputQ' = << ctx[sessions[image]].preds >> /\ sessions' = sessions
    BY <1>3, <1>7, <2>1
  <2>3. ctx[sessions[image]].preds \subseteq OfImage(image)
    <3>1. image \in RequestIds /\ sessions[image] \in DOMAIN ctx /\ Holds(image, sessions[image])
      BY <1>1, <2>1 DEF TypeOK, Known, Holds, RequestIds
    <3>2. QED
      BY <1>1, <3>1 DEF OwnPixels, PixelsOf
  <2>4. \A j \in DOMAIN monitorQ' : monitorQ'[j].op # "SEND_RESPONSE"
    <3> SUFFICES ASSUME NEW j \in DOMAIN monitorQ', monitorQ'[j].op = "SEND_RESPONSE" PROVE FALSE
      OBVIOUS
    <3>1. j + 1 \in DOMAIN monitorQ /\ monitorQ[j + 1].op = "SEND_RESPONSE" /\ 1 \in 1..(j + 1) - 1
      BY <1>2
    <3>2. QED
      BY <1>1, <1>2, <1>7, <3>1 DEF Replies, Responses
  <2>5. Responses'
    BY <2>4 DEF Responses
  <2>6. Results'
    BY <1>1, <2>1, <2>2, <2>3, <2>4 DEF Results, OfImage
  <2>7. Freed'
    <3>1. monitorQ'[1] = Job("FREE_SESSION", image) /\ 1 \in DOMAIN monitorQ'
      BY <1>2, <2>1
    <3>2. Freeing(image)'
      BY <1>1, <3>1 DEF Freeing
    <3>3. ASSUME NEW q \in DOMAIN sessions, q # image PROVE Freeing(q)'
      <4>1. PICK j \in DOMAIN monitorQ : monitorQ[j] = Job("FREE_SESSION", q)
        BY <1>1, <3>3 DEF Replies, Freed, Freeing
      <4>2. j # 1
        BY <1>2, <1>7, <4>1 DEF Job
      <4>3. QED
        BY <1>2, <4>1, <4>2 DEF Freeing
    <3>4. QED
      BY <1>1, <1>6, <2>2, <3>2, <3>3 DEF Freed
  <2>8. QED
    BY <1>4, <1>5, <2>5, <2>6, <2>7 DEF Replies
<1>8. CASE job.op # "SEND_RESPONSE"
  <2>1. outputQ' = outputQ
    BY <1>3, <1>8
  <2>2. /\ DOMAIN sessions' \subseteq DOMAIN sessions
        /\ \A q \in DOMAIN sessions' : sessions'[q] = sessions[q]
        /\ \A q \in DOMAIN sessions : q \notin DOMAIN sessions' <=> job.op = "FREE_SESSION" /\ job.req = q
    BY <1>3 DEF Without
  <2>3. Responses'
    <3> SUFFICES ASSUME NEW j \in DOMAIN monitorQ', monitorQ'[j].op = "SEND_RESPONSE"
                 PROVE  /\ monitorQ'[j].req = image' /\ phase' = "wait"
                        /\ Clear(Line') /\ outputQ' = << >>
                        /\ Known(image)' /\ ctx'[sessions'[image]].preds # {}
                        /\ j + 1 \in DOMAIN monitorQ'
                        /\ monitorQ'[j + 1] = Job("FREE_SESSION", image')
                        /\ \A i \in 1..j - 1 : /\ monitorQ'[i].op # "SEND_RESPONSE"
                                               /\ monitorQ'[i] # Job("FREE_SESSION", image')
      BY <1>1 DEF Responses
    <3>1. j + 1 \in DOMAIN monitorQ /\ monitorQ'[j] = monitorQ[j + 1]
      BY <1>2
    <3>2. /\ monitorQ[j + 1].req = image /\ phase = "wait" /\ Clear(Line) /\ outputQ = << >>
          /\ Known(image) /\ ctx[sessions[image]].preds # {}
          /\ (j + 1) + 1 \in DOMAIN monitorQ
          /\ monitorQ[(j + 1) + 1] = Job("FREE_SESSION", image)
          /\ \A i \in 1..(j + 1) - 1 : /\ monitorQ[i].op # "SEND_RESPONSE"
                                       /\ monitorQ[i] # Job("FREE_SESSION", image)
      BY <1>1, <3>1 DEF Replies, Responses
    <3>3. j + 1 \in DOMAIN monitorQ' /\ monitorQ'[j + 1] = monitorQ[(j + 1) + 1]
      BY <1>2, <3>1, <3>2
    <3>4. \A i \in 1..j - 1 : i + 1 \in 1..(j + 1) - 1 /\ monitorQ'[i] = monitorQ[i + 1]
      <4>1. j \in 1..Len(monitorQ) - 1 /\ Len(monitorQ) \in Nat
        BY <1>2
      <4>2. \A i \in 1..j - 1 : i + 1 \in 1..(j + 1) - 1 /\ i \in 1..Len(monitorQ) - 1
        BY <4>1
      <4>3. QED
        BY <1>2, <4>2
    <3>5. image \in DOMAIN sessions'
      <4>1. monitorQ[1] # Job("FREE_SESSION", image)
        BY <1>2, <3>1, <3>2
      <4>2. monitorQ[1] \in JobType
        BY <1>1, <1>2 DEF TypeOK
      <4>3. ~(monitorQ[1].op = "FREE_SESSION" /\ monitorQ[1].req = image)
        BY <4>1, <4>2 DEF JobType, Job
      <4>4. QED
        BY <1>2, <2>2, <3>2, <4>3 DEF Known
    <3>6. QED
      BY <1>1, <2>1, <2>2, <3>1, <3>2, <3>3, <3>4, <3>5 DEF Known
  <2>4. Results'
    BY <1>1, <1>2, <2>1 DEF Replies, Results
  <2>5. Freed'
    <3>1. ASSUME NEW q \in DOMAIN sessions', Freeing(q) PROVE Freeing(q)'
      <4>1. PICK j \in DOMAIN monitorQ : monitorQ[j] = Job("FREE_SESSION", q)
        BY <3>1 DEF Freeing
      <4>2. j # 1
        BY <1>2, <2>2, <4>1 DEF Job
      <4>3. QED
        BY <1>2, <4>1, <4>2 DEF Freeing
    <3>2. QED
      BY <1>1, <1>6, <2>1, <2>2, <3>1 DEF Replies, Freed
  <2>6. QED
    BY <1>4, <1>5, <2>3, <2>4, <2>5 DEF Replies
<1>9. QED
  BY <1>7, <1>8

-----------------------------------------------------------------------------
(* The canvases, step by step.                                              *)
LEMMA HasBaseIs ==
    ASSUME NEW s \in Seq(MessageType), NEW msg \in MessageType
    PROVE  /\ HasBase(Append(s, msg)) <=> HasBase(s) \/ IsBase(msg)
           /\ s # << >> => (HasBase(s) <=> HasBase(Tail(s)) \/ IsBase(Head(s)))
<1>1. HasBase(Append(s, msg)) <=> HasBase(s) \/ IsBase(msg)
  <2> DEFINE new == Append(s, msg)
  <2>1. /\ DOMAIN new = 1..Len(s) + 1 /\ Len(s) \in Nat
        /\ \A i \in DOMAIN new :
              \/ i \in DOMAIN s /\ new[i] = s[i]
              \/ i = Len(s) + 1 /\ new[i] = msg
        /\ \A i \in DOMAIN s : i \in DOMAIN new /\ new[i] = s[i]
        /\ new[Len(s) + 1] = msg
    BY QueueAppend
  <2> HIDE DEF new
  <2>2. QED
    BY <2>1 DEF HasBase, new
<1>2. ASSUME s # << >> PROVE HasBase(s) <=> HasBase(Tail(s)) \/ IsBase(Head(s))
  <2> DEFINE new == Tail(s)
  <2>1. /\ 1 \in DOMAIN s /\ Head(s) = s[1]
        /\ \A i \in DOMAIN new : i + 1 \in DOMAIN s /\ new[i] = s[i + 1]
        /\ \A i \in DOMAIN s : i # 1 => i - 1 \in DOMAIN new /\ new[i - 1] = s[i]
    BY <1>2, QueueTail
  <2> HIDE DEF new
  <2>2. QED
    BY <2>1 DEF HasBase, new
<1>3. QED
  BY <1>1, <1>2

(* A thread changes a context there is.                                     *)
LEMMA ContextSet ==
    ASSUME TypeOK, NEW c \in DOMAIN ctx, NEW new, ctx' = [ctx EXCEPT ![c] = new]
    PROVE  /\ ctx'[c] = new
           /\ \A d \in DOMAIN ctx : d # c => ctx'[d] = ctx[d]
BY DEF TypeOK

(* What the client puts on the line begins with the base group.             *)
LEMMA CanvasesClient ==
    ASSUME Resend = FALSE, SInv, ClientStep, incremental' = incremental
    PROVE  Canvases'
<1>1. /\ TypeOK /\ Messages /\ Stream /\ Results /\ Canvases
      /\ UNCHANGED << ctx, sessions, gpuQ, dpc, dtask, dctx, dcanvas, gpc, gtask, gctx >>
      /\ ~Retry /\ ~Abort
  BY NoSecondTry DEF SInv, IInv, Replies, ClientStep, SendConfig, ReceiveTimeSync, SendGroup,
                     SendAhead, ReceiveResult, decoder, gpu
<1>2. Sorted(Line) /\ Painting /\ Approximated /\ Snapshots /\ DecoderBase /\ Loaded
      /\ ContextLive /\ BasePresent
  BY <1>1 DEF Canvases, Stream
<1>3. image' = image \/ Clear(Line)
  BY <1>1 DEF ClientStep, SendConfig, ReceiveTimeSync, SendGroup, SendAhead, ReceiveResult, Results
<1>4. Begun' => /\ image' = image
                /\ HasBase(inputQ') \/ (Begun /\ (HasBase(inputQ) => HasBase(inputQ')))
  <2>1. CASE SendConfig \/ ReceiveTimeSync \/ ReceiveResult
    <3>1. sent' = 0 \/ phase' = "done"
      BY <1>1, <2>1 DEF SendConfig, ReceiveTimeSync, ReceiveResult, Stream, Start
    <3>2. QED
      BY <3>1 DEF Begun
  <2>2. CASE SendGroup
    <3> DEFINE x == Message("TASK", Task(image, sent), {})
    <3>1. x \in MessageType /\ inputQ \in Seq(MessageType) /\ (sent = 0 => IsBase(x)) /\ sent \in Nat
      BY <1>1, <2>2, MessageTyped, TaskTyped DEF SendGroup, TypeOK, IsBase, Message, Task, Groups
    <3> HIDE DEF x
    <3>2. inputQ' = Append(inputQ, x) /\ phase = "send" /\ image' = image
      BY <2>2 DEF SendGroup, x
    <3>3. HasBase(inputQ') <=> HasBase(inputQ) \/ IsBase(x)
      BY <3>1, <3>2, HasBaseIs
    <3>4. QED
      BY <3>1, <3>2, <3>3 DEF Begun
  <2>3. CASE SendAhead
    <3> DEFINE x == Message("TASK", Task(image, Feedback), {})
    <3>1. x \in MessageType /\ inputQ \in Seq(MessageType)
      BY <1>1, MessageTyped, TaskTyped DEF TypeOK
    <3> HIDE DEF x
    <3>2. inputQ' = Append(inputQ, x) /\ phase = "send" /\ sent > 0 /\ image' = image
      BY <2>3 DEF SendAhead, x
    <3>3. HasBase(inputQ') <=> HasBase(inputQ) \/ IsBase(x)
      BY <3>1, <3>2, HasBaseIs
    <3>4. QED
      BY <3>2, <3>3 DEF Begun
  <2>4. QED
    BY <1>1, <2>1, <2>2, <2>3 DEF ClientStep
<1>5. Painting' /\ Approximated'
  BY <1>1, <1>2, <1>4 DEF Painting, Approximated, Undecoded, BaseDue, Known, Base
<1>6. Snapshots'
  <2>1. CASE image' = image
    BY <1>1, <1>2, <2>1 DEF Snapshots, Base
  <2>2. CASE Clear(Line)
    <3>1. gpuQ = << >>
      BY <2>2, LinePlaces DEF Clear
    <3>2. QED
      BY <1>1, <3>1 DEF Snapshots
  <2>3. QED
    BY <1>3, <2>1, <2>2
<1>7. DecoderBase' /\ Loaded'
  <2>1. dpc = "decode" \/ gpc = "run" => image' = image
    BY <1>1, <1>3, DecoderTask, GpuTaskIs DEF DecoderAt, GpuAt
  <2>2. QED
    BY <1>1, <1>2, <2>1 DEF DecoderBase, Loaded, Base
<1>8. ContextLive' /\ BasePresent'
  BY <1>1, <1>2 DEF ContextLive, BasePresent, Known
<1>9. QED
  BY <1>5, <1>6, <1>7, <1>8 DEF Canvases

(* What a step of a thread does not change.                                 *)
LEMMA BegunSame ==
    ASSUME TypeOK, Stream, Results, DecoderStep \/ GpuStep \/ ReaperTake \/ Stopped
    PROVE  UNCHANGED << phase, image, sent >> /\ (Begun' => Begun)
<1>1. UNCHANGED << phase, image, sent >>
  BY ClientSame
<1>2. ASSUME Clear(Line) PROVE Clear(Line')
  <2>1. ASSUME NEW a \in Places, Taken(a) \/ \E b \in Places : Passed(a, b) PROVE FALSE
    BY <1>2, <2>1 DEF Taken, Passed, Clear
  <2>2. Line' = Line
    BY <2>1, LineStep
  <2>3. QED
    BY <1>2, <2>2
<1>3. QED
  BY <1>1, <1>2 DEF Begun

(* A base group the decoder takes is still to be decoded.                   *)
LEMMA CanvasesDecoderTake ==
    ASSUME SInv, DecoderTake, incremental' = incremental
    PROVE  Canvases'
<1>1. /\ TypeOK /\ Stream /\ Results /\ Canvases
      /\ UNCHANGED << phase, image, sent >> /\ (Begun' => Begun)
  <2>1. TypeOK /\ Stream /\ Results /\ Canvases
    BY DEF SInv, IInv, Replies
  <2>2. QED
    BY <2>1, BegunSame DEF DecoderStep
<1>2. /\ UNCHANGED << ctx, sessions, gpc, gtask, gctx >> /\ inputQ # << >> /\ dpc = "take"
      /\ inputQ' = Tail(inputQ) /\ inputQ \in Seq(MessageType) /\ gpuQ \in Seq(MessageType)
      /\ Head(inputQ) \in MessageType
  BY <1>1, QueueTyped DEF DecoderTake, TypeOK, gpu
<1>3. HasBase(inputQ) <=> HasBase(inputQ') \/ IsBase(Head(inputQ))
  BY <1>2, HasBaseIs
<1>4. Painting /\ Approximated /\ Snapshots /\ DecoderBase /\ Loaded /\ ContextLive /\ BasePresent
  BY <1>1 DEF Canvases
<1>5. /\ Undecoded' <=> Undecoded
      /\ BaseDue' <=> BaseDue
      /\ Snapshots' /\ dpc' \in {"open", "take", "stopped"}
  <2>1. CASE Head(inputQ).type = "TASK"
    <3>1. dtask' = Head(inputQ).task /\ dpc' = "open" /\ gpuQ' = gpuQ
      BY <2>1 DEF DecoderTake
    <3>2. QED
      BY <1>1, <1>2, <1>3, <1>4, <2>1, <3>1
      DEF Undecoded, BaseDue, Snapshots, IsBase, Base, DecoderAt
  <2>2. CASE Head(inputQ).type # "TASK"
    <3>1. gpuQ' = Append(gpuQ, Head(inputQ)) /\ dpc' \in {"take", "stopped"}
      BY <2>2 DEF DecoderTake
    <3>2. ~IsBase(Head(inputQ)) /\ (HasBase(gpuQ') <=> HasBase(gpuQ))
      BY <1>2, <2>2, <3>1, HasBaseIs DEF IsBase
    <3>3. \A i \in DOMAIN gpuQ' : \/ i \in DOMAIN gpuQ /\ gpuQ'[i] = gpuQ[i]
                                  \/ gpuQ'[i] = Head(inputQ)
      BY <1>2, <3>1, QueueAppend
    <3>4. Snapshots'
      BY <1>1, <1>4, <2>2, <3>3 DEF Snapshots, Base
    <3>5. QED
      BY <1>2, <1>3, <3>1, <3>2, <3>4 DEF Undecoded, BaseDue, DecoderAt
  <2>3. QED
    BY <2>1, <2>2
<1>6. Painting' /\ Approximated' /\ Loaded' /\ DecoderBase' /\ ContextLive' /\ BasePresent'
  BY <1>1, <1>2, <1>4, <1>5 DEF Painting, Approximated, Loaded, DecoderBase, ContextLive, BasePresent,
     Known, Base
<1>7. QED
  BY <1>5, <1>6 DEF Canvases

(* Looking into the dictionary changes nothing, and finds what is there.    *)
LEMMA CanvasesLookup ==
    ASSUME SInv, DecoderOpen \/ DecoderFind \/ GpuOpen \/ GpuFind, incremental' = incremental
    PROVE  Canvases'
<1>1. /\ TypeOK /\ Messages /\ Stream /\ Results /\ Canvases /\ Serving
      /\ UNCHANGED << phase, image, sent >> /\ (Begun' => Begun)
  <2>1. TypeOK /\ Messages /\ Stream /\ Results /\ Canvases /\ Serving
    BY DEF SInv, IInv, Replies
  <2>2. QED
    BY <2>1, BegunSame DEF DecoderStep, GpuStep
<1>2. UNCHANGED << inputQ, gpuQ, ctx, sessions, dtask, dcanvas, gtask, gcanvas >>
  BY DEF DecoderOpen, DecoderFind, GpuOpen, GpuFind, queues, decoder, gpu
<1>3. Painting /\ Approximated /\ Snapshots /\ DecoderBase /\ Loaded /\ ContextLive /\ BasePresent
  BY <1>1 DEF Canvases
<1>4. CASE DecoderOpen \/ DecoderFind
  <2>1. /\ UNCHANGED << gpc, gctx >> /\ dpc \in {"open", "find"}
        /\ \/ dpc' \in {"create", "find"}
           \/ dpc' \in {"read", "snapshot"} /\ Known(dtask.req) /\ dctx' = sessions[dtask.req]
        /\ dpc' = "snapshot" => dtask.gid = Feedback
    BY <1>1, <1>4 DEF DecoderOpen, DecoderFind, Serving, gpu
  <2>2. (Undecoded' <=> Undecoded) /\ (BaseDue' <=> BaseDue)
    BY <1>2, <2>1 DEF Undecoded, BaseDue, DecoderAt, Feedback
  <2>3. Loaded' /\ DecoderBase'
    BY <1>1, <1>2, <1>3, <2>1 DEF Loaded, DecoderBase, Base
  <2>4. ContextLive'
    BY <1>2, <1>3, <2>1 DEF ContextLive, Known
  <2>5. QED
    BY <1>1, <1>2, <1>3, <2>2, <2>3, <2>4 DEF Canvases, Painting, Approximated, Snapshots,
       BasePresent, Known, Base
<1>5. CASE GpuOpen \/ GpuFind
  <2>1. gpc \in {"open", "find"} /\ UNCHANGED << dpc, dctx >>
    BY <1>5 DEF GpuOpen, GpuFind, decoder
  <2>2. gtask.req = image /\ Begun /\ ~Undecoded
    BY <1>1, <2>1, GpuTaskIs DEF GpuAt
  <2>3. Known(gtask.req)
    BY <1>3, <2>2 DEF Painting
  <2>4. /\ gpc' \in {"find", "load"}
        /\ gpc' = "load" => gctx' = sessions[gtask.req]
    BY <1>5, <2>3 DEF GpuOpen, GpuFind
  <2>5. (Undecoded' <=> Undecoded) /\ (BaseDue' <=> BaseDue)
    BY <1>2, <2>1, <2>4 DEF Undecoded, BaseDue, GpuAt
  <2>6. Loaded' /\ DecoderBase'
    BY <1>1, <1>2, <1>3, <2>1, <2>4 DEF Loaded, DecoderBase, Base
  <2>7. ContextLive'
    BY <1>2, <1>3, <2>1, <2>3, <2>4 DEF ContextLive, Known
  <2>8. QED
    BY <1>1, <1>2, <1>3, <2>5, <2>6, <2>7 DEF Canvases, Painting, Approximated, Snapshots,
       BasePresent, Known, Base
<1>6. QED
  BY <1>4, <1>5

(* Only the decoder, and only for a base group, makes a context.            *)
LEMMA CanvasesDecoderCreate ==
    ASSUME SInv, DecoderCreate, incremental' = incremental
    PROVE  Canvases'
<1>1. /\ TypeOK /\ Messages /\ Stream /\ Results /\ Canvases /\ Serving
      /\ UNCHANGED << phase, image, sent >> /\ (Begun' => Begun)
  <2>1. TypeOK /\ Messages /\ Stream /\ Results /\ Canvases /\ Serving
    BY DEF SInv, IInv, Replies
  <2>2. QED
    BY <2>1, BegunSame DEF DecoderStep
<1>2. /\ dpc = "create" /\ dpc' = "find" /\ Create(dtask.req) /\ dtask.gid = 0
      /\ UNCHANGED << inputQ, gpuQ, dtask, dctx, dcanvas, gpc, gtask, gctx >>
  BY <1>1 DEF DecoderCreate, Serving, queues, gpu
<1>3. dtask.req = image /\ image \in RequestIds
  BY <1>1, <1>2, DecoderTask DEF DecoderAt
<1>4. Painting /\ Approximated /\ Snapshots /\ DecoderBase /\ Loaded /\ ContextLive /\ BasePresent
  BY <1>1 DEF Canvases
<1>5. Undecoded /\ Undecoded' /\ BaseDue'
  BY <1>2 DEF Undecoded, BaseDue, DecoderAt
<1>6. gpc \notin GpuAt
  BY <1>1, <1>5, GpuTaskIs
<1>7. gpc \notin {"load", "run"}
  BY <1>6 DEF GpuAt
<1>8. /\ DOMAIN sessions' = DOMAIN sessions \cup {image}
      /\ ctx'[sessions'[image]] = NewContext
      /\ \A p \in DOMAIN sessions : p # image => sessions'[p] = sessions[p]
      /\ \A d \in DOMAIN ctx : ctx'[d] = ctx[d]
  BY <1>1, <1>2, <1>3, Created
<1>9. Painting' /\ Approximated' /\ Loaded' /\ DecoderBase' /\ ContextLive'
  BY <1>2, <1>5, <1>7 DEF Painting, Approximated, Loaded, DecoderBase, ContextLive
<1>10. Snapshots'
  BY <1>1, <1>2, <1>4 DEF Snapshots, Base
<1>11. BasePresent'
  <2>1. \A q \in DOMAIN sessions : sessions[q] \in DOMAIN ctx
    BY <1>1 DEF TypeOK
  <2>2. ctx'[sessions'[image]].input = {}
    BY <1>8 DEF NewContext
  <2>3. \A q \in DOMAIN sessions : q # image => ctx'[sessions'[q]].input = ctx[sessions[q]].input
    BY <1>8, <2>1
  <2>4. QED
    BY <1>4, <1>8, <2>2, <2>3 DEF BasePresent
<1>12. QED
  BY <1>9, <1>10, <1>11 DEF Canvases

(* The decoder reads its canvas once the base group is in it.               *)
LEMMA CanvasesDecoderRead ==
    ASSUME SInv, DecoderRead, incremental' = incremental
    PROVE  Canvases'
<1>1. /\ TypeOK /\ Messages /\ Stream /\ Results /\ Canvases
      /\ UNCHANGED << phase, image, sent >> /\ (Begun' => Begun)
  <2>1. TypeOK /\ Messages /\ Stream /\ Results /\ Canvases
    BY DEF SInv, IInv, Replies
  <2>2. QED
    BY <2>1, BegunSame DEF DecoderStep
<1>2. /\ dpc = "read" /\ dpc' = "decode"
      /\ UNCHANGED << inputQ, gpuQ, sessions, dtask, dctx, gpc, gtask, gctx >>
  BY DEF DecoderRead, queues, gpu
<1>3. /\ dtask.image = image /\ dtask.req = image /\ image \in RequestIds /\ Begun
      /\ (dtask.gid # 0 => ~Undecoded)
  BY <1>1, <1>2, DecoderTask DEF DecoderAt
<1>4. Painting /\ Approximated /\ Snapshots /\ DecoderBase /\ Loaded /\ ContextLive /\ BasePresent
  BY <1>1 DEF Canvases
<1>5. Known(image) /\ sessions[image] = dctx /\ dctx \in DOMAIN ctx /\ ctx[dctx] \in ContextType
  BY <1>1, <1>2, <1>3, <1>4 DEF ContextLive, TypeOK
<1> DEFINE joined == IF incremental THEN ctx[dctx].patches
                     ELSE ctx[dctx].patches \cup {<< dtask.image, dtask.gid >>}
           new == [ctx[dctx] EXCEPT !.patches = joined]
<1>6. ctx' = [ctx EXCEPT ![dctx] = new] /\ dcanvas' = ctx[dctx].canvas
  BY DEF DecoderRead
<1>7. /\ new.canvas = ctx[dctx].canvas /\ new.patches = joined
      /\ new.input = ctx[dctx].input /\ new.approx = ctx[dctx].approx
  BY <1>5 DEF ContextType
<1> HIDE DEF new
<1>8. /\ ctx'[dctx] = new /\ \A d \in DOMAIN ctx : d # dctx => ctx'[d] = ctx[d]
  BY <1>1, <1>5, <1>6, ContextSet
<1>9. \A d \in DOMAIN ctx : /\ ctx'[d].canvas = ctx[d].canvas /\ ctx'[d].input = ctx[d].input
                            /\ ctx'[d].approx = ctx[d].approx
                            /\ ctx[d].patches \subseteq ctx'[d].patches
  BY <1>7, <1>8
<1>10. dtask.gid # 0 => /\ Base \in ctx[dctx].canvas
                        /\ ~incremental => Base \in ctx[dctx].patches
  BY <1>3, <1>4, <1>5 DEF Painting
<1>11. (Undecoded' <=> Undecoded) /\ (BaseDue' <=> BaseDue)
  BY <1>2 DEF Undecoded, BaseDue, DecoderAt
<1>12. Painting' /\ Approximated'
  BY <1>1, <1>2, <1>4, <1>5, <1>9, <1>11 DEF Painting, Approximated, Known, Base
<1>13. Snapshots'
  BY <1>1, <1>2, <1>4 DEF Snapshots, Base
<1>14. DecoderBase'
  <2>1. ~incremental => Base \in ctx'[dctx].patches
    BY <1>3, <1>7, <1>8, <1>10 DEF Base
  <2>2. QED
    BY <1>1, <1>2, <1>6, <1>10, <2>1 DEF DecoderBase, Base
<1>15. Loaded'
  <2>1. gpc = "run" => gctx \in DOMAIN ctx
    BY <1>1 DEF TypeOK
  <2>2. QED
    BY <1>1, <1>2, <1>4, <1>9, <2>1 DEF Loaded, Base
<1>16. ContextLive'
  BY <1>2, <1>4 DEF ContextLive, Known
<1>17. BasePresent'
  <2>1. \A q \in DOMAIN sessions : sessions[q] \in DOMAIN ctx
    BY <1>1 DEF TypeOK
  <2>2. QED
    BY <1>2, <1>4, <1>9, <2>1 DEF BasePresent
<1>18. QED
  BY <1>12, <1>13, <1>14, <1>15, <1>16, <1>17 DEF Canvases

(* Every canvas it writes shows the base group.                             *)
LEMMA CanvasesDecoderAssign ==
    ASSUME SInv, DecoderAssign, incremental' = incremental
    PROVE  Canvases'
<1>1. /\ TypeOK /\ Messages /\ Stream /\ Results /\ Canvases
      /\ UNCHANGED << phase, image, sent >> /\ (Begun' => Begun)
  <2>1. TypeOK /\ Messages /\ Stream /\ Results /\ Canvases
    BY DEF SInv, IInv, Replies
  <2>2. QED
    BY <2>1, BegunSame DEF DecoderStep
<1>2. /\ dpc = "decode" /\ dpc' = "snapshot"
      /\ UNCHANGED << inputQ, gpuQ, sessions, dtask, dctx, gpc, gtask, gctx >>
  BY DEF DecoderAssign, queues, gpu
<1>3. dtask.image = image /\ dtask.req = image /\ image \in RequestIds
  BY <1>1, <1>2, DecoderTask DEF DecoderAt
<1>4. Painting /\ Approximated /\ Snapshots /\ DecoderBase /\ Loaded /\ ContextLive /\ BasePresent
  BY <1>1 DEF Canvases
<1>5. Known(image) /\ sessions[image] = dctx /\ dctx \in DOMAIN ctx /\ ctx[dctx] \in ContextType
  BY <1>1, <1>2, <1>3, <1>4 DEF ContextLive, TypeOK
<1> DEFINE new == [ctx[dctx] EXCEPT !.canvas = Decoded(ctx[dctx])]
<1>6. ctx' = [ctx EXCEPT ![dctx] = new]
  BY DEF DecoderAssign
<1>7. /\ new.canvas = Decoded(ctx[dctx]) /\ new.patches = ctx[dctx].patches
      /\ new.input = ctx[dctx].input /\ new.approx = ctx[dctx].approx
  BY <1>5 DEF ContextType
<1> HIDE DEF new
<1>8. /\ ctx'[dctx] = new /\ \A d \in DOMAIN ctx : d # dctx => ctx'[d] = ctx[d]
  BY <1>5, <1>6
<1>9. \A d \in DOMAIN ctx : ctx'[d].input = ctx[d].input /\ ctx'[d].approx = ctx[d].approx
  BY <1>7, <1>8
<1>10. Base \in Decoded(ctx[dctx]) /\ (~incremental => Base \in ctx[dctx].patches)
  BY <1>2, <1>3, <1>4 DEF DecoderBase, Decoded, Base
<1>11. Painting'
  BY <1>1, <1>2, <1>5, <1>7, <1>8, <1>10 DEF Painting, Known, Base
<1>12. Approximated'
  <2>1. BaseDue' <=> BaseDue
    BY <1>2 DEF BaseDue, DecoderAt
  <2>2. QED
    BY <1>1, <1>2, <1>4, <1>5, <1>9, <2>1 DEF Approximated, Known
<1>13. Snapshots' /\ DecoderBase'
  BY <1>1, <1>2, <1>4 DEF Snapshots, DecoderBase, Base
<1>14. Loaded'
  <2>1. gpc = "run" => gctx \in DOMAIN ctx
    BY <1>1 DEF TypeOK
  <2>2. QED
    BY <1>1, <1>2, <1>4, <1>9, <2>1 DEF Loaded, Base
<1>15. ContextLive'
  BY <1>2, <1>4 DEF ContextLive, Known
<1>16. BasePresent'
  <2>1. \A q \in DOMAIN sessions : sessions[q] \in DOMAIN ctx
    BY <1>1 DEF TypeOK
  <2>2. QED
    BY <1>2, <1>4, <1>9, <2>1 DEF BasePresent
<1>17. QED
  BY <1>11, <1>12, <1>13, <1>14, <1>15, <1>16 DEF Canvases

(* And so does every snapshot it takes.                                     *)
LEMMA CanvasesDecoderSnapshot ==
    ASSUME SInv, DecoderSnapshot, incremental' = incremental
    PROVE  Canvases'
<1>1. /\ TypeOK /\ Messages /\ Stream /\ Results /\ Canvases
      /\ UNCHANGED << phase, image, sent >> /\ (Begun' => Begun)
  <2>1. TypeOK /\ Messages /\ Stream /\ Results /\ Canvases
    BY DEF SInv, IInv, Replies
  <2>2. QED
    BY <2>1, BegunSame DEF DecoderStep
<1> DEFINE x == Message("TASK", dtask, ctx[dctx].canvas)
<1>2. /\ dpc = "snapshot" /\ dpc' = "take" /\ gpuQ' = Append(gpuQ, x)
      /\ UNCHANGED << inputQ, ctx, sessions, dtask, gpc, gtask, gctx >>
  BY DEF DecoderSnapshot, gpu
<1>3. dtask.image = image /\ dtask.req = image /\ image \in RequestIds /\ Begun /\ ~Undecoded
  BY <1>1, <1>2, DecoderTask DEF DecoderAt
<1>4. Painting /\ Approximated /\ Snapshots /\ DecoderBase /\ Loaded /\ ContextLive /\ BasePresent
  BY <1>1 DEF Canvases
<1>5. Known(image) /\ sessions[image] = dctx /\ dctx \in DOMAIN ctx /\ ctx[dctx] \in ContextType
  BY <1>1, <1>2, <1>3, <1>4 DEF ContextLive, TypeOK
<1>6. /\ x \in MessageType /\ x.canvas = ctx[dctx].canvas /\ (IsBase(x) <=> dtask.gid = 0)
  <2>1. ctx[dctx].canvas \in SUBSET Pixels
    BY <1>5 DEF ContextType
  <2>2. QED
    BY <1>1, <2>1, MessageTyped DEF TypeOK, Message, IsBase
<1> HIDE DEF x
<1>7. Base \in x.canvas
  BY <1>3, <1>4, <1>5, <1>6 DEF Painting
<1>8. gpuQ \in Seq(MessageType)
  BY <1>1 DEF TypeOK
<1>9. (HasBase(gpuQ') <=> HasBase(gpuQ) \/ dtask.gid = 0)
  BY <1>2, <1>6, <1>8, HasBaseIs
<1>10. (Undecoded' <=> Undecoded) /\ (BaseDue' <=> BaseDue)
  BY <1>2, <1>9 DEF Undecoded, BaseDue, DecoderAt
<1>11. Snapshots'
  <2>1. \A i \in DOMAIN gpuQ' : (i \in DOMAIN gpuQ /\ gpuQ'[i] = gpuQ[i]) \/ gpuQ'[i] = x
    BY <1>2, <1>6, <1>8, QueueAppend
  <2>2. QED
    BY <1>1, <1>4, <1>7, <2>1 DEF Snapshots, Base
<1>12. Painting' /\ Approximated' /\ Loaded' /\ DecoderBase' /\ ContextLive' /\ BasePresent'
  BY <1>1, <1>2, <1>4, <1>10 DEF Painting, Approximated, Loaded, DecoderBase, ContextLive, BasePresent,
     Known, Base
<1>13. QED
  BY <1>11, <1>12 DEF Canvases

(* The task the GPU thread takes has a context, and a snapshot that shows   *)
(* the base group.                                                          *)
LEMMA TaskTaken ==
    ASSUME SInv, GpuTask
    PROVE  /\ gpc' = "update" /\ Head(gpuQ).task.req = image /\ Known(image) /\ executor
           /\ << Head(gpuQ).task.image, 0 >> \in Head(gpuQ).canvas
<1>1. /\ TypeOK /\ Messages /\ Stream /\ Results /\ Painting /\ Snapshots /\ Serving
  BY DEF SInv, IInv, Replies, Canvases
<1>2. gpc = "take" /\ gpuQ # << >> /\ Head(gpuQ).type = "TASK"
  BY DEF GpuTask
<1>3. /\ 1 \in DOMAIN gpuQ /\ Head(gpuQ) = gpuQ[1]
      /\ Head(gpuQ).task.image = image /\ Head(gpuQ).task.req = image /\ Begun /\ ~Undecoded
  BY <1>1, <1>2, GpuHead
<1>4. Known(image)
  BY <1>1, <1>3 DEF Painting
<1>5. executor
  BY <1>1, <1>4 DEF Serving, Known
<1>6. << Head(gpuQ).task.image, 0 >> \in Head(gpuQ).canvas
  BY <1>1, <1>2, <1>3 DEF Snapshots, Base
<1>7. QED
  BY <1>3, <1>4, <1>5, <1>6 DEF GpuTask

(* Taking a message changes no context; CONFIG comes before any task.       *)
LEMMA CanvasesGpuTake ==
    ASSUME SInv, GpuTakes, incremental' = incremental
    PROVE  Canvases'
<1> DEFINE msg == Head(gpuQ)
<1>1. /\ TypeOK /\ Messages /\ Stream /\ Results /\ Canvases
      /\ UNCHANGED << phase, image, sent >> /\ (Begun' => Begun)
  <2>1. TypeOK /\ Messages /\ Stream /\ Results /\ Canvases
    BY DEF SInv, IInv, Replies
  <2>2. QED
    BY <2>1, BegunSame DEF GpuStep, GpuTakes
<1>2. /\ gpc = "take" /\ gpuQ # << >> /\ gpuQ' = Tail(gpuQ)
      /\ UNCHANGED << inputQ, ctx, dpc, dtask, dctx, dcanvas, gctx >>
  BY DEF GpuTakes, GpuStop, GpuConfig, GpuTimeSync, GpuTask, decoder, gpu
<1>3. /\ msg \in OwnMessage /\ 1 \in DOMAIN gpuQ /\ msg = gpuQ[1]
      /\ msg.type \in {"CONFIG", "TIME_SYNC"} => phase = "sync"
      /\ msg.type = "STOP" => phase = "done"
  BY <1>1, <1>2, GpuHead
<1>4. Painting /\ Approximated /\ Snapshots /\ DecoderBase /\ Loaded /\ ContextLive /\ BasePresent
  BY <1>1 DEF Canvases
<1>5. gpuQ \in Seq(MessageType)
  BY <1>1 DEF TypeOK
<1>6. HasBase(gpuQ) <=> HasBase(gpuQ') \/ IsBase(msg)
  BY <1>2, <1>3, <1>5, HasBaseIs DEF OwnMessage
<1>7. Snapshots'
  <2>1. \A i \in DOMAIN gpuQ' : i + 1 \in DOMAIN gpuQ /\ gpuQ'[i] = gpuQ[i + 1]
    BY <1>2, <1>5, QueueTail
  <2>2. QED
    BY <1>1, <1>4, <2>1 DEF Snapshots, Base
<1>8. CASE GpuStop \/ GpuConfig \/ GpuTimeSync
  <2>1. /\ msg.type \in {"STOP", "CONFIG", "TIME_SYNC"}
        /\ gpc' \in {"take", "stopped"} /\ (sessions' = sessions \/ DOMAIN sessions' = {})
    <3>1. CASE GpuConfig
      <4>1. sessions' = << >> /\ gpc' = "take" /\ msg.type = "CONFIG"
        BY <3>1 DEF GpuConfig, gpu
      <4>2. QED
        BY <4>1
    <3>2. CASE GpuStop \/ GpuTimeSync
      BY <3>2 DEF GpuStop, GpuTimeSync, gpu
    <3>3. QED
      BY <1>8, <3>1, <3>2
  <2>2. ~Begun'
    BY <1>1, <1>3, <2>1 DEF Begun
  <2>3. dpc \notin DecoderAt
    BY <1>1, <1>3, <2>1, DecoderTask
  <2>4. Painting' /\ Approximated'
    BY <2>2 DEF Painting, Approximated
  <2>5. DecoderBase' /\ ContextLive' /\ Loaded'
    BY <1>2, <2>1, <2>3 DEF DecoderBase, ContextLive, Loaded, DecoderAt
  <2>6. BasePresent'
    BY <1>2, <1>4, <2>1 DEF BasePresent
  <2>7. QED
    BY <1>7, <2>4, <2>5, <2>6 DEF Canvases
<1>9. CASE GpuTask
  <2>1. sessions' = sessions /\ gtask' = msg.task /\ gpc' = "update" /\ msg.type = "TASK"
    BY <1>9, TaskTaken DEF GpuTask
  <2>2. (Undecoded' <=> Undecoded) /\ (BaseDue' <=> BaseDue)
    BY <1>2, <1>6, <2>1 DEF Undecoded, BaseDue, IsBase, GpuAt
  <2>3. QED
    BY <1>1, <1>2, <1>4, <1>7, <2>1, <2>2 DEF Canvases, Painting, Approximated, DecoderBase, Loaded,
       ContextLive, BasePresent, Known, Base
<1>10. QED
  BY <1>8, <1>9 DEF GpuTakes

(* The snapshot that replaces the canvas shows the base group.              *)
LEMMA CanvasesGpuUpdate ==
    ASSUME SInv, GpuUpdate, incremental' = incremental
    PROVE  Canvases'
<1>1. /\ TypeOK /\ Messages /\ Stream /\ Results /\ Canvases /\ Serving
      /\ UNCHANGED << phase, image, sent >> /\ (Begun' => Begun)
  <2>1. TypeOK /\ Messages /\ Stream /\ Results /\ Canvases /\ Serving
    BY DEF SInv, IInv, Replies
  <2>2. QED
    BY <2>1, BegunSame DEF GpuStep
<1>2. /\ gpc = "update"
      /\ UNCHANGED << inputQ, gpuQ, sessions, dpc, dtask, dctx, dcanvas, gtask, gctx >>
  BY DEF GpuUpdate, queues, decoder
<1>3. gtask.image = image /\ gtask.req = image /\ Begun /\ ~Undecoded
  BY <1>1, <1>2, GpuTaskIs DEF GpuAt
<1>4. Painting /\ Approximated /\ Snapshots /\ DecoderBase /\ Loaded /\ ContextLive /\ BasePresent
  BY <1>1 DEF Canvases
<1>5. Known(image) /\ Base \in gcanvas
  BY <1>1, <1>2, <1>3, <1>4 DEF Painting, Serving, Base
<1> DEFINE c == sessions[image]
           new == [ctx[c] EXCEPT !.canvas = gcanvas]
<1>6. c \in DOMAIN ctx /\ ctx[c] \in ContextType
  BY <1>1, <1>5, Found
<1>7. ctx' = [ctx EXCEPT ![c] = new] /\ gpc' = "open"
  BY <1>3, <1>5 DEF GpuUpdate
<1>8. /\ new.canvas = gcanvas /\ new.input = ctx[c].input /\ new.approx = ctx[c].approx
      /\ new.patches = ctx[c].patches
  BY <1>6 DEF ContextType
<1> HIDE DEF new
<1>9. /\ ctx'[c] = new /\ \A d \in DOMAIN ctx : d # c => ctx'[d] = ctx[d]
  BY <1>1, <1>6, <1>7, ContextSet
<1> HIDE DEF c
<1>10. \A d \in DOMAIN ctx : /\ ctx'[d].input = ctx[d].input /\ ctx'[d].approx = ctx[d].approx
                             /\ ctx'[d].patches = ctx[d].patches
  BY <1>8, <1>9
<1>11. (Undecoded' <=> Undecoded) /\ (BaseDue' <=> BaseDue)
  BY <1>2, <1>7 DEF Undecoded, BaseDue, GpuAt
<1>12. Painting'
  BY <1>1, <1>2, <1>4, <1>5, <1>6, <1>8, <1>9, <1>10, <1>11 DEF Painting, Known, Base, c
<1>13. Approximated'
  BY <1>1, <1>2, <1>4, <1>5, <1>6, <1>10, <1>11 DEF Approximated, Known, c
<1>14. Snapshots' /\ Loaded'
  BY <1>1, <1>2, <1>4, <1>7 DEF Snapshots, Loaded, Base
<1>15. DecoderBase'
  <2>1. dpc = "decode" => dctx \in DOMAIN ctx
    BY <1>1 DEF TypeOK
  <2>2. QED
    BY <1>1, <1>2, <1>4, <1>10, <2>1 DEF DecoderBase, Base
<1>16. ContextLive'
  BY <1>2, <1>4, <1>7 DEF ContextLive, Known
<1>17. BasePresent'
  <2>1. \A q \in DOMAIN sessions : sessions[q] \in DOMAIN ctx
    BY <1>1 DEF TypeOK
  <2>2. QED
    BY <1>2, <1>4, <1>10, <2>1 DEF BasePresent
<1>18. QED
  BY <1>12, <1>13, <1>14, <1>15, <1>16, <1>17 DEF Canvases

(* The canvas read a second time shows the base group all the same.         *)
LEMMA CanvasesGpuLoad ==
    ASSUME SInv, GpuLoad, incremental' = incremental
    PROVE  Canvases'
<1>1. /\ TypeOK /\ Messages /\ OneOwner /\ Stream /\ Results /\ Canvases
      /\ UNCHANGED << phase, image, sent >> /\ (Begun' => Begun)
  <2>1. TypeOK /\ Messages /\ OneOwner /\ Stream /\ Results /\ Canvases
    BY DEF SInv, IInv, Replies
  <2>2. QED
    BY <2>1, BegunSame DEF GpuStep
<1>2. /\ gpc = "load" /\ gpc' = "run"
      /\ UNCHANGED << inputQ, gpuQ, sessions, dpc, dtask, dctx, dcanvas, gtask, gctx >>
  BY DEF GpuLoad, queues, decoder
<1>3. gtask.image = image /\ gtask.req = image /\ image \in RequestIds /\ Begun /\ ~Undecoded
  BY <1>1, <1>2, GpuTaskIs DEF GpuAt
<1>4. Painting /\ Approximated /\ Snapshots /\ DecoderBase /\ Loaded /\ ContextLive /\ BasePresent
  BY <1>1 DEF Canvases
<1>5. Known(image) /\ sessions[image] = gctx /\ gctx \in DOMAIN ctx /\ ctx[gctx] \in ContextType
  BY <1>1, <1>2, <1>3, <1>4 DEF ContextLive, TypeOK
<1>6. Base \in ctx[gctx].canvas
  BY <1>3, <1>4, <1>5 DEF Painting
<1> DEFINE seen == IF gtask.gid = Feedback \/ ctx[gctx].canvas = {}
                   THEN ctx[gctx].input ELSE ctx[gctx].canvas
           new == [ctx[gctx] EXCEPT !.input = seen]
<1>7. ctx' = [ctx EXCEPT ![gctx] = new]
  BY DEF GpuLoad
<1>8. /\ new.canvas = ctx[gctx].canvas /\ new.patches = ctx[gctx].patches
      /\ new.approx = ctx[gctx].approx /\ new.input = seen
  BY <1>5 DEF ContextType
<1>9. (gtask.gid # Feedback => Base \in seen) /\ (seen = ctx[gctx].input \/ Base \in seen)
  BY <1>6
<1> HIDE DEF new, seen
<1>10. /\ ctx'[gctx] = new /\ \A d \in DOMAIN ctx : d # gctx => ctx'[d] = ctx[d]
  BY <1>1, <1>5, <1>7, ContextSet
<1>11. \A d \in DOMAIN ctx : /\ ctx'[d].canvas = ctx[d].canvas /\ ctx'[d].patches = ctx[d].patches
                             /\ ctx'[d].approx = ctx[d].approx
  BY <1>8, <1>10
<1>12. (Undecoded' <=> Undecoded) /\ (BaseDue' <=> BaseDue)
  BY <1>2 DEF Undecoded, BaseDue, GpuAt
<1>13. Painting' /\ Approximated'
  BY <1>1, <1>2, <1>4, <1>5, <1>11, <1>12 DEF Painting, Approximated, Known, Base
<1>14. Snapshots'
  BY <1>1, <1>2, <1>4 DEF Snapshots, Base
<1>15. DecoderBase'
  <2>1. dpc = "decode" => dctx \in DOMAIN ctx
    BY <1>1 DEF TypeOK
  <2>2. QED
    BY <1>1, <1>2, <1>4, <1>11, <2>1 DEF DecoderBase, Base
<1>16. Loaded'
  BY <1>1, <1>2, <1>8, <1>9, <1>10 DEF Loaded, Base
<1>17. ContextLive'
  BY <1>2, <1>4 DEF ContextLive, Known
<1>18. BasePresent'
  <2>1. \A q \in DOMAIN sessions : q # image => sessions[q] # gctx
    <3>1. DOMAIN sessions \subseteq RequestIds
      BY <1>1 DEF TypeOK
    <3>2. \A q \in DOMAIN sessions : Holds(q, sessions[q])
      BY DEF Holds
    <3>3. QED
      BY <1>1, <1>3, <1>5, <3>1, <3>2 DEF OneOwner, Known
  <2>2. \A q \in DOMAIN sessions : sessions[q] \in DOMAIN ctx
    BY <1>1 DEF TypeOK
  <2>3. \A q \in DOMAIN sessions : q # image => ctx'[sessions'[q]].input = ctx[sessions[q]].input
    BY <1>2, <1>10, <2>1, <2>2
  <2>4. ctx'[sessions'[image]].input = ctx[sessions[image]].input \/ Base \in ctx'[sessions'[image]].input
    BY <1>2, <1>5, <1>8, <1>9, <1>10
  <2>5. QED
    BY <1>2, <1>4, <1>5, <2>3, <2>4 DEF BasePresent, Known, Base
<1>19. QED
  BY <1>13, <1>14, <1>15, <1>16, <1>17, <1>18 DEF Canvases

(* The base group leaves the approximation that later groups correct.       *)
LEMMA CanvasesGpuRun ==
    ASSUME SInv, GpuRun, incremental' = incremental
    PROVE  Canvases'
<1>1. /\ TypeOK /\ Messages /\ Stream /\ Results /\ Canvases
      /\ UNCHANGED << phase, image, sent >> /\ (Begun' => Begun)
  <2>1. TypeOK /\ Messages /\ Stream /\ Results /\ Canvases
    BY DEF SInv, IInv, Replies
  <2>2. QED
    BY <2>1, BegunSame DEF GpuStep
<1>2. /\ gpc = "run" /\ gpc' = "take"
      /\ UNCHANGED << inputQ, gpuQ, dpc, dtask, dctx, dcanvas, gtask, gctx >>
  BY DEF GpuRun, decoder
<1>3. Begun /\ (gtask.gid # 0 => ~BaseDue)
  BY <1>1, <1>2, GpuTaskIs DEF GpuAt
<1>4. Painting /\ Approximated /\ Snapshots /\ DecoderBase /\ Loaded /\ ContextLive /\ BasePresent
  BY <1>1 DEF Canvases
<1>5. /\ ~Raised /\ Known(image) /\ sessions[image] = gctx /\ gctx \in DOMAIN ctx
      /\ gtask.gid # Feedback => Base \in ctx[gctx].input
  BY <1>2, TaskServed
<1> DEFINE done == IF gtask.gid = LastGroup THEN ctx[gctx].input ELSE ctx[gctx].preds
           new == [ctx[gctx] EXCEPT !.approx = ctx[gctx].approx \/ ctx[gctx].input # {},
                                    !.preds = done]
<1>6. ctx[gctx] \in ContextType
  BY <1>1, <1>5 DEF TypeOK
<1>7. ctx' = [ctx EXCEPT ![gctx] = new] /\ sessions' = sessions
  BY <1>5, <1>6 DEF GpuRun, ContextType
<1>8. /\ new.canvas = ctx[gctx].canvas /\ new.patches = ctx[gctx].patches
      /\ new.input = ctx[gctx].input
      /\ ctx[gctx].approx \/ ctx[gctx].input # {} => new.approx
  BY <1>6 DEF ContextType
<1> HIDE DEF new
<1>9. ctx'[gctx] = new /\ \A d \in DOMAIN ctx : d # gctx => ctx'[d] = ctx[d]
  BY <1>5, <1>7
<1>10. \A d \in DOMAIN ctx : /\ ctx'[d].canvas = ctx[d].canvas /\ ctx'[d].patches = ctx[d].patches
                             /\ ctx'[d].input = ctx[d].input
  BY <1>8, <1>9
<1>11. Undecoded' <=> Undecoded
  BY <1>2 DEF Undecoded
<1>12. Painting'
  BY <1>1, <1>4, <1>5, <1>7, <1>10, <1>11 DEF Painting, Known, Base
<1>13. Approximated'
  <2>1. ctx[gctx].approx \/ ctx[gctx].input # {}
    <3>1. CASE gtask.gid = 0
      BY <1>5, <3>1 DEF Feedback
    <3>2. CASE gtask.gid # 0
      BY <1>3, <1>4, <1>5, <3>2 DEF Approximated
    <3>3. QED
      BY <3>1, <3>2
  <2>2. QED
    BY <1>1, <1>5, <1>7, <1>8, <1>9, <2>1 DEF Approximated, Known
<1>14. Snapshots' /\ Loaded'
  BY <1>1, <1>2, <1>4 DEF Snapshots, Loaded, Base
<1>15. DecoderBase'
  <2>1. dpc = "decode" => dctx \in DOMAIN ctx
    BY <1>1 DEF TypeOK
  <2>2. QED
    BY <1>1, <1>2, <1>4, <1>10, <2>1 DEF DecoderBase, Base
<1>16. ContextLive'
  BY <1>2, <1>4, <1>7 DEF ContextLive, Known
<1>17. BasePresent'
  <2>1. \A q \in DOMAIN sessions : sessions[q] \in DOMAIN ctx
    BY <1>1 DEF TypeOK
  <2>2. QED
    BY <1>4, <1>7, <1>10, <2>1 DEF BasePresent
<1>18. QED
  BY <1>12, <1>13, <1>14, <1>15, <1>16, <1>17 DEF Canvases

(* No session is freed while tasks of its image are on the way.             *)
LEMMA CanvasesReaper ==
    ASSUME SInv, ReaperTake, incremental' = incremental
    PROVE  Canvases' /\ Serving'
<1> DEFINE job == Head(monitorQ)
<1>1. /\ TypeOK /\ Messages /\ Stream /\ Results /\ Freed /\ Canvases
      /\ UNCHANGED << phase, image, sent >> /\ (Begun' => Begun)
  <2>1. TypeOK /\ Messages /\ Stream /\ Results /\ Freed /\ Canvases
    BY DEF SInv, IInv, Replies
  <2>2. QED
    BY <2>1, BegunSame
<1>2. UNCHANGED << inputQ, gpuQ, ctx, dpc, dtask, dctx, dcanvas, gpc, gtask, gctx >>
  BY DEF ReaperTake, decoder, gpu
<1>3. Painting /\ Approximated /\ Snapshots /\ DecoderBase /\ Loaded /\ ContextLive /\ BasePresent
  BY <1>1 DEF Canvases
<1>4. 1 \in DOMAIN monitorQ /\ job = monitorQ[1]
  BY <1>1 DEF TypeOK, ReaperTake
<1>5. sessions' = sessions \/ (job.op = "FREE_SESSION" /\ sessions' = Without(job.req))
  BY DEF ReaperTake
<1> HIDE DEF job
<1>6. DOMAIN sessions' \subseteq DOMAIN sessions /\ \A q \in DOMAIN sessions' : sessions'[q] = sessions[q]
  BY <1>5 DEF Without
<1>7. Begun => (Known(image) => Known(image)')
  <2>1. CASE sessions' = sessions
    BY <1>1, <2>1 DEF Known
  <2>2. CASE job.op = "FREE_SESSION" /\ sessions' = Without(job.req)
    <3>1. Begun => job.req # image
      <4>1. image \in Int
        BY <1>1 DEF TypeOK
      <4>2. QED
        BY <1>1, <1>4, <2>2, <4>1 DEF Freed, Begun
    <3>2. QED
      BY <1>1, <2>2, <3>1 DEF Known, Without
  <2>3. QED
    BY <1>5, <2>1, <2>2
<1>8. Painting' /\ Approximated'
  BY <1>1, <1>2, <1>3, <1>6, <1>7 DEF Painting, Approximated, Undecoded, BaseDue, Known, Base
<1>9. Snapshots' /\ DecoderBase' /\ Loaded'
  BY <1>1, <1>2, <1>3 DEF Snapshots, DecoderBase, Loaded, Base
<1>10. ContextLive'
  <2>1. dpc \in {"read", "decode", "snapshot"} => dtask.req = image /\ Begun
    BY <1>1, DecoderTask DEF DecoderAt
  <2>2. gpc \in {"load", "run"} => gtask.req = image /\ Begun
    BY <1>1, GpuTaskIs DEF GpuAt
  <2>3. QED
    BY <1>1, <1>2, <1>3, <1>6, <1>7, <2>1, <2>2 DEF ContextLive, Known
<1>11. BasePresent'
  BY <1>2, <1>3, <1>6 DEF BasePresent
<1>12. Serving'
  <2>1. Serving /\ UNCHANGED << ready, executor, gcanvas >>
    BY DEF SInv, ReaperTake, flags, gpu
  <2>2. dpc = "find" => Known(dtask.req)'
    <3>1. dpc = "find" => dtask.req = image /\ Begun
      BY <1>1, DecoderTask DEF DecoderAt
    <3>2. QED
      BY <1>2, <1>1, <1>7, <2>1, <3>1 DEF Serving, Known
  <2>3. QED
    BY <1>2, <1>6, <2>1, <2>2 DEF Serving
<1>13. QED
  BY <1>8, <1>9, <1>10, <1>11, <1>12 DEF Canvases

-----------------------------------------------------------------------------
(* The look-ups, step by step.                                              *)
LEMMA ServingDecoder ==
    ASSUME SInv, DecoderStep
    PROVE  Serving'
<1>1. TypeOK /\ Messages /\ Stream /\ Results /\ Painting /\ Serving
  BY DEF SInv, IInv, Replies, Canvases
<1>2. UNCHANGED << ready, executor, gpc, gtask, gcanvas >>
  BY DEF DecoderStep, DecoderTake, DecoderOpen, DecoderCreate, DecoderFind, DecoderRead,
         DecoderAssign, DecoderSnapshot, flags, gpu
<1>3. CASE DecoderTake
  <2>1. sessions' = sessions /\ dpc' \in {"open", "take", "stopped"}
    BY <1>3 DEF DecoderTake
  <2>2. QED
    BY <1>1, <1>2, <2>1 DEF Serving, DecoderAt
<1>4. CASE DecoderOpen
  <2>1. UNCHANGED << sessions, dtask >> /\ ready /\ dpc = "open"
        /\ dpc' = IF Known(dtask.req) THEN "find" ELSE "create"
    BY <1>4 DEF DecoderOpen
  <2>2. ~Known(dtask.req) => dtask.gid = 0
    BY <1>1, <2>1, DecoderTask DEF DecoderAt, Painting
  <2>3. QED
    BY <1>1, <1>2, <2>1, <2>2 DEF Serving, DecoderAt, Known
<1>5. CASE DecoderCreate
  <2>1. dpc = "create" /\ dpc' = "find" /\ dtask' = dtask /\ Create(dtask.req)
    BY <1>5 DEF DecoderCreate
  <2>2. Known(dtask.req)'
    BY <2>1 DEF Create, Known
  <2>3. QED
    BY <1>1, <1>2, <2>1, <2>2 DEF Serving, DecoderAt
<1>6. CASE DecoderFind \/ DecoderRead \/ DecoderAssign \/ DecoderSnapshot
  <2>1. UNCHANGED << sessions, dtask >> /\ dpc \in DecoderAt \ {"open"}
        /\ dpc' \in {"read", "decode", "snapshot", "take"}
    BY <1>6 DEF DecoderFind, DecoderRead, DecoderAssign, DecoderSnapshot, DecoderAt
  <2>2. QED
    BY <1>1, <1>2, <2>1 DEF Serving, DecoderAt
<1>7. QED
  BY <1>3, <1>4, <1>5, <1>6 DEF DecoderStep

LEMMA ServingGpu ==
    ASSUME FALSE \notin Loads, SInv, GpuStep
    PROVE  Serving'
<1>1. TypeOK /\ Messages /\ Stream /\ Results /\ Painting /\ Serving
  BY DEF SInv, IInv, Replies, Canvases
<1>2. UNCHANGED << dpc, dtask >>
  BY DEF GpuStep, GpuStop, GpuConfig, GpuTimeSync, GpuTask, GpuCreate, GpuUpdate, GpuOpen,
         GpuFind, GpuLoad, GpuRun, decoder
<1>3. CASE GpuConfig
  <2>1. gpc = "take" /\ gpuQ # << >> /\ Head(gpuQ).type = "CONFIG" /\ sessions' = << >>
        /\ UNCHANGED << gpc, gtask, gcanvas >>
    BY <1>3 DEF GpuConfig, gpu
  <2>2. ready' = TRUE /\ executor' = TRUE
    BY <1>3, WorkerAssumption DEF GpuConfig, Announced
  <2>3. dpc \notin DecoderAt
    BY <1>1, <2>1, GpuHead, DecoderTask
  <2>4. dpc \notin {"create", "find"}
    BY <2>3 DEF DecoderAt
  <2>5. QED
    BY <1>1, <1>2, <2>1, <2>2, <2>4 DEF Serving
<1>4. CASE GpuTask
  <2>1. gpc' = "update" /\ << Head(gpuQ).task.image, 0 >> \in Head(gpuQ).canvas
    BY <1>4, TaskTaken
  <2>2. gtask' = Head(gpuQ).task /\ gcanvas' = Head(gpuQ).canvas
        /\ UNCHANGED << sessions, ready, executor >>
    BY <1>4 DEF GpuTask, flags
  <2>3. QED
    BY <1>1, <1>2, <2>1, <2>2 DEF Serving, Known
<1>5. CASE GpuOpen
  <2>1. gtask.req = image /\ Begun /\ ~Undecoded
    BY <1>1, <1>5, GpuTaskIs DEF GpuOpen, GpuAt
  <2>2. Known(gtask.req)
    BY <1>1, <2>1 DEF Painting
  <2>3. gpc' = "find" /\ UNCHANGED << sessions, ready, executor >>
    BY <1>5, <2>2 DEF GpuOpen, flags
  <2>4. QED
    BY <1>1, <1>2, <2>3 DEF Serving, Known
<1>6. CASE GpuStop \/ GpuTimeSync \/ GpuUpdate \/ GpuFind \/ GpuLoad
  <2>1. UNCHANGED << sessions, ready, executor >> /\ gpc' \in {"stopped", "take", "open", "load", "run"}
    BY <1>6 DEF GpuStop, GpuTimeSync, GpuUpdate, GpuFind, GpuLoad, flags, gpu
  <2>2. QED
    BY <1>1, <1>2, <2>1 DEF Serving, Known
<1>7. CASE GpuRun
  <2>1. UNCHANGED << sessions, ready, executor >> /\ gpc' = "take"
    BY <1>7, TaskServed DEF GpuRun, flags
  <2>2. QED
    BY <1>1, <1>2, <2>1 DEF Serving, Known
<1>8. CASE GpuCreate
  BY <1>1, <1>8 DEF GpuCreate, Serving
<1>9. QED
  BY <1>3, <1>4, <1>5, <1>6, <1>7, <1>8 DEF GpuStep

-----------------------------------------------------------------------------
(* The three together.                                                      *)
LEMMA SInvInit ==
    ASSUME Resend = FALSE, Init
    PROVE  SInv
<1>1. IInv
  BY IInvInit
<1>2. Clear(Line)
  <2>1. Running = << >> /\ Decoding = << >> /\ inputQ = << >> /\ gpuQ = << >>
    BY DEF Init, Running, Decoding, GpuAt, DecoderAt
  <2>2. QED
    BY <2>1, LinePlaces DEF Clear, Places
<1>3. Stream
  <2>1. Orderly(Line, MessageType)
    BY <1>1, <1>2, ClearOrderly DEF IInv
  <2>2. Flow
    BY <1>2 DEF Flow, Clear
  <2>3. Start
    BY <1>2 DEF Start, Init
  <2>4. QED
    BY <2>1, <2>2, <2>3 DEF Stream, Orderly
<1>4. Replies
  <2>1. monitorQ = << >> /\ outputQ = << >> /\ answers = << >> /\ sessions = << >>
        /\ rpc = "take" /\ gpc = "take" /\ phase = "config" /\ image = 1
    BY DEF Init
  <2>2. DOMAIN monitorQ = {} /\ DOMAIN answers = {} /\ DOMAIN sessions = {} /\ Len(answers) = 0
    BY <2>1
  <2>3. QED
    BY <2>1, <2>2 DEF Replies, Responses, Results, Answered, Freed, Ends
<1>5. Canvases
  <2>1. dpc = "take" /\ gpc = "take" /\ phase = "config" /\ sessions = << >> /\ gpuQ = << >>
    BY DEF Init
  <2>2. DOMAIN sessions = {} /\ DOMAIN gpuQ = {}
    BY <2>1
  <2>3. ~Begun
    BY <2>1 DEF Begun
  <2>4. QED
    BY <2>1, <2>2, <2>3 DEF Canvases, Painting, Approximated, Snapshots, DecoderBase, Loaded,
       ContextLive, BasePresent
<1>6. Serving
  <2>1. executor = FALSE /\ ready = FALSE /\ sessions = << >> /\ dpc = "take" /\ gpc = "take"
    BY DEF Init
  <2>2. DOMAIN sessions = {}
    BY <2>1
  <2>3. QED
    BY <2>1, <2>2 DEF Serving, DecoderAt
<1>7. QED
  BY <1>1, <1>3, <1>4, <1>5, <1>6 DEF SInv

(* A step that changes nothing.                                             *)
LEMMA SInvSame ==
    ASSUME SInv, UNCHANGED vars
    PROVE  Stream' /\ Replies' /\ Canvases' /\ Serving'
<1>1. UNCHANGED << inputQ, gpuQ, monitorQ, outputQ, sessions, ctx, incremental, dpc, dtask, dctx,
                   dcanvas, gpc, gtask, gcanvas, gctx, rpc, phase, image, sent, answers,
                   ready, executor >>
  BY DEF vars, queues, flags, decoder, gpu, client
<1>2. Line' = Line
  BY <1>1 DEF Line, Running, Decoding
<1>3. Stream /\ Replies /\ Canvases /\ Serving
  BY DEF SInv
<1>4. Stream'
  BY <1>1, <1>2, <1>3 DEF Stream, Flow, Start, Proper
<1>5. Replies'
  BY <1>1, <1>2, <1>3 DEF Replies, Responses, Results, Answered, Freed, Freeing, Ends, Known
<1>6. Canvases'
  <2>1. (Begun' <=> Begun) /\ (Undecoded' <=> Undecoded) /\ (BaseDue' <=> BaseDue)
    BY <1>1, <1>2 DEF Begun, Undecoded, BaseDue
  <2>2. QED
    BY <1>1, <1>3, <2>1 DEF Canvases, Painting, Approximated, Snapshots, DecoderBase, Loaded,
       ContextLive, BasePresent, Base, Known
<1>7. Serving'
  BY <1>1, <1>3 DEF Serving, Known
<1>8. QED
  BY <1>4, <1>5, <1>6, <1>7

(* Every step keeps the invariant.                                          *)
LEMMA SInvNext ==
    ASSUME Resend = FALSE, FALSE \notin Loads, SInv, [Next]_vars
    PROVE  SInv'
<1>1. IInv'
  BY IInvNext DEF SInv
<1>2. TypeOK /\ Messages /\ Stream /\ Replies /\ Results
  BY DEF SInv, IInv, Replies
<1>3. CASE ClientStep /\ incremental' = incremental
  <2>1. UNCHANGED << sessions, dpc, dtask, gpc, gtask, gcanvas, ready, executor >>
    BY <1>2, <1>3, NoSecondTry DEF ClientStep, SendConfig, ReceiveTimeSync, SendGroup, SendAhead,
       ReceiveResult, flags, decoder, gpu
  <2>2. Serving'
    BY <2>1 DEF SInv, Serving, Known
  <2>3. QED
    BY <1>1, <1>2, <1>3, <2>2, StreamClient, RepliesClient, CanvasesClient DEF SInv
<1>4. CASE DecoderStep /\ incremental' = incremental
  <2>1. Canvases'
    BY <1>4, CanvasesDecoderTake, CanvasesLookup, CanvasesDecoderCreate, CanvasesDecoderRead,
       CanvasesDecoderAssign, CanvasesDecoderSnapshot
    DEF DecoderStep
  <2>2. QED
    BY <1>1, <1>2, <1>4, <2>1, StreamWorker, RepliesDecoder, ServingDecoder DEF SInv
<1>5. CASE GpuStep /\ incremental' = incremental
  <2>1. Canvases'
    <3>1. ~GpuCreate
      BY DEF SInv, Serving, GpuCreate
    <3>2. QED
      BY <1>5, <3>1, CanvasesGpuTake, CanvasesGpuUpdate, CanvasesLookup, CanvasesGpuLoad, CanvasesGpuRun
      DEF GpuStep, GpuTakes
  <2>2. Replies'
    BY <1>2, <1>5, RepliesGpuTake, RepliesGpuWithin, RepliesGpuRun DEF GpuStep, GpuTakes
  <2>3. QED
    BY <1>1, <1>2, <1>5, <2>1, <2>2, StreamWorker, ServingGpu DEF SInv
<1>6. CASE ReaperTake /\ incremental' = incremental
  BY <1>1, <1>2, <1>6, StreamWorker, RepliesReaper, CanvasesReaper DEF SInv
<1>7. CASE UNCHANGED vars
  BY <1>1, <1>7, SInvSame DEF SInv
<1>8. QED
  BY <1>3, <1>4, <1>5, <1>6, <1>7 DEF Next, Stopped

(* With one CONFIG per run, at which the model is loaded, SInv holds in     *)
(* every state (worker.py:146-230, 243-300, 326-356).                       *)
THEOREM WorkerServed ==
    ASSUME Resend = FALSE, FALSE \notin Loads
    PROVE  Spec => []SInv
<1>1. Init => SInv
  BY SInvInit
<1>2. SInv /\ [Next]_vars => SInv'
  BY SInvNext
<1>3. QED
  BY <1>1, <1>2, PTL DEF Spec

(* The model is never run on an input without the image's base group,       *)
(* however the decoder's writes to input_hr_np fall between the GPU         *)
(* thread's snapshot and its LOAD_INPUT.                                    *)
THEOREM WorkerBasePresent ==
    ASSUME Resend = FALSE, FALSE \notin Loads
    PROVE  Spec => []BasePresent
<1>1. SInv => BasePresent
  BY DEF SInv, Canvases
<1>2. QED
  BY <1>1, WorkerServed, PTL

(* A thread inside a task works on the context the dictionary has: neither  *)
(* CONFIG nor FREE_SESSION nor a failed task of another thread takes it.    *)
THEOREM WorkerContextLive ==
    ASSUME Resend = FALSE, FALSE \notin Loads
    PROVE  Spec => []ContextLive
<1>1. SInv => ContextLive
  BY DEF SInv, Canvases
<1>2. QED
  BY <1>1, WorkerServed, PTL

(* No task raises for want of an approximation, and the reaper finds the    *)
(* session of every response it has to send.                                *)
THEOREM WorkerTasksServed ==
    ASSUME Resend = FALSE, FALSE \notin Loads
    PROVE  Spec => []TasksServed
<1>1. SInv => TasksServed
  <2>1. ASSUME SInv PROVE Responses
    BY <2>1 DEF SInv, Replies
  <2>2. QED
    BY <2>1, TaskServed DEF TasksServed, Responses
<1>2. QED
  BY <1>1, WorkerServed, PTL

(* The i-th answer is a prediction of the i-th image, and not of nothing.   *)
THEOREM WorkerAnswerOwnImage ==
    ASSUME Resend = FALSE, FALSE \notin Loads
    PROVE  Spec => []AnswerOwnImage
<1>1. SInv => AnswerOwnImage
  BY DEF SInv, Replies, Answered, AnswersMatched, AnswerOwnImage
<1>2. QED
  BY <1>1, WorkerServed, PTL

(* Once the three threads have stopped, the sessions dictionary is empty.   *)
THEOREM WorkerNothingLeaked ==
    ASSUME Resend = FALSE, FALSE \notin Loads
    PROVE  Spec => []NothingLeaked
<1>1. SInv => NothingLeaked
  <2> SUFFICES ASSUME SInv, gpc = "stopped", rpc = "stopped" PROVE sessions = << >>
    BY DEF NothingLeaked
  <2>1. monitorQ = << >> /\ phase = "done"
    BY DEF SInv, Replies, Ends
  <2>2. DOMAIN sessions = {}
    BY <2>1 DEF SInv, Replies, Freed, Freeing
  <2>3. sessions \in [{} -> DOMAIN ctx]
    BY <2>2 DEF SInv, IInv, TypeOK
  <2>4. QED
    BY <2>2, <2>3
<1>2. QED
  BY <1>1, WorkerServed, PTL
=============================================================================
