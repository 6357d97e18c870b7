------------------------------ MODULE Pipeline ------------------------------
(***************************************************************************)
(* One experiment through the whole server: the client's SourceModule      *)
(* (offload/mobile/source.py), the scheduler process, and the worker       *)
(* process as its GPU thread and its reaper thread see it                  *)
(* (offload/server/worker.py).  The sockets are FIFO and reliable here;    *)
(* the decoder thread, the canvas and reconfiguration are in Worker.       *)
(*                                                                         *)
(* The client has one request in flight.  Request r has the residual       *)
(* groups 1..GroupsOf[r] after its base group 0, and group g has           *)
(* GroupSize[g] patches.  The configuration is chosen in the initial state *)
(* and stays; what it is made of is in SchedulingPolicies.                 *)
(***************************************************************************)
EXTENDS Scheduler, Executor

GroupsOf == config.groupsOf     \* residual groups of each request (a sequence)
GroupSize == config.groupSize   \* patches of each group
Ungrouped == config.ungrouped   \* the encoder leaves group_id at 0 (Laplacian)

MaxRequests == Len(GroupsOf)
Requests == 1..MaxRequests

ASSUME PipelineAssumption ==
    \A c \in Configs :
        /\ c.groupsOf \in Seq(Nat) /\ c.groupsOf # << >>
        /\ DOMAIN c.groupSize \subseteq Nat
        /\ \A r \in DOMAIN c.groupsOf : 0..c.groupsOf[r] \subseteq DOMAIN c.groupSize
        /\ \A g \in DOMAIN c.groupSize : c.groupSize[g] \in Nat
        /\ c.ungrouped \in BOOLEAN

VARIABLES
    sessions,     \* self.sessions: request id -> executor state
    task,         \* the task the GPU thread executes, NoTask when idle
    monitorQ,     \* monitor_queue: the launched instructions
    resultQ,      \* result_queue to the client: TIME_SYNC answers and results
    phase,        \* where SourceModule.run is
    request,      \* the request it is at
    todo          \* patches of this request it has still to send

workerVars == << sessions, task, monitorQ >>
clientVars == << phase, request, todo >>
vars == << schedulerVars, workerVars, resultQ, clientVars, config >>

(* The patches of a group and, group after group, of a request.  req is not *)
(* in the program's Patch: it records which request it was sent for.        *)
Group(r, g) ==
    [i \in 1..GroupSize[g] |-> [req |-> r, gid |-> IF Ungrouped THEN 0 ELSE g,
                               total |-> GroupSize[g], n |-> GroupsOf[r]]]
UpTo(r) ==
    LET upTo[g \in 0..GroupsOf[r]] ==
            IF g = 0 THEN Group(r, 0) ELSE upTo[g - 1] \o Group(r, g)
    IN  upTo
Patches(r) == UpTo(r)[GroupsOf[r]]

Init ==
    /\ SchedulerInit
    /\ sessions = << >>
    /\ task = NoTask
    /\ monitorQ = << >> /\ resultQ = << >>
    /\ phase = "config" /\ request = 1 /\ todo = << >>

-----------------------------------------------------------------------------
(* The client: CONFIG, one TIME_SYNC round trip, then request by request.   *)
SendConfig ==
    /\ phase = "config"
    /\ controlQ' = controlQ \o << "CONFIG", "TIME_SYNC" >>
    /\ phase' = "sync"
    /\ UNCHANGED << schedQ, feedbackQ, workerQ, buffer, policy, events, taskId, pc,
                    workerVars, resultQ, request, todo >>

ReceiveTimeSync ==
    /\ phase = "sync"
    /\ resultQ # << >>
    /\ resultQ' = Tail(resultQ)
    /\ phase' = "send" /\ todo' = Patches(request)
    /\ UNCHANGED << schedulerVars, workerVars, request >>

SendPatch ==
    /\ phase = "send" /\ todo # << >>
    /\ schedQ' = Append(schedQ, Head(todo))
    /\ todo' = Tail(todo)
    /\ phase' = IF Len(todo) = 1 THEN "wait" ELSE "send"
    /\ UNCHANGED << controlQ, feedbackQ, workerQ, buffer, policy, events, taskId, pc,
                    workerVars, resultQ, request >>

(* The wait is for whatever the downlink brings next.  After the last       *)
(* result the client stops, and so does the server.                         *)
ReceiveResult ==
    /\ phase = "wait" /\ resultQ # << >>
    /\ resultQ' = Tail(resultQ)
    /\ IF request < MaxRequests
       THEN /\ request' = request + 1
            /\ phase' = "send" /\ todo' = Patches(request + 1)
            /\ UNCHANGED controlQ
       ELSE /\ phase' = "done"
            /\ controlQ' = Append(controlQ, "STOP")
            /\ UNCHANGED << request, todo >>
    /\ UNCHANGED << schedQ, feedbackQ, workerQ, buffer, policy, events, taskId, pc, workerVars >>

ClientStep == SendConfig \/ ReceiveTimeSync \/ SendPatch \/ ReceiveResult

-----------------------------------------------------------------------------
(* The GPU thread takes a message: CONFIG drops every session, TIME_SYNC is *)
(* answered on the spot, a task opens the session of its request.           *)
Job(instr) == [op |-> instr.op, layer |-> instr.hi, global |-> instr.global,
               req |-> task.req, task |-> task.id]

Kept(req, s) == [q \in DOMAIN sessions \cup {req} |-> IF q = req THEN s ELSE sessions[q]]

TakeMessage ==
    /\ task = NoTask /\ workerQ # << >>
    /\ workerQ' = Tail(workerQ)
    /\ LET msg == Head(workerQ)
       IN CASE msg.type = "CONFIG" -> sessions' = << >> /\ UNCHANGED << task, resultQ >>
            [] msg.type = "TIME_SYNC" ->
                 /\ resultQ' = Append(resultQ, [sync |-> TRUE, req |-> None, final |-> << >>])
                 /\ UNCHANGED << sessions, task >>
            [] msg.type = "TASK" ->
                 /\ task' = msg.task
                 /\ sessions' = IF msg.task.req \in DOMAIN sessions THEN sessions
                                ELSE Kept(msg.task.req, NewSession)
                 /\ UNCHANGED resultQ
            [] OTHER -> UNCHANGED << sessions, task, resultQ >>
    /\ UNCHANGED << queueVars, buffer, policy, events, taskId, pc, monitorQ, clientVars >>

(* The code looks the context up once per task and keeps the object; here   *)
(* it is looked up for every instruction.  The two differ only if a session *)
(* is released while a task of its request runs, and none is: FREE_SESSION  *)
(* is the last instruction of a request's last task.  An instruction that   *)
(* raises drops the session and the rest of the task.                       *)
Instruction == Head(task.instrs)
Newest(payload) == IF payload = << >> THEN None ELSE Max(Groups(payload))
Context == IF task.req \in DOMAIN sessions THEN sessions[task.req] ELSE NewSession

Launch ==
    /\ task # NoTask
    /\ IF Raises(Context, Instruction)
       THEN /\ sessions' = [q \in DOMAIN sessions \ {task.req} |-> sessions[q]]
            /\ task' = NoTask
            /\ UNCHANGED monitorQ
       ELSE /\ \E exits \in Exits(Context, Instruction) :
                 sessions' = Kept(task.req,
                     Dispatch(Context, Instruction, Newest(task.payload), exits))
            /\ monitorQ' = Append(monitorQ, Job(Instruction))
            /\ task' = IF Len(task.instrs) = 1 THEN NoTask
                       ELSE [task EXCEPT !.instrs = Tail(@)]
    /\ UNCHANGED << schedulerVars, resultQ, clientVars >>

(* The reaper, when the GPU has finished the oldest launched instruction.   *)
Reap ==
    /\ monitorQ # << >>
    /\ monitorQ' = Tail(monitorQ)
    /\ LET job == Head(monitorQ)
           known == job.req \in DOMAIN sessions
       IN  /\ feedbackQ' = IF known /\ job.op = "APPROX_FORWARD" /\ ~job.global
                           THEN Append(feedbackQ, [req |-> job.req, layer |-> job.layer])
                           ELSE feedbackQ
           /\ resultQ' = IF known /\ job.op = "SEND_RESPONSE"
                         THEN Append(resultQ, [sync |-> FALSE, req |-> job.req,
                                               final |-> sessions[job.req].final])
                         ELSE resultQ
           /\ sessions' = IF known /\ job.op = "FREE_SESSION"
                          THEN [q \in DOMAIN sessions \ {job.req} |-> sessions[q]]
                          ELSE sessions
    /\ UNCHANGED << controlQ, schedQ, workerQ, buffer, policy, events, taskId, pc,
                    task, clientVars >>

WorkerStep == TakeMessage \/ Launch \/ Reap

Finished ==
    /\ phase = "done" /\ pc = "stopped"
    /\ workerQ = << >> /\ task = NoTask /\ monitorQ = << >>
    /\ UNCHANGED vars

Next ==
    /\ \/ ClientStep
       \/ SchedulerStep /\ UNCHANGED << workerVars, resultQ, clientVars >>
       \/ WorkerStep
       \/ Finished
    /\ UNCHANGED config

(* Each process and thread runs whenever it has something to do; the loops  *)
(* poll their queues, and what is put in a queue becomes visible.           *)
Fairness ==
    /\ WF_vars(ClientStep /\ UNCHANGED config)
    /\ WF_vars(SchedulerStep /\ UNCHANGED << workerVars, resultQ, clientVars, config >>)
    /\ WF_vars(TakeMessage /\ UNCHANGED config)
    /\ WF_vars(Launch /\ UNCHANGED config)
    /\ WF_vars(Reap /\ UNCHANGED config)

Spec == Init /\ [][Next]_vars /\ Fairness

-----------------------------------------------------------------------------
(* Properties.                                                              *)

PatchType == [req : Requests, gid : Nat, total : Nat, n : Nat]

(* Every variable holds what the program can hold there.                    *)
TypeOK ==
    /\ \A i \in DOMAIN controlQ : controlQ[i] \in {"CONFIG", "TIME_SYNC", "STOP"}
    /\ \A i \in DOMAIN schedQ : schedQ[i] \in PatchType
    /\ \A i \in DOMAIN buffer : buffer[i] \in PatchType
    /\ \A i \in DOMAIN feedbackQ : feedbackQ[i].layer \in 0..TotalLayers
    /\ policy = NoPolicy \/ policy \in PolicyState
    /\ events \subseteq 0..TotalLayers
    /\ pc \in {"poll", "decide", "stopped"}
    /\ \A q \in DOMAIN sessions :
          /\ q \in 0..taskId
          /\ sessions[q].at \in [Parts -> 0..TotalLayers \cup {None}]
          /\ sessions[q].outs \in [Parts -> 0..TotalLayers]
          /\ sessions[q].inc \in [Regions -> [Layers -> Regions \cup {0, None}]]
          /\ sessions[q].active \subseteq Images
    /\ phase \in {"config", "sync", "send", "wait", "done"}

(* The instruction the GPU thread is about to launch finds the state it     *)
(* relies on and does not raise: an approximation that goes on from layer   *)
(* lo finds the features of every part exactly at depth lo (VGGT's also at  *)
(* 0) and layers nobody has approximated for this request; a correction has *)
(* tokens to recompute, each with every layer cached (block.py's            *)
(* cache[f"{tag}_blocks_out_sum"]), and VGGT's starts from depth 0; a head  *)
(* on several levels finds the output of every layer of every source.       *)
ApproxSound(s, instr) ==
    /\ Prepared(s)
    /\ instr.lo > 0 \/ ExecutorName = "vggt" => \A p \in Regions : s.at[p] = instr.lo
    /\ \A p \in Regions : Cached(s, p) \cap (instr.lo .. instr.hi - 1) = {}
CorrectSound(s, instr) ==
    /\ Targets(s, instr.gid) # {}
    /\ ExecutorName = "vggt" => \A p \in Regions : s.at[p] = 0
LevelsComplete(s) == ExecutorName \in MultiLevel => \A p \in Used : s.outs[p] = TotalLayers

ScheduleSound ==
    task # NoTask /\ ~Skipped(Context, Instruction) =>
        /\ ~Raises(Context, Instruction)
        /\ Instruction.op = "APPROX_FORWARD" /\ ~Instruction.global =>
              ApproxSound(Context, Instruction)
        /\ Instruction.op = "CORRECT_FORWARD" => CorrectSound(Context, Instruction)
        /\ Instruction.op = "HEAD_INFERENCE" => LevelsComplete(Context)

Results == {m \in {resultQ[i] : i \in DOMAIN resultQ} : ~m.sync}

(* A result reaches the client only when it has sent the whole of the       *)
(* request it waits for, there is one of them, and each image has a         *)
(* prediction; unless images may exit early, it was computed at full depth  *)
(* after the last residual group had been loaded.                           *)
AnswerComplete ==
    /\ Cardinality({i \in DOMAIN resultQ : ~resultQ[i].sync}) <= 1
    /\ \A m \in Results :
          /\ phase = "wait"
          /\ \A i \in Images :
                /\ m.final[i] # NoOutcome
                /\ ~EarlyExit => /\ m.final[i].depth = TotalLayers
                                 /\ m.final[i].ver = GroupsOf[request]

(* No correction is lost on the way to the head.  In an answer, early or    *)
(* not, unless corrections are switched off, the features the head reads    *)
(* and the keys and values cached in every layer were computed, for each    *)
(* group that had arrived, from the pixels of that group or a later one.    *)
CorrectionsKept ==
    CorrectionOn => \A m \in Results : \A i \in Images : m.final[i].stale = {}

(* The patches of a task are one whole group of one request (for the        *)
(* counting policies: the whole request), none missing, none of another.    *)
WholeGroups ==
    \A i \in DOMAIN workerQ :
        LET payload == workerQ[i].task.payload
        IN  workerQ[i].type = "TASK" /\ payload # << >> =>
               payload = IF Policy \in CountPolicies THEN Patches(Head(payload).req)
                         ELSE Group(Head(payload).req, Head(payload).gid)

(* Sessions are not leaked: at most the request being answered and the one  *)
(* before it, whose FREE_SESSION the reaper has not reached, hold one, and  *)
(* nothing is left when the server has drained.                             *)
SessionsReleased ==
    /\ Cardinality(DOMAIN sessions) <= 2
    /\ phase = "done" /\ workerQ = << >> /\ task = NoTask /\ monitorQ = << >>
          => sessions = << >>

Quiet ==
    /\ pc = "poll" /\ feedbackQ = << >>
    /\ workerQ = << >> /\ task = NoTask /\ monitorQ = << >>

(* Feedback-driven speculation never dries up: while residual groups of the *)
(* request are still to come and layers are left to approximate, there is   *)
(* always work at the worker or feedback on its way to queue more.          *)
SpeculationAlive ==
    Quiet /\ policy.group \in 0 .. policy.n - 1 => policy.latest = TotalLayers

(* Feedback-driven speculation stays within ahead_layers of the layer last  *)
(* completed for the request, until all its images have left: from then on  *)
(* the layers are skipped, but reported as completed.                       *)
SpeculationBounded ==
    policy # NoPolicy /\ policy.group \in 0 .. policy.n - 1
        /\ policy.req \in DOMAIN sessions /\ sessions[policy.req].active # {} =>
        policy.latest <= AheadLayers + Cardinality(Cached(sessions[policy.req], 1))

(* Both hold for the two policies that hand every event to                  *)
(* _append_more_approx; the second one as long as no earlier request has    *)
(* feedback on its way.                                                     *)
FeedbackDriven == Policy \in {"ADE20KInterleavedDynamic", "COCOWindowDynamic"}
SpeculationKept == FeedbackDriven => SpeculationAlive
SpeculationWithin == FeedbackDriven /\ MaxRequests = 1 => SpeculationBounded

(* Every request is answered and the experiment ends.                       *)
Answered == <>(phase = "done")

(* Seen from the client the whole server is Service: a result is computed   *)
(* only once for a request and after all of it was sent, is never taken for *)
(* another request's, and follows every request.                            *)
Over == phase = "done"
Sent == IF Over \/ phase = "wait" THEN request ELSE request - 1
Received == IF Over THEN request ELSE request - 1
Promise == INSTANCE Service WITH
    asked <- Sent,
    computed <- IF Results # {} THEN request ELSE Received,
    delivered <- Received
ImplementsService == Promise!Spec
=============================================================================
