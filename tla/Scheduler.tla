----------------------------- MODULE Scheduler ------------------------------
(***************************************************************************)
(* SchedulerModule (offload/server/scheduler.py): one process that turns   *)
(* the stream of patches into tasks for the worker.  Each pass of its loop *)
(* handles at most one control message, drains the patches and the         *)
(* feedback it can see, and calls the policy until it answers None.        *)
(*                                                                         *)
(* The queues are multiprocessing.Queue: an item another process has put   *)
(* becomes visible only after that process's feeder thread has flushed it, *)
(* and each queue has a feeder of its own.  A pass may therefore find any  *)
(* prefix of each queue, and nothing orders one queue against another.     *)
(***************************************************************************)
EXTENDS SchedulingPolicies

VARIABLES
    controlQ,    \* control_queue: CONFIG, TIME_SYNC and STOP
    schedQ,      \* input_queue: patches
    feedbackQ,   \* feedback_queue: [req, layer] of APPROX_DONE events
    workerQ,     \* worker_queue: what the worker process receives
    buffer,      \* self.buffer
    policy,      \* the policy object, NoPolicy before the first CONFIG
    events,      \* feedback_events: the layers drained in this pass
    taskId,      \* the next value of task_counter
    pc           \* "poll", "decide" or "stopped"

schedulerVars == << controlQ, schedQ, feedbackQ, workerQ, buffer, policy, events, taskId, pc >>
queueVars == << controlQ, schedQ, feedbackQ >>

NoPolicy == [NewPolicy EXCEPT !.n = 0]
Message(type) == [type |-> type, task |-> NoTask]
TaskMessage(task) == [type |-> "TASK", task |-> task]

SchedulerInit ==
    /\ config \in Configs
    /\ controlQ = << >> /\ schedQ = << >> /\ feedbackQ = << >> /\ workerQ = << >>
    /\ buffer = << >>
    /\ policy = NoPolicy
    /\ events = {}
    /\ taskId = 0
    /\ pc = "poll"

-----------------------------------------------------------------------------
Control(cmd) ==
    /\ pc = "poll"
    /\ controlQ # << >> /\ Head(controlQ) = cmd
    /\ controlQ' = Tail(controlQ)
    /\ workerQ' = Append(workerQ, Message(cmd))
    /\ UNCHANGED << schedQ, feedbackQ, events >>

(* A CONFIG starts over: new policy object, empty buffer, task ids from 0.  *)
Configure ==
    /\ Control("CONFIG")
    /\ policy' = NewPolicy
    /\ buffer' = << >>
    /\ taskId' = 0
    /\ UNCHANGED pc

ForwardTimeSync ==
    /\ Control("TIME_SYNC")
    /\ UNCHANGED << policy, buffer, taskId, pc >>

Stop ==
    /\ Control("STOP")
    /\ pc' = "stopped"
    /\ UNCHANGED << policy, buffer, taskId >>

(* One pass that drains something.  A pass that drains nothing calls the    *)
(* policy on the buffer it last refused, and changes nothing.               *)
Drain(patches, feedback) ==
    /\ pc = "poll"
    /\ patches \in 0..Len(schedQ) /\ feedback \in 0..Len(feedbackQ)
    /\ patches + feedback > 0
    /\ buffer' = buffer \o SubSeq(schedQ, 1, patches)
    /\ schedQ' = SubSeq(schedQ, patches + 1, Len(schedQ))
    /\ feedbackQ' = SubSeq(feedbackQ, feedback + 1, Len(feedbackQ))
    /\ IF policy = NoPolicy
       THEN UNCHANGED << events, pc >>
       ELSE /\ events' = {feedbackQ[i].layer : i \in 1..feedback}
            /\ pc' = "decide"
    /\ UNCHANGED << controlQ, workerQ, policy, taskId >>

(* Mutant of Completed: the feedback is drained but never passed on.        *)
NeverCompleted == None
Completed == IF events = {} THEN None ELSE Max(events)

(* One call of decide().  The feedback is passed to the first call of a     *)
(* pass only; the buffer loses as many patches as the task carries.         *)
CallPolicy ==
    LET answer == Decide(policy, buffer, Completed, taskId)
    IN  /\ pc = "decide"
        /\ policy' = answer.st
        /\ events' = {}
        /\ IF answer.task = NoTask
           THEN pc' = "poll" /\ UNCHANGED << buffer, taskId, workerQ >>
           ELSE /\ buffer' = SubSeq(buffer, Len(answer.task.payload) + 1, Len(buffer))
                /\ taskId' = taskId + 1
                /\ workerQ' = Append(workerQ, TaskMessage(answer.task))
                /\ UNCHANGED pc
        /\ UNCHANGED queueVars

(* A pass that finds every queue empty.                                     *)
Idle == pc = "poll" /\ UNCHANGED schedulerVars

SchedulerStep ==
    \/ Configure \/ ForwardTimeSync \/ Stop
    \/ \E p \in 0..Len(schedQ), f \in 0..Len(feedbackQ) : Drain(p, f)
    \/ CallPolicy \/ Idle
=============================================================================
