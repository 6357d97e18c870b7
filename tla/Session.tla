------------------------------ MODULE Session -------------------------------
(***************************************************************************)
(* The processes around the pipeline, from connecting to shutting down:    *)
(* MobileSender and MobileReceiver (offload/mobile/modules.py) with the    *)
(* client's main process and SourceModule, ServerReceiver and ServerSender *)
(* (offload/server/modules.py) with run_server (offload/server/main.py).   *)
(*                                                                         *)
(*   source -> sendQ -> uplink -> coreQ -> resultQ -> downlink -> feedQ    *)
(*                                                                         *)
(* The core, scheduler and worker together, answers what it is sent; a     *)
(* request is one message here, its patches are in Pipeline.  A link may   *)
(* break while messages are under way: the reader sees the messages that   *)
(* still got through, then the end of the stream.  The writer finds out    *)
(* from a send that fails, but the first send on a connection whose peer   *)
(* has gone may also succeed, into a kernel buffer nobody reads.           *)
(***************************************************************************)
EXTENDS Integers, Sequences, FiniteSetsExt

CONSTANTS
    MaxRequests,     \* requests the source makes
    MaxBreaks        \* bound: how often the downlink breaks; the uplink once

ASSUME SessionAssumption ==
    /\ MaxRequests \in Nat \ {0}
    /\ MaxBreaks \in Nat

VARIABLES
    phase, request, answers,     \* SourceModule, and what it took for results
    client,                      \* the client's main process
    sendQ, feedQ,                \* the client's queues
    up, upNet, mobileSender,     \* the uplink's state, messages under way, writer
    receiver, shutdown,          \* ServerReceiver, shutdown_event
    main,                        \* run_server
    core, coreQ, resultQ,        \* scheduler and worker, and their queues
    executor,                    \* the worker's: not configured, loaded, or failed to load
    down, downNet, mobileReceiver,
    sender, pending,             \* ServerSender and its pending_result
    terminated,                  \* the server's processes main had to terminate
    breaks, lost                 \* history: breaks so far, results lost under way

source == << phase, request, answers >>
uplink == << up, upNet, mobileSender >>
server == << receiver, shutdown, main, terminated >>
downlink == << down, downNet, mobileReceiver, sender, pending, breaks, lost >>
vars == << source, client, sendQ, feedQ, uplink, server,
           core, executor, coreQ, resultQ, downlink >>

(* A message is a request, the result of a request, or one of these.        *)
None == 0
Sync == -1                       \* a TIME_SYNC, and the float that answers it
Config == -2
Error == -3
Halt == -4                       \* "STOP"
Requests == 1..MaxRequests

Init ==
    /\ phase = "load" /\ request = 1 /\ answers = << >> /\ client = "running"
    /\ sendQ = << >> /\ feedQ = << >>
    /\ up = "none" /\ upNet = << >> /\ mobileSender = "connect"
    /\ receiver = "accept" /\ shutdown = FALSE /\ main = "running" /\ terminated = {}
    /\ core = "running" /\ coreQ = << >> /\ resultQ = << >> /\ executor = "unready"
    /\ down = "none" /\ downNet = << >> /\ mobileReceiver = "connect"
    /\ sender = "accept" /\ pending = None /\ breaks = 0 /\ lost = {}

-----------------------------------------------------------------------------
(* The source.                                                              *)
Put(messages) == sendQ' = sendQ \o messages

LoadDataset ==
    /\ phase = "load"
    /\ \/ Put(<< Config, Sync >>) /\ phase' = "sync"
       \/ Put(<< Error, Halt >>) /\ phase' = "failed"
    /\ UNCHANGED << request, answers, feedQ >>

ReceiveTimeSync ==
    /\ phase = "sync" /\ feedQ # << >>
    /\ feedQ' = Tail(feedQ)
    /\ phase' = "send"
    /\ UNCHANGED << request, answers, sendQ >>

SendRequest ==
    /\ phase = "send"
    /\ Put(<< request >>)
    /\ phase' = "wait"
    /\ UNCHANGED << request, answers, feedQ >>

(* Mutant of MoreRequests: one request too many.                            *)
MoreRequestsLate == request <= MaxRequests

MoreRequests == request < MaxRequests

ReceiveResult ==
    /\ phase = "wait" /\ feedQ # << >>
    /\ feedQ' = Tail(feedQ)
    /\ answers' = Append(answers, Head(feedQ))
    /\ IF MoreRequests
       THEN request' = request + 1 /\ phase' = "send" /\ UNCHANGED sendQ
       ELSE Put(<< Halt >>) /\ phase' = "done" /\ UNCHANGED request

(* APPCORR_RESULT_TIMEOUT: the source process dies of a RuntimeError.       *)
Timeout ==
    /\ phase = "wait" /\ feedQ = << >>
    /\ phase' = "timeout"
    /\ UNCHANGED << request, answers, sendQ, feedQ >>

SourceStep ==
    /\ client = "running"
    /\ LoadDataset \/ ReceiveTimeSync \/ SendRequest \/ ReceiveResult \/ Timeout
    /\ UNCHANGED << client, uplink, server, core, executor, coreQ, resultQ, downlink >>

(* The main process waits for the source, then five seconds for the sender, *)
(* and terminates what is left; so it does when it is interrupted.          *)
ClientExit ==
    /\ client = "running"
    /\ client' = "exited"
    /\ mobileSender' = "stopped" /\ mobileReceiver' = "stopped"
    /\ up' = IF up = "up" THEN "closed" ELSE up
    /\ down' = IF down = "up" THEN "broken" ELSE down
    /\ sendQ' = << >>
    /\ UNCHANGED << source, feedQ, upNet, server, core, executor, coreQ, resultQ,
                    downNet, sender, pending, breaks, lost >>

-----------------------------------------------------------------------------
(* The uplink.                                                              *)
UpConnect ==
    /\ mobileSender = "connect" /\ receiver = "accept"
    /\ mobileSender' = "send" /\ receiver' = "handshake" /\ up' = "up"
    /\ UNCHANGED << source, client, sendQ, feedQ, upNet, shutdown, main, terminated,
                    core, executor, coreQ, resultQ, downlink >>

MobileSend ==
    /\ mobileSender = "send" /\ sendQ # << >>
    /\ sendQ' = Tail(sendQ)
    /\ IF up = "up"
       THEN /\ upNet' = Append(upNet, Head(sendQ))
            /\ IF Head(sendQ) = Halt THEN mobileSender' = "stopped" /\ up' = "closed"
                                       ELSE UNCHANGED << mobileSender, up >>
       ELSE /\ mobileSender' \in {"send", "stopped"}     \* unnoticed, or it raises
            /\ UNCHANGED << upNet, up >>
    /\ UNCHANGED << source, client, feedQ, server, core, executor, coreQ, resultQ, downlink >>

UpBreak ==
    /\ up = "up"
    /\ up' = "broken"
    /\ \E n \in 0..Len(upNet) : upNet' = SubSeq(upNet, 1, n)
    /\ UNCHANGED << source, client, sendQ, feedQ, mobileSender, server,
                    core, executor, coreQ, resultQ, downlink >>

(* The receiver returns from _handle_connection, and closes the connection. *)
EndOfSession ==
    /\ receiver' = "ended"
    /\ shutdown' = TRUE
    /\ up' = IF up = "up" THEN "broken" ELSE up

Receive ==
    /\ receiver \in {"handshake", "data"}
    /\ IF upNet = << >>
       THEN /\ up # "up"                                  \* recv_msg is None
            /\ EndOfSession
            /\ UNCHANGED << upNet, coreQ >>
       ELSE /\ upNet' = Tail(upNet)
            /\ IF Head(upNet) = Halt \/ (receiver = "handshake" /\ Head(upNet) # Config)
               THEN EndOfSession /\ UNCHANGED coreQ
               ELSE /\ coreQ' = Append(coreQ, Head(upNet))
                    /\ receiver' = "data"
                    /\ UNCHANGED << shutdown, up >>
    /\ UNCHANGED << source, client, sendQ, feedQ, mobileSender, main, terminated,
                    core, executor, resultQ, downlink >>

-----------------------------------------------------------------------------
(* The scheduler and the worker: TIME_SYNC and requests are answered in the *)
(* order they came in; STOP overtakes what still waits.  CONFIG may fail    *)
(* before _config_ready is set (a device or a policy that does not exist)   *)
(* or after it (a model that does not load).                                *)
ConfigOutcomes == {"unready", "unloaded", "loaded"}

Compute ==
    /\ core = "running" /\ coreQ # << >>
    /\ coreQ' = Tail(coreQ)
    /\ LET message == Head(coreQ) IN
       \/ /\ message = Config
          /\ executor' \in ConfigOutcomes
          /\ UNCHANGED << core, resultQ >>
       \/ /\ message = Sync \/ (message \in Requests /\ executor = "loaded")
          /\ resultQ' = Append(resultQ, message)
          /\ UNCHANGED << core, executor >>
       \/ /\ message \in Requests /\ executor = "unloaded"  \* dropped: nobody answers
          /\ UNCHANGED << core, executor, resultQ >>
       \/ /\ message \in Requests /\ executor = "unready"
          /\ core' = "blocked"                          \* the decoder: _config_ready.wait()
          /\ UNCHANGED << executor, resultQ >>
    /\ UNCHANGED << source, client, sendQ, feedQ, uplink, server, downlink >>

CoreStop ==
    /\ core = "running" /\ main = "stopping"
    /\ core' = "stopped"
    /\ UNCHANGED << source, client, sendQ, feedQ, uplink, server, executor, coreQ, resultQ,
                    downlink >>

(* Mutant of Farewell: the sender is not told.                              *)
FarewellCore == UNCHANGED resultQ

(* request_graceful_shutdown, as far as the sender sees it.                 *)
Farewell == resultQ' = Append(resultQ, Halt)

BeginShutdown ==
    /\ main = "running" /\ shutdown
    /\ main' = "stopping"
    /\ Farewell
    /\ UNCHANGED << source, client, sendQ, feedQ, uplink, receiver, shutdown, terminated,
                    core, executor, coreQ, downlink >>

(* join(timeout=10) runs out on a process that will not end by itself: a    *)
(* worker whose decoder waits, with STOP unread behind the task; a sender   *)
(* that waits for a connection, or for a result.                            *)
Stuck ==
    (IF core = "blocked" THEN {"core"} ELSE {})
    \cup (IF sender = "accept" \/ (sender = "send" /\ pending = None /\ resultQ = << >>)
          THEN {"sender"} ELSE {})

(* Mutant of Kill: main only joins.                                         *)
KillNone(stuck) == terminated' = terminated /\ UNCHANGED << core, sender >>

Kill(stuck) ==
    /\ terminated' = terminated \cup stuck
    /\ core' = IF "core" \in stuck THEN "stopped" ELSE core
    /\ sender' = IF "sender" \in stuck THEN "stopped" ELSE sender

Terminate ==
    /\ main = "stopping" /\ Stuck # {}
    /\ Kill(Stuck)
    /\ UNCHANGED << source, client, sendQ, feedQ, uplink, receiver, shutdown, main, executor,
                    coreQ, resultQ, down, downNet, mobileReceiver, pending, breaks, lost >>

EndShutdown ==
    /\ main = "stopping" /\ receiver = "ended" /\ core = "stopped" /\ sender = "stopped"
    /\ main' = "stopped"
    /\ UNCHANGED << source, client, sendQ, feedQ, uplink, receiver, shutdown, terminated,
                    core, executor, coreQ, resultQ, downlink >>

MainStep == BeginShutdown \/ Terminate \/ EndShutdown

-----------------------------------------------------------------------------
(* The downlink.                                                            *)
DownConnect ==
    /\ mobileReceiver = "connect" /\ sender = "accept"
    /\ mobileReceiver' = "receive" /\ sender' = "ready"
    /\ down' = "up" /\ downNet' = << >>
    /\ UNCHANGED << source, client, sendQ, feedQ, uplink, server, core, executor, coreQ, resultQ,
                    pending, breaks, lost >>

(* Mutant of AfterReadyFailed: run() forgets the result it has to retry.    *)
AfterReadyFailedForgets == sender' = "accept" /\ pending' = None

(* _send_ready raises: run() connects again, pending_result as it was.      *)
AfterReadyFailed == sender' = "accept" /\ UNCHANGED pending

SendReady ==
    /\ sender = "ready"
    /\ \/ sender' = "send" /\ UNCHANGED pending        \* the client ignores it
       \/ down # "up" /\ AfterReadyFailed
    /\ UNCHANGED << source, client, sendQ, feedQ, uplink, server, core, executor, coreQ, resultQ,
                    down, downNet, mobileReceiver, breaks, lost >>

(* Mutants of AfterSent and AfterSendFailed: a result that was sent is kept *)
(* like one whose send failed; the exception ends the process.              *)
AfterSentKeeps(item) == pending' = item
AfterSendFailedDies(item) == pending' = item /\ sender' = "stopped"

AfterSent(item) == pending' = None
AfterSendFailed(item) == pending' = item /\ sender' = "accept"

(* One turn of _send_loop.                                                  *)
SendResult ==
    /\ sender = "send"
    /\ pending # None \/ resultQ # << >>
    /\ resultQ' = IF pending # None THEN resultQ ELSE Tail(resultQ)
    /\ LET item == IF pending # None THEN pending ELSE Head(resultQ)
       IN  IF item = Halt
           THEN /\ sender' = "stopped"
                /\ down' = IF down = "up" THEN "broken" ELSE down
                /\ UNCHANGED << pending, downNet, lost >>
           ELSE /\ UNCHANGED down
                /\ IF down = "up"
                   THEN /\ downNet' = Append(downNet, item)
                        /\ AfterSent(item)
                        /\ UNCHANGED << sender, lost >>
                   ELSE /\ UNCHANGED downNet
                        /\ \/ AfterSendFailed(item) /\ UNCHANGED lost
                           \/ AfterSent(item) /\ lost' = lost \cup {item} /\ UNCHANGED sender
    /\ UNCHANGED << source, client, sendQ, feedQ, uplink, server, core, executor, coreQ,
                    mobileReceiver, breaks >>

DownBreak ==
    /\ down = "up" /\ breaks < MaxBreaks
    /\ down' = "broken" /\ breaks' = breaks + 1
    /\ \E n \in 0..Len(downNet) :
          /\ downNet' = SubSeq(downNet, 1, n)
          /\ lost' = lost \cup {downNet[i] : i \in n + 1 .. Len(downNet)}
    /\ UNCHANGED << source, client, sendQ, feedQ, uplink, server, core, executor, coreQ, resultQ,
                    mobileReceiver, sender, pending >>

MobileReceive ==
    /\ mobileReceiver = "receive"
    /\ IF downNet = << >>
       THEN /\ down # "up"                                \* recv_msg is None
            /\ mobileReceiver' = "connect"
            /\ UNCHANGED << downNet, feedQ >>
       ELSE /\ downNet' = Tail(downNet)
            /\ feedQ' = Append(feedQ, Head(downNet))
            /\ UNCHANGED mobileReceiver
    /\ UNCHANGED << source, client, sendQ, uplink, server, core, executor, coreQ, resultQ,
                    down, sender, pending, breaks, lost >>

SenderStep == SendReady \/ SendResult

-----------------------------------------------------------------------------
(* All is over, or the server waits for a client that will never connect:   *)
(* "for now, we assume mobile connects at least once".                      *)
Over ==
    /\ client = "exited" /\ (main = "stopped" \/ receiver = "accept")
    /\ UNCHANGED vars

Next ==
    \/ SourceStep \/ ClientExit
    \/ UpConnect \/ MobileSend \/ UpBreak \/ Receive
    \/ Compute \/ CoreStop \/ MainStep
    \/ DownConnect \/ SenderStep \/ DownBreak \/ MobileReceive
    \/ Over

(* Every process goes on while it can, and the peers of a connection see    *)
(* its end.  Nothing makes a link break, or a user interrupt the client.    *)
Fairness ==
    /\ WF_vars(SourceStep)
    /\ WF_vars(phase \in {"done", "failed", "timeout"} /\ ClientExit)
    /\ WF_vars(UpConnect) /\ WF_vars(MobileSend) /\ WF_vars(Receive)
    /\ WF_vars(Compute) /\ WF_vars(CoreStop) /\ WF_vars(MainStep)
    /\ WF_vars(DownConnect) /\ WF_vars(SenderStep) /\ WF_vars(MobileReceive)

Spec == Init /\ [][Next]_vars /\ Fairness

-----------------------------------------------------------------------------
(* Properties.                                                              *)

(* Every variable holds what the program can hold there.                    *)
TypeOK ==
    /\ phase \in {"load", "sync", "send", "wait", "done", "failed", "timeout"}
    /\ request \in Requests
    /\ client \in {"running", "exited"}
    /\ up \in {"none", "up", "closed", "broken"} /\ down \in {"none", "up", "broken"}
    /\ mobileSender \in {"connect", "send", "stopped"}
    /\ mobileReceiver \in {"connect", "receive", "stopped"}
    /\ receiver \in {"accept", "handshake", "data", "ended"} /\ shutdown \in BOOLEAN
    /\ main \in {"running", "stopping", "stopped"} /\ core \in {"running", "blocked", "stopped"}
    /\ executor \in ConfigOutcomes
    /\ sender \in {"accept", "ready", "send", "stopped"}
    /\ pending \in Requests \cup {None, Sync}
    /\ terminated \subseteq {"core", "sender"} /\ breaks \in 0..MaxBreaks
    /\ lost \subseteq Requests \cup {Sync}

(* Whatever breaks and is sent again, what the source takes for the result  *)
(* of its i-th request is that result: none skipped, none twice, and no     *)
(* answer to a TIME_SYNC among them.                                        *)
AnswersInOrder ==
    /\ answers = [i \in 1..Len(answers) |-> i]
    /\ phase = "wait" => Len(answers) = request - 1

(* A result the server has computed is in a queue, in pending_result, under *)
(* way, or with the client, unless a connection was lost with it: failed    *)
(* sends and reconnections forget none.                                     *)
Whereabouts ==
    Requests \cap
        ((UNION {{q[i] : i \in DOMAIN q} : q \in {resultQ, downNet, feedQ, answers}})
         \cup {pending} \cup lost)
ResultsKept == [][Whereabouts \subseteq Whereabouts']_vars

(* main.py: "Let child processes exit through their normal loops so         *)
(* profilers flush."  If the client finished and the downlink never broke,  *)
(* none has to be terminated.                                               *)
GracefulStop ==
    main = "stopped" /\ phase = "done" /\ breaks = 0 => terminated = {}

(* A result whose send failed is sent again, as long as there is a client   *)
(* and the server is not shutting down.                                     *)
PendingResent ==
    pending # None ~> pending = None \/ main # "running" \/ client = "exited"

(* However the uplink ends (STOP, a failed handshake, a client that died, a *)
(* broken link), the whole server stops, even if its decoder waits for a    *)
(* CONFIG that failed.                                                      *)
ServerStops == up \in {"closed", "broken"} ~> main = "stopped"

(* Over links that break, clients that give up and results that are sent    *)
(* again, the system still keeps the safety part of Service: no request is  *)
(* computed twice or before it was made, no result delivered twice or out   *)
(* of turn.                                                                 *)
Promise == INSTANCE Service WITH
    asked <- IF phase \in {"wait", "timeout", "done"} THEN request ELSE request - 1,
    computed <- Max(Whereabouts \cup {0}),
    delivered <- Len(answers)
ImplementsSafety == Promise!Safety
=============================================================================
