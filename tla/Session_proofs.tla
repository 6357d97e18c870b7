--------------------------- MODULE Session_proofs ----------------------------
(* Proofs about Session: its type invariant, that the source takes every    *)
(* result for the request it is of, that failed sends and reconnections     *)
(* forget no result, that a client that finished over links that held needs *)
(* no process terminated, and that Session implements the safety part of    *)
(* Service.                                                                 *)
EXTENDS Session, TLAPS

USE SessionAssumption

-----------------------------------------------------------------------------
(* The inductive invariant.                                                 *)

(* What is answered: a request or a TIME_SYNC, and what answers it.         *)
Token == Requests \cup {Sync}
Item == Token \cup {Config, Error, Halt}

(* The way of a request and of its result, from the far end back to the     *)
(* source's own queue.                                                      *)
Retry == IF pending = None THEN << >> ELSE << pending >>
Line == << feedQ, downNet, Retry, resultQ, coreQ, upNet, sendQ >>
Places == 1..7

No(q) == \A i \in DOMAIN q : q[i] \notin Token
One(q) == \A i, j \in DOMAIN q : q[i] \in Token /\ q[j] \in Token => i = j
Empty(line) == \A k \in Places : No(line[k])
Alone(line) ==
    /\ \A k \in Places : One(line[k])
    /\ \A j, k \in Places : No(line[j]) \/ No(line[k]) \/ j = k
Within(line, set) ==
    \A k \in Places : \A i \in DOMAIN line[k] : line[k][i] \in Token => line[k][i] \in set

Carries(line, set) == Alone(line) /\ Within(line, set)

Lines == [Places -> Seq(Item)]
Drop(line, a) == [line EXCEPT ![a] = Tail(line[a])]
Add(line, a, x) == [line EXCEPT ![a] = Append(line[a], x)]
Move(line, a, b) == Add(Drop(line, a), b, Head(line[a]))
Cut(line, a, n) == [line EXCEPT ![a] = SubSeq(line[a], 1, n)]

(* What the source waits for, or gave up waiting for.                       *)
Waiting == phase \in {"wait", "timeout"}
Expected == IF phase = "sync" THEN {Sync} ELSE IF Waiting THEN {request} ELSE {}

Queues ==
    /\ feedQ \in Seq(Token) /\ downNet \in Seq(Token) /\ resultQ \in Seq(Token \cup {Halt})
    /\ coreQ \in Seq(Item) /\ upNet \in Seq(Item) /\ sendQ \in Seq(Item)
    /\ answers \in Seq(Token)

(* The source has the results of the requests before this one.              *)
Counted ==
    /\ Len(answers) = IF phase = "done" THEN request ELSE request - 1
    /\ \A i \in DOMAIN answers : answers[i] = i

(* There is at most one token on the line, the one the source waits for,    *)
(* and none when it was lost.                                               *)
Flight ==
    /\ Carries(Line, Expected)
    /\ lost \subseteq Expected
    /\ lost # {} => Empty(Line)

(* A decoder that waits for a CONFIG has taken the request with it.         *)
Blocked == core = "blocked" \/ "core" \in terminated => Waiting /\ Empty(Line)

(* A client that connects again has read what still came on the connection  *)
(* before.                                                                  *)
Drained == mobileReceiver = "connect" => down # "up" /\ downNet = << >>

(* While the downlink has not broken, a connected sender is connected to a  *)
(* client, and one that accepts, is not ready, or was terminated there has  *)
(* never sent, or has lost its client before it finished.                   *)
NeverSent == phase \in {"load", "sync", "failed"} /\ downNet = << >> /\ feedQ = << >>
Connected ==
    /\ "sender" \in terminated => sender = "stopped"
    /\ breaks = 0 =>
        /\ client = "running" /\ sender \in {"ready", "send"} => down = "up"
        /\ sender \in {"accept", "ready"} \/ "sender" \in terminated =>
              NeverSent \/ (client = "exited" /\ phase # "done")

(* Once main stops the server, the sender has stopped or finds a STOP.      *)
Told == main # "running" => sender = "stopped" \/ \E i \in DOMAIN resultQ : resultQ[i] = Halt

IInv ==
    /\ TypeOK /\ Queues /\ Counted /\ Flight
    /\ Blocked /\ Drained /\ Connected /\ Told
-----------------------------------------------------------------------------
(* Lemmas about one queue.                                                  *)

(* Taking the first item of a queue takes its only token, or leaves it.     *)
LEMMA Taken ==
    ASSUME NEW q \in Seq(Item), q # << >>
    PROVE  /\ Tail(q) \in Seq(Item) /\ Head(q) \in Item
           /\ No(q) => No(Tail(q)) /\ Head(q) \notin Token
           /\ One(q) => One(Tail(q))
           /\ One(q) /\ Head(q) \in Token => No(Tail(q))
           /\ \A S : (\A i \in DOMAIN q : q[i] \in Token => q[i] \in S) =>
                 /\ \A i \in DOMAIN Tail(q) : Tail(q)[i] \in Token => Tail(q)[i] \in S
                 /\ Head(q) \in Token => Head(q) \in S
<1>1. /\ Tail(q) \in Seq(Item) /\ Head(q) = q[1] /\ 1 \in DOMAIN q /\ q[1] \in Item
      /\ \A i \in DOMAIN Tail(q) : i + 1 \in DOMAIN q /\ Tail(q)[i] = q[i + 1] /\ i + 1 # 1
  OBVIOUS
<1>2. \A i, j \in DOMAIN Tail(q) : i + 1 = j + 1 => i = j
  OBVIOUS
<1>3. QED
  BY <1>1, <1>2 DEF No, One

(* Putting an item into a queue adds that item.                             *)
LEMMA Added ==
    ASSUME NEW q \in Seq(Item), NEW x \in Item
    PROVE  /\ Append(q, x) \in Seq(Item)
           /\ No(q) /\ x \notin Token => No(Append(q, x))
           /\ One(q) /\ (No(q) \/ x \notin Token) => One(Append(q, x))
           /\ \A S : /\ \A i \in DOMAIN q : q[i] \in Token => q[i] \in S
                     /\ x \in Token => x \in S
                     => \A i \in DOMAIN Append(q, x) :
                           Append(q, x)[i] \in Token => Append(q, x)[i] \in S
<1>1. /\ Append(q, x) \in Seq(Item)
      /\ \A i \in DOMAIN Append(q, x) :
            \/ i \in DOMAIN q /\ Append(q, x)[i] = q[i]
            \/ i = Len(q) + 1 /\ Append(q, x)[i] = x
  OBVIOUS
<1>2. QED
  BY <1>1 DEF No, One

(* What is left of the messages under way on a link that breaks.            *)
LEMMA CutShort ==
    ASSUME NEW q \in Seq(Item), NEW n \in 0..Len(q)
    PROVE  /\ SubSeq(q, 1, n) \in Seq(Item)
           /\ No(q) => No(SubSeq(q, 1, n))
           /\ One(q) => One(SubSeq(q, 1, n))
           /\ \A S : (\A i \in DOMAIN q : q[i] \in Token => q[i] \in S) =>
                 \A i \in DOMAIN SubSeq(q, 1, n) :
                    SubSeq(q, 1, n)[i] \in Token => SubSeq(q, 1, n)[i] \in S
<1>1. /\ SubSeq(q, 1, n) \in Seq(Item)
      /\ \A i \in DOMAIN SubSeq(q, 1, n) : i \in DOMAIN q /\ SubSeq(q, 1, n)[i] = q[i]
  OBVIOUS
<1>2. QED
  BY <1>1 DEF No, One

(* What the operations on a queue keep, whatever its elements are.          *)
LEMMA QueueTyped ==
    ASSUME NEW S, NEW q \in Seq(S)
    PROVE  /\ << >> \in Seq(S)
           /\ \A x \in S : Append(q, x) \in Seq(S)
           /\ \A x, y \in S : q \o << x, y >> \in Seq(S)
           /\ q # << >> => Head(q) \in S /\ Tail(q) \in Seq(S)
OBVIOUS

(* A queue without items holds no token.                                    *)
LEMMA NoneThere == No(<< >>) /\ One(<< >>)
BY DEF No, One

-----------------------------------------------------------------------------
(* Lemmas about the line.                                                   *)
(* An item is dropped: with it goes the token, if it was one.               *)
LEMMA LineDrop ==
    ASSUME NEW line \in Lines, NEW S, Carries(line, S), NEW a \in Places, line[a] # << >>
    PROVE  /\ Carries(Drop(line, a), S)
           /\ Empty(line) => Empty(Drop(line, a))
           /\ Head(line[a]) \in Token =>
                 Empty(Drop(line, a)) /\ ~Empty(line) /\ Head(line[a]) \in S
<1> DEFINE q == line[a]
           new == Drop(line, a)
<1>0. Alone(line) /\ Within(line, S)
  BY DEF Carries
<1>1. q \in Seq(Item) /\ q # << >>
  BY DEF Lines
<1>2. DOMAIN new = Places /\ new[a] = Tail(q) /\ \A k \in Places \ {a} : new[k] = line[k]
  BY DEF Lines, Drop
<1>3. /\ No(q) => No(Tail(q)) /\ Head(q) \notin Token
      /\ One(q) => One(Tail(q))
      /\ One(q) /\ Head(q) \in Token => No(Tail(q))
      /\ \A T : (\A i \in DOMAIN q : q[i] \in Token => q[i] \in T) =>
            /\ \A i \in DOMAIN Tail(q) : Tail(q)[i] \in Token => Tail(q)[i] \in T
            /\ Head(q) \in Token => Head(q) \in T
  BY <1>1, Taken
<1>4. One(q) /\ \A k \in Places : One(line[k])
  BY <1>0 DEF Alone
<1>5. \A j, k \in Places : No(line[j]) \/ No(line[k]) \/ j = k
  BY <1>0 DEF Alone
<1> HIDE DEF q, new
<1>6. line[a] = q
  BY DEF q
<1>7. Alone(new)
  <2>1. \A k \in Places : One(new[k])
    BY <1>2, <1>3, <1>4
  <2>2. \A k \in Places : No(line[k]) => No(new[k])
    BY <1>2, <1>3, <1>6
  <2>3. QED
    BY <1>5, <2>1, <2>2 DEF Alone
<1>8. Empty(line) => Empty(new)
  BY <1>2, <1>3, <1>6 DEF Empty
<1>9. Head(q) \in Token => Empty(new) /\ ~Empty(line)
  BY <1>2, <1>3, <1>4, <1>5, <1>6 DEF Empty
<1>10. Within(new, S) /\ (Head(q) \in Token => Head(q) \in S)
  BY <1>0, <1>2, <1>3, <1>6 DEF Within
<1>11. QED
  BY <1>6, <1>7, <1>8, <1>9, <1>10 DEF new, Carries

(* An item is added: a token only to a line without one.                    *)
LEMMA LineAdd ==
    ASSUME NEW line \in Lines, NEW S, Carries(line, S), NEW a \in Places, NEW x \in Item,
           x \in Token => Empty(line) /\ x \in S
    PROVE  /\ Carries(Add(line, a, x), S)
           /\ Empty(line) /\ x \notin Token => Empty(Add(line, a, x))
           /\ Add(line, a, x) \in Lines
<1> DEFINE q == line[a]
           new == Add(line, a, x)
<1>0. Alone(line) /\ Within(line, S)
  BY DEF Carries
<1>1. q \in Seq(Item)
  BY DEF Lines
<1>2. new[a] = Append(q, x) /\ (\A k \in Places \ {a} : new[k] = line[k]) /\ new \in Lines
  BY DEF Lines, Add
<1>3. /\ No(q) /\ x \notin Token => No(Append(q, x))
      /\ One(q) /\ (No(q) \/ x \notin Token) => One(Append(q, x))
      /\ \A T : /\ \A i \in DOMAIN q : q[i] \in Token => q[i] \in T
                /\ x \in Token => x \in T
                => \A i \in DOMAIN Append(q, x) :
                      Append(q, x)[i] \in Token => Append(q, x)[i] \in T
  BY <1>1, Added
<1>4. \A k \in Places : One(line[k])
  BY <1>0 DEF Alone
<1>5. \A j, k \in Places : No(line[j]) \/ No(line[k]) \/ j = k
  BY <1>0 DEF Alone
<1> HIDE DEF q, new
<1>6. line[a] = q
  BY DEF q
<1>7. Alone(new)
  <2>1. \A k \in Places : One(new[k])
    BY <1>2, <1>3, <1>4, <1>6 DEF Empty
  <2>2. \A j, k \in Places : No(new[j]) \/ No(new[k]) \/ j = k
    BY <1>2, <1>3, <1>5, <1>6 DEF Empty
  <2>3. QED
    BY <2>1, <2>2 DEF Alone
<1>8. Empty(line) /\ x \notin Token => Empty(new)
  BY <1>2, <1>3, <1>6 DEF Empty
<1>9. Within(new, S)
  BY <1>0, <1>2, <1>3, <1>6 DEF Within
<1>10. QED
  BY <1>2, <1>7, <1>8, <1>9 DEF new, Carries

(* An item moves to another place.                                          *)
LEMMA LineMove ==
    ASSUME NEW line \in Lines, NEW S, Carries(line, S), NEW a \in Places, NEW b \in Places,
           line[a] # << >>
    PROVE  /\ Carries(Move(line, a, b), S)
           /\ Empty(line) => Empty(Move(line, a, b))
<1> DEFINE mid == Drop(line, a)
           x == Head(line[a])
<1>1. line[a] \in Seq(Item)
  BY DEF Lines
<1>2. Tail(line[a]) \in Seq(Item) /\ x \in Item
  BY <1>1
<1>3. mid \in Lines
  BY <1>2 DEF Lines, Drop
<1>4. /\ Carries(mid, S)
      /\ Empty(line) => Empty(mid)
      /\ x \in Token => Empty(mid) /\ ~Empty(line) /\ x \in S
  BY LineDrop
<1> HIDE DEF mid, x
<1>5. /\ Carries(Add(mid, b, x), S)
      /\ Empty(mid) /\ x \notin Token => Empty(Add(mid, b, x))
  BY <1>2, <1>3, <1>4, LineAdd
<1>6. QED
  BY <1>4, <1>5 DEF Move, mid, x

(* The last messages of a place are lost.                                   *)
LEMMA LineCut ==
    ASSUME NEW line \in Lines, NEW S, Carries(line, S), NEW a \in Places,
           NEW n \in 0..Len(line[a])
    PROVE  /\ Carries(Cut(line, a, n), S)
           /\ Empty(line) => Empty(Cut(line, a, n))
<1> DEFINE q == line[a]
           new == Cut(line, a, n)
<1>0. Alone(line) /\ Within(line, S)
  BY DEF Carries
<1>1. q \in Seq(Item)
  BY DEF Lines
<1>2. new[a] = SubSeq(q, 1, n) /\ \A k \in Places \ {a} : new[k] = line[k]
  BY DEF Lines, Cut
<1>3. /\ No(q) => No(SubSeq(q, 1, n))
      /\ One(q) => One(SubSeq(q, 1, n))
      /\ \A T : (\A i \in DOMAIN q : q[i] \in Token => q[i] \in T) =>
            \A i \in DOMAIN SubSeq(q, 1, n) :
               SubSeq(q, 1, n)[i] \in Token => SubSeq(q, 1, n)[i] \in T
  BY <1>1, CutShort
<1>4. \A k \in Places : One(line[k])
  BY <1>0 DEF Alone
<1>5. \A j, k \in Places : No(line[j]) \/ No(line[k]) \/ j = k
  BY <1>0 DEF Alone
<1> HIDE DEF q, new
<1>6. line[a] = q
  BY DEF q
<1>7. Alone(new)
  <2>1. \A k \in Places : One(new[k])
    BY <1>2, <1>3, <1>4, <1>6
  <2>2. \A k \in Places : No(line[k]) => No(new[k])
    BY <1>2, <1>3, <1>6
  <2>3. QED
    BY <1>5, <2>1, <2>2 DEF Alone
<1>8. Empty(line) => Empty(new)
  BY <1>2, <1>3, <1>6 DEF Empty
<1>9. Within(new, S)
  BY <1>0, <1>2, <1>3, <1>6 DEF Within
<1>10. QED
  BY <1>7, <1>8, <1>9 DEF new, Carries
-----------------------------------------------------------------------------
(* The actions, one by one.                                                 *)
LEMMA Actions ==
    ASSUME Next
    PROVE  \/ SourceStep \/ ClientExit \/ UpConnect \/ MobileSend \/ UpBreak \/ Receive
           \/ Compute \/ CoreStop \/ BeginShutdown \/ Terminate \/ EndShutdown
           \/ DownConnect \/ SendReady \/ SendResult \/ DownBreak \/ MobileReceive
           \/ UNCHANGED vars
BY DEF Next, MainStep, SenderStep, Over

(* The items that the program puts into its queues.                         *)
LEMMA Items ==
    /\ Sync \in Token /\ None \notin Token /\ Halt \notin Token
    /\ Config \in Item \ Token /\ Error \in Item \ Token /\ Halt \in Item \ Token
    /\ Token \subseteq Item /\ Requests \subseteq Token /\ Sync \notin Requests
    /\ None \notin Item /\ Requests \subseteq Nat /\ Token \subseteq Int
BY DEF Sync, None, Halt, Config, Error, Item, Token, Requests

(* Every place of the line is a queue of items.                             *)
LEMMA LineTyped ==
    ASSUME TypeOK, Queues
    PROVE  /\ Line \in Lines
           /\ feedQ \in Seq(Item) /\ downNet \in Seq(Item) /\ resultQ \in Seq(Item)
           /\ Retry \in Seq(Item)
<1>1. feedQ \in Seq(Item) /\ downNet \in Seq(Item) /\ resultQ \in Seq(Item)
  <2>1. Token \subseteq Item /\ Token \cup {Halt} \subseteq Item
    BY Items
  <2>2. ASSUME NEW S, NEW T, S \subseteq T, NEW q \in Seq(S) PROVE q \in Seq(T)
    BY <2>2
  <2>3. QED
    BY <2>1, <2>2 DEF Queues
<1>2. Retry \in Seq(Item)
  <2>1. pending # None => pending \in Item
    BY Items DEF TypeOK, Token
  <2>2. << >> \in Seq(Item) /\ \A x \in Item : << x >> \in Seq(Item)
    OBVIOUS
  <2>3. QED
    BY <2>1, <2>2 DEF Retry
<1>3. Line \in Lines
  BY <1>1, <1>2 DEF Line, Lines, Queues, Places
<1>4. QED
  BY <1>1, <1>2, <1>3

(* The places of the line.                                                  *)
LEMMA LinePlaces ==
    /\ DOMAIN Line = Places
    /\ Line[1] = feedQ /\ Line[2] = downNet /\ Line[3] = Retry /\ Line[4] = resultQ
    /\ Line[5] = coreQ /\ Line[6] = upNet /\ Line[7] = sendQ
BY DEF Line, Places

-----------------------------------------------------------------------------
(* Types.                                                                   *)

(* The type invariant and the types of the queues hold initially ...        *)
LEMMA TypeInit == Init => TypeOK /\ Queues
<1> SUFFICES ASSUME Init PROVE TypeOK /\ Queues
  OBVIOUS
<1>1. Queues
  BY DEF Init, Queues
<1>2. TypeOK
  <2>1. 1 \in Requests /\ 0 \in 0..MaxBreaks
    BY DEF Requests
  <2>2. QED
    BY <2>1 DEF Init, TypeOK, ConfigOutcomes
<1>3. QED
  BY <1>1, <1>2

(* ... and every step keeps them.                                           *)
LEMMA TypeNext == TypeOK /\ Queues /\ Next => TypeOK' /\ Queues'
<1> SUFFICES ASSUME TypeOK, Queues, Next PROVE TypeOK' /\ Queues'
  OBVIOUS
<1> USE DEF TypeOK, Queues
<1>1. CASE LoadDataset /\ SourceStep
  <2>1. sendQ \o << Config, Sync >> \in Seq(Item) /\ sendQ \o << Error, Halt >> \in Seq(Item)
    BY Items
  <2>2. Queues'
    BY <1>1, <2>1 DEF LoadDataset, SourceStep, Put, uplink, server, downlink
  <2>3. TypeOK'
    BY <1>1 DEF LoadDataset, SourceStep, uplink, server, downlink
  <2>4. QED
    BY <2>2, <2>3
<1>2. CASE ReceiveTimeSync /\ SourceStep
  BY <1>2 DEF ReceiveTimeSync, SourceStep, uplink, server, downlink
<1>3. CASE SendRequest /\ SourceStep
  BY <1>3, Items DEF SendRequest, SourceStep, Put, uplink, server, downlink
<1>4. CASE ReceiveResult /\ SourceStep
  <2>1. Tail(feedQ) \in Seq(Token) /\ Append(answers, Head(feedQ)) \in Seq(Token)
    BY <1>4, QueueTyped DEF ReceiveResult
  <2>2. Append(sendQ, Halt) \in Seq(Item) /\ sendQ \o << Halt >> = Append(sendQ, Halt)
    BY Items
  <2>3. request' \in Requests
    BY <1>4 DEF ReceiveResult, MoreRequests, Requests
  <2>4. Queues'
    BY <1>4, <2>1, <2>2 DEF ReceiveResult, SourceStep, Put, uplink, server, downlink
  <2>5. TypeOK'
    BY <1>4, <2>3 DEF ReceiveResult, SourceStep, uplink, server, downlink
  <2>6. QED
    BY <2>4, <2>5
<1>5. CASE Timeout /\ SourceStep
  BY <1>5 DEF Timeout, SourceStep, uplink, server, downlink
<1>6. CASE ClientExit
  BY <1>6 DEF ClientExit, source, server
<1>7. CASE UpConnect
  BY <1>7 DEF UpConnect, source, downlink
<1>8. CASE MobileSend
  <2>1. Tail(sendQ) \in Seq(Item) /\ Append(upNet, Head(sendQ)) \in Seq(Item)
    BY <1>8, QueueTyped DEF MobileSend
  <2>2. Queues'
    BY <1>8, <2>1 DEF MobileSend, source, server, downlink
  <2>3. TypeOK'
    BY <1>8 DEF MobileSend, source, server, downlink
  <2>4. QED
    BY <2>2, <2>3
<1>9. CASE UpBreak
  BY <1>9 DEF UpBreak, source, server, downlink
<1>10. CASE Receive
  <2>1. upNet # << >> => Tail(upNet) \in Seq(Item) /\ Append(coreQ, Head(upNet)) \in Seq(Item)
    BY QueueTyped
  <2>2. Queues'
    BY <1>10, <2>1 DEF Receive, source, downlink
  <2>3. /\ receiver' \in {"ended", "data"} /\ shutdown' \in BOOLEAN /\ up' \in {up, "broken"}
    BY <1>10 DEF Receive, EndOfSession
  <2>4. UNCHANGED << source, client, sendQ, feedQ, mobileSender, main, terminated,
                     core, executor, resultQ, downlink >>
    BY <1>10 DEF Receive
  <2>5. TypeOK'
    BY <2>3, <2>4 DEF source, downlink
  <2>6. QED
    BY <2>2, <2>5
<1>11. CASE Compute
  <2>1. Head(coreQ) = Sync \/ Head(coreQ) \in Requests => Head(coreQ) \in Token
    BY DEF Token
  <2>2. /\ Tail(coreQ) \in Seq(Item)
        /\ Head(coreQ) \in Token => Append(resultQ, Head(coreQ)) \in Seq(Token \cup {Halt})
    BY <1>11, QueueTyped DEF Compute
  <2>3. Queues'
    BY <1>11, <2>1, <2>2 DEF Compute, source, uplink, server, downlink
  <2>4. TypeOK'
    BY <1>11 DEF Compute, source, uplink, server, downlink
  <2>5. QED
    BY <2>3, <2>4
<1>12. CASE CoreStop
  BY <1>12 DEF CoreStop, source, uplink, server, downlink
<1>13. CASE BeginShutdown
  BY <1>13 DEF BeginShutdown, Farewell, source, uplink, downlink
<1>14. CASE Terminate
  BY <1>14 DEF Terminate, Kill, Stuck, source, uplink
<1>15. CASE EndShutdown
  BY <1>15 DEF EndShutdown, source, uplink, downlink
<1>16. CASE DownConnect
  BY <1>16 DEF DownConnect, source, uplink, server
<1>17. CASE SendReady
  BY <1>17 DEF SendReady, AfterReadyFailed, source, uplink, server
<1>18. CASE SendResult
  <2> DEFINE item == IF pending # None THEN pending ELSE Head(resultQ)
  <2>1. item \in Token \cup {Halt} /\ (resultQ # << >> => Tail(resultQ) \in Seq(Token \cup {Halt}))
    BY <1>18, QueueTyped DEF SendResult, Token
  <2>2. item # Halt => Append(downNet, item) \in Seq(Token)
    BY <2>1, QueueTyped
  <2> HIDE DEF item
  <2>3. /\ resultQ' = resultQ \/ (resultQ' = Tail(resultQ) /\ resultQ # << >>)
        /\ downNet' = downNet \/ (downNet' = Append(downNet, item) /\ item # Halt)
        /\ pending' \in {pending, None} \/ (pending' = item /\ item # Halt)
        /\ lost' = lost \/ (lost' = lost \cup {item} /\ item # Halt)
        /\ sender' \in {sender, "stopped", "accept"} /\ down' \in {down, "broken"}
    <3>1. resultQ' = resultQ \/ (resultQ' = Tail(resultQ) /\ resultQ # << >>)
      BY <1>18 DEF SendResult
    <3>2. CASE item = Halt
      BY <1>18, <3>2 DEF SendResult, item
    <3>3. CASE item # Halt /\ down = "up"
      BY <1>18, <3>1, <3>3 DEF SendResult, AfterSent, item
    <3>4. CASE item # Halt /\ down # "up"
      BY <1>18, <3>1, <3>4 DEF SendResult, AfterSent, AfterSendFailed, item
    <3>5. QED
      BY <3>1, <3>2, <3>3, <3>4
  <2>4. UNCHANGED << source, client, sendQ, feedQ, uplink, server, core, executor, coreQ,
                     mobileReceiver, breaks >>
    BY <1>18 DEF SendResult
  <2>5. Queues'
    BY <2>1, <2>2, <2>3, <2>4 DEF source, uplink, server
  <2>6. TypeOK'
    BY <2>1, <2>3, <2>4 DEF source, uplink, server, Token
  <2>7. QED
    BY <2>5, <2>6
<1>19. CASE DownBreak
  BY <1>19 DEF DownBreak, source, uplink, server, Token
<1>20. CASE MobileReceive
  <2>1. downNet # << >> => Tail(downNet) \in Seq(Token) /\ Append(feedQ, Head(downNet)) \in Seq(Token)
    BY QueueTyped
  <2>2. Queues'
    BY <1>20, <2>1 DEF MobileReceive, source, uplink, server
  <2>3. TypeOK'
    BY <1>20 DEF MobileReceive, source, uplink, server
  <2>4. QED
    BY <2>2, <2>3
<1>21. CASE UNCHANGED vars
  BY <1>21 DEF vars, source, uplink, server, downlink
<1>22. QED
  BY Actions, <1>1, <1>2, <1>3, <1>4, <1>5, <1>6, <1>7, <1>8, <1>9, <1>10, <1>11, <1>12, <1>13,
     <1>14, <1>15, <1>16, <1>17, <1>18, <1>19, <1>20, <1>21 DEF SourceStep
-----------------------------------------------------------------------------
(* The token in flight.                                                     *)

(* Nothing the source waits for, nothing on the line.                       *)
LEMMA WithinNone ==
    ASSUME NEW line, Within(line, {})
    PROVE  Empty(line)
BY DEF Within, Empty, No

(* A line without tokens carries nothing, whatever is expected.             *)
LEMMA EmptyCarries ==
    ASSUME NEW line, Empty(line), NEW S
    PROVE  Carries(line, S)
BY DEF Empty, Carries, Alone, Within, One, No

(* When the source waits for nothing, nothing is in flight or lost.         *)
LEMMA NothingExpected ==
    ASSUME Flight, Expected = {}
    PROVE  Empty(Line) /\ lost = {}
BY WithinNone DEF Flight, Carries

(* A step that leaves the source alone, brings no token to the line and     *)
(* makes no decoder wait.                                                   *)
LEMMA Carried ==
    ASSUME Flight, Blocked, phase' = phase, request' = request, lost' = lost,
           core' = "blocked" => core = "blocked",
           "core" \in terminated' => core = "blocked" \/ "core" \in terminated,
           Carries(Line', Expected), Empty(Line) => Empty(Line')
    PROVE  Flight' /\ Blocked'
<1>1. Expected' = Expected /\ Waiting' = Waiting
  BY DEF Expected, Waiting
<1>2. Flight'
  BY <1>1 DEF Flight
<1>3. Blocked'
  BY <1>1 DEF Blocked
<1>4. QED
  BY <1>2, <1>3

(* Nothing is in flight at the start.                                       *)
LEMMA FlightInit == Init => Counted /\ Flight /\ Blocked
<1> SUFFICES ASSUME Init PROVE Counted /\ Flight /\ Blocked
  OBVIOUS
<1>1. \A k \in Places : Line[k] = << >>
  BY DEF Init, Line, Places, Retry, None
<1>2. \A k \in Places : No(Line[k]) /\ One(Line[k])
  BY <1>1, NoneThere
<1>3. \A k \in Places : \A i \in DOMAIN Line[k] : FALSE
  BY <1>1
<1>4. Carries(Line, Expected) /\ Empty(Line)
  BY <1>2, <1>3 DEF Carries, Alone, Within, Empty
<1>5. Counted
  BY DEF Init, Counted
<1>6. QED
  BY <1>4, <1>5 DEF Flight, Blocked, Init

(* The core takes an item off its queue: it answers it, drops it, or waits  *)
(* with it.                                                                 *)
LEMMA FlightCompute ==
    ASSUME TypeOK, Queues, Flight, Blocked, Compute
    PROVE  Flight' /\ Blocked'
<1>1. /\ Line \in Lines /\ Line[5] = coreQ /\ coreQ # << >> /\ Line[5] # << >>
      /\ 4 \in Places /\ 5 \in Places /\ 5 # 4
  BY LineTyped, LinePlaces DEF Compute, Places
<1>2. UNCHANGED << phase, request, lost, terminated >>
  BY DEF Compute, source, downlink, server
<1>3. Carries(Line, Expected)
  BY DEF Flight
<1>4. CASE resultQ' = Append(resultQ, Head(coreQ)) /\ core' = core
  <2>1. Line' = Move(Line, 5, 4)
    BY <1>4 DEF Move, Drop, Add, Compute, Line, Retry, uplink, downlink
  <2>2. Carries(Line', Expected) /\ (Empty(Line) => Empty(Line'))
    BY <1>1, <1>3, <2>1, LineMove
  <2>3. QED
    BY <1>2, <1>4, <2>2, Carried
<1>5. CASE resultQ' = resultQ
  <2>1. Line' = Drop(Line, 5)
    BY <1>5 DEF Drop, Compute, Line, Retry, uplink, downlink
  <2>2. /\ Carries(Line', Expected) /\ (Empty(Line) => Empty(Line'))
        /\ Head(coreQ) \in Token => Empty(Line') /\ Head(coreQ) \in Expected
    BY <1>1, <1>3, <2>1, LineDrop
  <2>3. CASE core' = core
    BY <1>2, <2>2, <2>3, Carried
  <2>4. CASE Head(coreQ) \in Requests
    <3>1. Empty(Line') /\ Waiting
      BY <2>2, <2>4, Items DEF Expected, Waiting
    <3>2. Expected' = Expected /\ Waiting' = Waiting
      BY <1>2 DEF Expected, Waiting
    <3>3. QED
      BY <1>2, <2>2, <3>1, <3>2 DEF Flight, Blocked
  <2>5. QED
    BY <2>3, <2>4 DEF Compute
<1>6. QED
  BY <1>4, <1>5 DEF Compute

(* The source sends only when nothing is in flight, and what it takes for   *)
(* a result is the one it waits for.                                        *)
LEMMA FlightSource ==
    ASSUME TypeOK, Queues, Counted, Flight, Blocked, SourceStep
    PROVE  Counted' /\ Flight' /\ Blocked'
<1>1. /\ Line \in Lines /\ Line[1] = feedQ /\ Line[7] = sendQ
      /\ 1 \in Places /\ 7 \in Places
  BY LineTyped, LinePlaces DEF Places
<1>2. UNCHANGED << lost, terminated, core, downNet, pending, resultQ, coreQ, upNet >>
  BY DEF SourceStep, downlink, server, uplink
<1>3. Carries(Line, Expected)
  BY DEF Flight
<1>4. CASE LoadDataset
  <2>1. Expected = {} /\ ~Waiting /\ UNCHANGED << feedQ, answers, request >> /\ phase = "load"
    BY <1>4 DEF LoadDataset, Expected, Waiting
  <2>2. Empty(Line) /\ lost = {}
    BY <2>1, NothingExpected
  <2>3. CASE Put(<< Config, Sync >>) /\ phase' = "sync"
    <3> DEFINE mid == Add(Line, 7, Config)
    <3>1. sendQ' = Append(Append(sendQ, Config), Sync)
      BY <2>3 DEF Put, Queues
    <3>2. Line' = Add(mid, 7, Sync)
      BY <1>2, <2>1, <3>1 DEF Line, Retry, Add
    <3>3. Empty(mid) /\ mid \in Lines
      BY <1>1, <2>2, Items, EmptyCarries, LineAdd
    <3>4. Carries(Line', {Sync})
      BY <1>1, <3>2, <3>3, Items, EmptyCarries, LineAdd
    <3>5. Expected' = {Sync}
      BY <2>3 DEF Expected
    <3>6. QED
      BY <1>2, <2>1, <2>2, <2>3, <3>4, <3>5 DEF Flight, Counted, Blocked
  <2>4. CASE Put(<< Error, Halt >>) /\ phase' = "failed"
    <3> DEFINE mid == Add(Line, 7, Error)
    <3>1. sendQ' = Append(Append(sendQ, Error), Halt)
      BY <2>4 DEF Put, Queues
    <3>2. Line' = Add(mid, 7, Halt)
      BY <1>2, <2>1, <3>1 DEF Line, Retry, Add
    <3>3. Empty(mid) /\ mid \in Lines
      BY <1>1, <2>2, Items, EmptyCarries, LineAdd
    <3>4. Carries(Line', {})
      BY <1>1, <3>2, <3>3, Items, EmptyCarries, LineAdd
    <3>5. Expected' = {}
      BY <2>4 DEF Expected, Waiting
    <3>6. QED
      BY <1>2, <2>1, <2>2, <2>4, <3>4, <3>5 DEF Flight, Counted, Blocked
  <2>5. QED
    BY <1>4, <2>3, <2>4 DEF LoadDataset
<1>5. CASE ReceiveTimeSync \/ ReceiveResult
  <2> DEFINE mid == Drop(Line, 1)
  <2>1. feedQ # << >> /\ feedQ' = Tail(feedQ) /\ Head(feedQ) \in Token
    BY <1>5 DEF ReceiveTimeSync, ReceiveResult, Queues
  <2>2. Empty(mid) /\ ~Empty(Line) /\ Head(feedQ) \in Expected
    BY <1>1, <1>3, <2>1, LineDrop
  <2>3. lost = {} /\ ~(core = "blocked" \/ "core" \in terminated)
    BY <2>2 DEF Flight, Blocked
  <2>4. CASE ReceiveTimeSync
    <3>1. Line' = mid
      BY <1>2, <2>1, <2>4 DEF ReceiveTimeSync, Line, Retry, Drop
    <3>2. Expected' = {} /\ phase = "sync"
      BY <2>4 DEF ReceiveTimeSync, Expected, Waiting
    <3>3. QED
      BY <1>2, <2>2, <2>3, <2>4, <3>1, <3>2, EmptyCarries
      DEF Flight, Blocked, Counted, ReceiveTimeSync
  <2>5. CASE ReceiveResult
    <3>1. Head(feedQ) = request
      BY <2>2, <2>5 DEF ReceiveResult, Expected, Waiting
    <3>2. Empty(Line')
      <4>1. CASE sendQ' = sendQ
        <5>1. Line' = mid
          BY <1>2, <2>1, <4>1 DEF Line, Retry, Drop
        <5>2. QED
          BY <2>2, <5>1
      <4>2. CASE sendQ' = Append(sendQ, Halt)
        <5>1. Line' = Add(mid, 7, Halt)
          BY <1>2, <2>1, <4>2 DEF Line, Retry, Drop, Add
        <5>2. mid \in Lines
          BY <1>1, <2>1, QueueTyped DEF Lines, Drop
        <5>3. QED
          BY <1>1, <2>2, <5>1, <5>2, Items, EmptyCarries, LineAdd
      <4>3. sendQ \o << Halt >> = Append(sendQ, Halt)
        BY DEF Queues
      <4>4. QED
        BY <2>5, <4>1, <4>2, <4>3 DEF ReceiveResult, Put
    <3>3. Expected' = {}
      BY <2>5 DEF ReceiveResult, Expected, Waiting
    <3>4. Counted'
      <4>1. Len(answers) = request - 1 /\ \A i \in DOMAIN answers : answers[i] = i
        BY <2>5 DEF ReceiveResult, Counted
      <4>2. answers' = Append(answers, request) /\ request \in Nat
        BY <2>5, <3>1, Items DEF ReceiveResult, TypeOK
      <4>3. /\ Len(answers') = request
            /\ \A i \in DOMAIN answers' : answers'[i] = i
        BY <4>1, <4>2 DEF Queues
      <4>4. QED
        BY <2>5, <4>2, <4>3 DEF ReceiveResult, Counted
    <3>5. Flight' /\ Blocked'
      BY <1>2, <2>3, <3>2, <3>3, EmptyCarries DEF Flight, Blocked
    <3>6. QED
      BY <3>4, <3>5
  <2>6. QED
    BY <1>5, <2>4, <2>5
<1>6. CASE SendRequest
  <2>1. /\ Expected = {} /\ ~Waiting /\ phase = "send" /\ phase' = "wait"
        /\ UNCHANGED << feedQ, answers, request >>
    BY <1>6 DEF SendRequest, Expected, Waiting
  <2>2. Empty(Line) /\ lost = {}
    BY <2>1, NothingExpected
  <2>3. sendQ' = Append(sendQ, request) /\ request \in Token
    BY <1>6, Items DEF SendRequest, Put, Queues, TypeOK
  <2>4. Line' = Add(Line, 7, request)
    BY <1>2, <2>1, <2>3 DEF Line, Retry, Add
  <2>5. Carries(Line', {request})
    BY <1>1, <2>2, <2>3, <2>4, Items, EmptyCarries, LineAdd
  <2>6. Expected' = {request}
    BY <2>1 DEF Expected, Waiting
  <2>7. QED
    BY <1>2, <2>1, <2>2, <2>5, <2>6 DEF Flight, Counted, Blocked
<1>7. CASE Timeout
  <2>1. UNCHANGED << request, answers, sendQ, feedQ >> /\ phase = "wait" /\ phase' = "timeout"
    BY <1>7 DEF Timeout
  <2>2. Line' = Line
    BY <1>2, <2>1 DEF Line, Retry
  <2>3. Expected' = Expected /\ Waiting' = Waiting
    BY <2>1 DEF Expected, Waiting
  <2>4. QED
    BY <1>2, <2>1, <2>2, <2>3 DEF Flight, Counted, Blocked
<1>8. QED
  BY <1>4, <1>5, <1>6, <1>7 DEF SourceStep

(* The sender moves a result to the link or to pending_result, or loses     *)
(* it.                                                                      *)
LEMMA FlightSendResult ==
    ASSUME TypeOK, Queues, Flight, Blocked, SendResult
    PROVE  Flight' /\ Blocked'
<1>1. /\ Line \in Lines /\ Line[2] = downNet /\ Line[3] = Retry /\ Line[4] = resultQ
      /\ 2 \in Places /\ 3 \in Places /\ 4 \in Places
  BY LineTyped, LinePlaces DEF Places
<1>2. /\ UNCHANGED << phase, request, terminated, core, feedQ, coreQ, upNet, sendQ >>
      /\ Expected' = Expected
  BY DEF SendResult, source, uplink, server, Expected, Waiting
<1>3. Carries(Line, Expected)
  BY DEF Flight
<1> DEFINE item == IF pending # None THEN pending ELSE Head(resultQ)
           place == IF pending # None THEN 3 ELSE 4
<1>4. /\ place \in Places /\ Line[place] # << >> /\ Head(Line[place]) = item
      /\ item \in Token \cup {Halt}
  <2>1. CASE pending # None
    <3>1. Retry = << pending >> /\ pending \in Token
      BY <2>1 DEF Retry, TypeOK, Token
    <3>2. /\ << pending >> # << >> /\ Head(<< pending >>) = pending
          /\ place = 3 /\ item = pending
      BY <2>1
    <3>3. QED
      BY <1>1, <3>1, <3>2
  <2>2. CASE pending = None
    BY <1>1, <2>2 DEF SendResult, Queues
  <2>3. QED
    BY <2>1, <2>2
<1>5. /\ Carries(Drop(Line, place), Expected)
      /\ Empty(Line) => Empty(Drop(Line, place))
      /\ item \in Token => Empty(Drop(Line, place)) /\ ~Empty(Line) /\ item \in Expected
  BY <1>1, <1>3, <1>4, LineDrop
<1>6. /\ resultQ' = IF pending # None THEN resultQ ELSE Tail(resultQ)
      /\ pending = None => Retry = << >>
      /\ pending # None => Retry = << pending >>
      /\ pending' = None => Retry' = << >>
      /\ pending' # None => Retry' = << pending' >>
  BY DEF SendResult, Retry
<1>7. CASE item = Halt
  <2>1. pending = None /\ pending' = None /\ downNet' = downNet /\ lost' = lost
    BY <1>7, Items DEF SendResult, TypeOK, Token
  <2>2. Line' = Drop(Line, place)
    BY <1>2, <1>6, <2>1 DEF Line, Drop
  <2>3. QED
    BY <1>2, <1>3, <1>5, <2>1, <2>2, Carried
<1>8. CASE item # Halt /\ down = "up"
  <2>1. pending' = None /\ downNet' = Append(downNet, item) /\ lost' = lost
    BY <1>8 DEF SendResult, AfterSent
  <2>2. Line' = Move(Line, place, 2)
    <3>1. CASE pending = None
      BY <1>2, <1>6, <2>1, <3>1 DEF Line, Move, Drop, Add
    <3>2. CASE pending # None
      <4>1. /\ Head(<< pending >>) = pending /\ Tail(<< pending >>) = << >>
            /\ Retry = << pending >> /\ Retry' = << >> /\ downNet' = Append(downNet, pending)
            /\ resultQ' = resultQ
        BY <1>6, <2>1, <3>2
      <4>2. Line' = Move(Line, 3, 2)
        BY <1>2, <4>1 DEF Line, Move, Drop, Add
      <4>3. QED
        BY <3>2, <4>2
    <3>3. QED
      BY <3>1, <3>2
  <2>3. Carries(Line', Expected) /\ (Empty(Line) => Empty(Line'))
    BY <1>1, <1>3, <1>4, <2>2, LineMove
  <2>4. QED
    BY <1>2, <2>1, <2>3, Carried
<1>9. CASE item # Halt /\ pending' = item /\ lost' = lost /\ downNet' = downNet
  <2>1. item # None
    BY <1>4, <1>9, Items
  <2>2. CASE pending # None
    <3>1. Line' = Line
      BY <1>2, <1>6, <1>9, <2>1, <2>2 DEF Line
    <3>2. QED
      BY <1>2, <1>3, <1>9, <3>1, Carried
  <2>3. CASE pending = None
    <3>1. Line' = Move(Line, 4, 3)
      BY <1>2, <1>6, <1>9, <2>1, <2>3 DEF Line, Move, Drop, Add
    <3>2. Carries(Line', Expected) /\ (Empty(Line) => Empty(Line'))
      BY <1>1, <1>3, <1>4, <2>3, <3>1, LineMove
    <3>3. QED
      BY <1>2, <1>9, <3>2, Carried
  <2>4. QED
    BY <2>2, <2>3
<1>10. CASE item # Halt /\ pending' = None /\ lost' = lost \cup {item} /\ downNet' = downNet
  <2>1. item \in Token
    BY <1>4, <1>10
  <2>2. Line' = Drop(Line, place)
    <3>1. CASE pending = None
      BY <1>2, <1>6, <1>10, <3>1 DEF Line, Drop
    <3>2. CASE pending # None
      <4>1. /\ Tail(<< pending >>) = << >> /\ Retry = << pending >> /\ Retry' = << >>
            /\ resultQ' = resultQ
        BY <1>6, <1>10, <3>2
      <4>2. Line' = Drop(Line, 3)
        BY <1>2, <1>10, <4>1 DEF Line, Drop
      <4>3. QED
        BY <3>2, <4>2
    <3>3. QED
      BY <3>1, <3>2
  <2>3. Empty(Line') /\ Carries(Line', Expected) /\ ~Empty(Line) /\ item \in Expected
    BY <1>5, <2>1, <2>2
  <2>4. QED
    BY <1>2, <1>10, <2>3 DEF Flight, Blocked
<1>11. QED
  BY <1>7, <1>8, <1>9, <1>10 DEF SendResult, AfterSent, AfterSendFailed

(* Every step keeps the line in order.                                      *)
LEMMA FlightNext ==
    ASSUME TypeOK, Queues, Counted, Flight, Blocked, Drained, Next
    PROVE  Counted' /\ Flight' /\ Blocked'
<1>1. CASE SourceStep
  BY <1>1, FlightSource
<1> SUFFICES ASSUME ~SourceStep PROVE Flight' /\ Blocked' /\ UNCHANGED source
  BY <1>1 DEF Counted, source
<1>2. Line \in Lines /\ DOMAIN Line = Places
      /\ Line[1] = feedQ /\ Line[2] = downNet /\ Line[5] = coreQ /\ Line[6] = upNet /\ Line[7] = sendQ
      /\ 1 \in Places /\ 2 \in Places /\ 4 \in Places /\ 5 \in Places /\ 6 \in Places /\ 7 \in Places
  BY LineTyped, LinePlaces DEF Places
<1>3. Carries(Line, Expected)
  BY DEF Flight
<1>4. CASE ClientExit
  <2>1. UNCHANGED << phase, request, lost, terminated, core >> /\ UNCHANGED source
    BY <1>4 DEF ClientExit, source, server
  <2>2. Line' = Cut(Line, 7, 0)
    <3>1. SubSeq(sendQ, 1, 0) = << >>
      BY DEF Queues
    <3>2. QED
      BY <1>4, <3>1 DEF ClientExit, Line, Retry, Cut
  <2>3. Carries(Line', Expected) /\ (Empty(Line) => Empty(Line'))
    <3>1. 0 \in 0..Len(Line[7])
      BY <1>2 DEF Queues
    <3>2. QED
      BY <1>2, <1>3, <2>2, <3>1, LineCut
  <2>4. QED
    BY <2>1, <2>3, Carried
<1>5. CASE MobileSend
  <2>1. UNCHANGED << phase, request, lost, terminated, core >> /\ UNCHANGED source
    BY <1>5 DEF MobileSend, source, server, downlink
  <2>2. sendQ # << >>
    BY <1>5 DEF MobileSend
  <2>3. Line' = Move(Line, 7, 6) \/ Line' = Drop(Line, 7)
    <3>1. CASE up = "up"
      <4>1. /\ sendQ' = Tail(sendQ) /\ upNet' = Append(upNet, Head(sendQ))
            /\ UNCHANGED << feedQ, downNet, Retry, resultQ, coreQ >>
        BY <1>5, <3>1 DEF MobileSend, Retry, downlink
      <4>2. Line' = Move(Line, 7, 6)
        BY <4>1 DEF Line, Move, Drop, Add
      <4>3. QED
        BY <4>2
    <3>2. CASE up # "up"
      <4>1. Line' = Drop(Line, 7)
        BY <1>5, <3>2 DEF MobileSend, Line, Retry, downlink, Drop
      <4>2. QED
        BY <4>1
    <3>3. QED
      BY <3>1, <3>2
  <2>4. Carries(Line', Expected) /\ (Empty(Line) => Empty(Line'))
    BY <1>2, <1>3, <2>2, <2>3, LineMove, LineDrop
  <2>5. QED
    BY <2>1, <2>4, Carried
<1>6. CASE UpBreak
  <2>1. UNCHANGED << phase, request, lost, terminated, core >> /\ UNCHANGED source
    BY <1>6 DEF UpBreak, source, server, downlink
  <2>2. PICK n \in 0..Len(upNet) : upNet' = SubSeq(upNet, 1, n)
    BY <1>6 DEF UpBreak
  <2>3. Line' = Cut(Line, 6, n)
    BY <1>6, <2>2 DEF UpBreak, Line, Retry, downlink, Cut
  <2>4. Carries(Line', Expected) /\ (Empty(Line) => Empty(Line'))
    BY <1>2, <1>3, <2>3, LineCut
  <2>5. QED
    BY <2>1, <2>4, Carried
<1>7. CASE Receive
  <2>1. UNCHANGED << phase, request, lost, terminated, core >> /\ UNCHANGED source
    BY <1>7 DEF Receive, source, downlink
  <2>2. Line' = Line \/ (upNet # << >> /\ (Line' = Move(Line, 6, 5) \/ Line' = Drop(Line, 6)))
    <3>1. UNCHANGED << feedQ, downNet, Retry, resultQ, sendQ >>
      BY <1>7 DEF Receive, Retry, downlink
    <3>2. CASE upNet = << >>
      BY <1>7, <3>1, <3>2 DEF Receive, Line
    <3>3. CASE upNet # << >> /\ coreQ' = coreQ
      <4>1. Line' = Drop(Line, 6)
        BY <1>7, <3>1, <3>3 DEF Receive, Line, Drop
      <4>2. QED
        BY <3>3, <4>1
    <3>4. CASE upNet # << >> /\ coreQ' = Append(coreQ, Head(upNet))
      <4>1. upNet' = Tail(upNet)
        BY <1>7, <3>4 DEF Receive
      <4>2. Line' = Move(Line, 6, 5)
        BY <3>1, <3>4, <4>1 DEF Line, Move, Drop, Add
      <4>3. QED
        BY <3>4, <4>2
    <3>5. QED
      BY <1>7, <3>2, <3>3, <3>4 DEF Receive
  <2>3. Carries(Line', Expected) /\ (Empty(Line) => Empty(Line'))
    BY <1>2, <1>3, <2>2, LineMove, LineDrop
  <2>4. QED
    BY <2>1, <2>3, Carried
<1>8. CASE BeginShutdown
  <2>1. UNCHANGED << phase, request, lost, terminated, core >> /\ UNCHANGED source
    BY <1>8 DEF BeginShutdown, source, downlink
  <2>2. Line' = Add(Line, 4, Halt)
    BY <1>8 DEF BeginShutdown, Farewell, Line, Retry, uplink, downlink, Add
  <2>3. Carries(Line', Expected) /\ (Empty(Line) => Empty(Line'))
    BY <1>2, <1>3, <2>2, Items, LineAdd
  <2>4. QED
    BY <2>1, <2>3, Carried
<1>9. CASE DownBreak
  <2>1. UNCHANGED << phase, request, terminated, core >> /\ UNCHANGED source
    BY <1>9 DEF DownBreak, source, server
  <2>2. PICK n \in 0..Len(downNet) :
           /\ downNet' = SubSeq(downNet, 1, n)
           /\ lost' = lost \cup {downNet[i] : i \in n + 1 .. Len(downNet)}
    BY <1>9 DEF DownBreak
  <2>3. Line' = Cut(Line, 2, n)
    BY <1>9, <2>2 DEF DownBreak, Line, Retry, uplink, Cut
  <2>4. Carries(Line', Expected) /\ (Empty(Line) => Empty(Line'))
    BY <1>2, <1>3, <2>3, LineCut
  <2>5. CASE lost' = lost
    BY <2>1, <2>4, <2>5, Carried
  <2>6. CASE lost' # lost
    <3>1. PICK i \in n + 1 .. Len(downNet) : TRUE
      BY <2>2, <2>6
    <3>2. i \in DOMAIN downNet /\ downNet[i] \in Token
      BY DEF Queues
    <3>3. /\ One(downNet) /\ \A k \in Places : k # 2 => No(Line[k])
          /\ \A m \in DOMAIN downNet : downNet[m] \in Expected
      <4>1. /\ \A k \in Places : One(Line[k])
            /\ \A j, k \in Places : No(Line[j]) \/ No(Line[k]) \/ j = k
            /\ \A m \in DOMAIN downNet : downNet[m] \in Token => downNet[m] \in Expected
        BY <1>2, <1>3 DEF Carries, Alone, Within
      <4>2. ~No(downNet)
        BY <3>2 DEF No
      <4>3. \A m \in DOMAIN downNet : downNet[m] \in Token
        BY DEF Queues
      <4>4. QED
        BY <1>2, <4>1, <4>2, <4>3
    <3>4. \A m \in DOMAIN downNet : m = i
      BY <3>2, <3>3 DEF One, Queues
    <3>5. n = 0
      <4>1. 1 \in DOMAIN downNet /\ n + 1 <= i /\ n \in Nat /\ i \in Nat
        BY <3>2 DEF Queues
      <4>2. QED
        BY <3>4, <4>1
    <3>6. downNet' = << >>
      BY <2>2, <3>5 DEF Queues
    <3>7. Empty(Line')
      BY <1>2, <2>3, <2>2, <3>3, <3>6, NoneThere DEF Empty, Cut
    <3>8. lost' \subseteq Expected
      <4>1. \A m \in n + 1 .. Len(downNet) : m \in DOMAIN downNet
        BY DEF Queues
      <4>2. QED
        BY <2>2, <3>3, <4>1 DEF Flight
    <3>9. ~Empty(Line) /\ Expected' = Expected
      BY <1>2, <2>1, <3>2 DEF Empty, No, Expected, Waiting
    <3>10. QED
      BY <2>1, <2>4, <3>7, <3>8, <3>9 DEF Flight, Blocked
  <2>7. QED
    BY <2>1, <2>5, <2>6
<1>10. CASE MobileReceive
  <2>1. UNCHANGED << phase, request, lost, terminated, core >> /\ UNCHANGED source
    BY <1>10 DEF MobileReceive, source, server
  <2>2. Line' = Line \/ (downNet # << >> /\ Line' = Move(Line, 2, 1))
    <3>1. CASE downNet = << >>
      BY <1>10, <3>1 DEF MobileReceive, Line, Retry, uplink
    <3>2. CASE downNet # << >>
      <4>1. /\ downNet' = Tail(downNet) /\ feedQ' = Append(feedQ, Head(downNet))
            /\ UNCHANGED << Retry, resultQ, coreQ, upNet, sendQ >>
        BY <1>10, <3>2 DEF MobileReceive, Retry, uplink
      <4>2. Line' = Move(Line, 2, 1)
        BY <4>1 DEF Line, Move, Drop, Add
      <4>3. QED
        BY <3>2, <4>2
    <3>3. QED
      BY <3>1, <3>2
  <2>3. Carries(Line', Expected) /\ (Empty(Line) => Empty(Line'))
    BY <1>2, <1>3, <2>2, LineMove
  <2>4. QED
    BY <2>1, <2>3, Carried
<1>11. CASE DownConnect
  <2>1. UNCHANGED << phase, request, lost, terminated, core >> /\ UNCHANGED source
    BY <1>11 DEF DownConnect, source, server
  <2>2. Line' = Line
    BY <1>11 DEF DownConnect, Line, Retry, uplink, Drained
  <2>3. QED
    BY <1>3, <2>1, <2>2, Carried
<1>12. CASE UpConnect \/ CoreStop \/ Terminate \/ EndShutdown \/ SendReady \/ UNCHANGED vars
  <2>1. UNCHANGED << phase, request, lost >> /\ UNCHANGED source
    BY <1>12 DEF UpConnect, CoreStop, Terminate, EndShutdown, SendReady, vars, source, downlink
  <2>2. Line' = Line
    BY <1>12 DEF UpConnect, CoreStop, Terminate, EndShutdown, SendReady, AfterReadyFailed, vars,
                 Line, Retry, uplink, downlink
  <2>3. /\ core' = "blocked" => core = "blocked"
        /\ "core" \in terminated' => core = "blocked" \/ "core" \in terminated
    BY <1>12 DEF UpConnect, CoreStop, Terminate, Kill, Stuck, EndShutdown, SendReady, vars,
                 server
  <2>4. QED
    BY <1>3, <2>1, <2>2, <2>3, Carried
<1>13. CASE Compute
  BY <1>13, FlightCompute DEF Compute
<1>14. CASE SendResult
  BY <1>14, FlightSendResult DEF SendResult
<1>15. QED
  BY Actions, <1>4, <1>5, <1>6, <1>7, <1>8, <1>9, <1>10, <1>11, <1>12, <1>13, <1>14
-----------------------------------------------------------------------------
(* The connections.                                                         *)
LEMMA DrainedNext == ASSUME Drained, Next PROVE Drained'
<1>1. CASE SourceStep
  BY <1>1 DEF SourceStep, downlink, Drained
<1>2. CASE MobileReceive
  BY <1>2 DEF MobileReceive, Drained
<1>3. CASE DownConnect \/ ClientExit
  BY <1>3 DEF DownConnect, ClientExit, Drained
<1>4. CASE SendResult
  BY <1>4 DEF SendResult, Drained
<1>5. CASE DownBreak
  BY <1>5 DEF DownBreak, Drained
<1>6. CASE Terminate \/ SendReady
  BY <1>6 DEF Terminate, SendReady, Drained
<1>7. CASE UpConnect \/ MobileSend \/ UpBreak \/ Receive \/ Compute \/ CoreStop
           \/ BeginShutdown \/ EndShutdown \/ UNCHANGED vars
  BY <1>7 DEF UpConnect, MobileSend, UpBreak, Receive, Compute, CoreStop, BeginShutdown,
              EndShutdown, vars, downlink, Drained
<1>8. QED
  BY Actions, <1>1, <1>2, <1>3, <1>4, <1>5, <1>6, <1>7

(* A STOP stays in the queue of results until the sender takes it.          *)
LEMMA ToldNext == ASSUME Queues, Told, Next PROVE Told'
<1>1. CASE BeginShutdown
  <2>1. resultQ' = Append(resultQ, Halt)
    BY <1>1 DEF BeginShutdown, Farewell
  <2>2. Len(resultQ) + 1 \in DOMAIN resultQ' /\ resultQ'[Len(resultQ) + 1] = Halt
    BY <2>1 DEF Queues
  <2>3. QED
    BY <2>2 DEF Told
<1>2. CASE Compute
  <2>1. UNCHANGED << main, sender >>
    BY <1>2 DEF Compute, server, downlink
  <2>2. CASE resultQ' = resultQ
    BY <2>1, <2>2 DEF Told
  <2>3. CASE resultQ' = Append(resultQ, Head(coreQ))
    <3>1. \A i \in DOMAIN resultQ : i \in DOMAIN resultQ' /\ resultQ'[i] = resultQ[i]
      BY <2>3 DEF Queues
    <3>2. QED
      BY <2>1, <3>1 DEF Told
  <2>4. QED
    BY <1>2, <2>2, <2>3 DEF Compute
<1>3. CASE SendResult
  <2>1. main' = main /\ sender = "send"
    BY <1>3 DEF SendResult, server
  <2>2. CASE pending # None
    BY <1>3, <2>1, <2>2 DEF SendResult, Told
  <2>3. CASE pending = None
    <3>1. resultQ # << >> /\ resultQ' = Tail(resultQ) /\ (Head(resultQ) = Halt => sender' = "stopped")
      BY <1>3, <2>3 DEF SendResult
    <3>2. \A i \in DOMAIN resultQ : i # 1 =>
             i - 1 \in DOMAIN Tail(resultQ) /\ Tail(resultQ)[i - 1] = resultQ[i]
      BY <3>1 DEF Queues
    <3>3. Head(resultQ) = resultQ[1]
      BY <3>1 DEF Queues
    <3>4. QED
      BY <2>1, <3>1, <3>2, <3>3 DEF Told
  <2>4. QED
    BY <2>2, <2>3
<1>4. CASE Terminate
  BY <1>4 DEF Terminate, Kill, Told
<1>5. CASE SendReady
  BY <1>5 DEF SendReady, server, Told
<1>6. CASE EndShutdown
  BY <1>6 DEF EndShutdown, downlink, Told
<1>7. CASE DownConnect
  BY <1>7 DEF DownConnect, server, Told
<1>8. CASE SourceStep \/ ClientExit \/ UpConnect \/ MobileSend \/ UpBreak \/ Receive
           \/ CoreStop \/ DownBreak \/ MobileReceive \/ UNCHANGED vars
  BY <1>8 DEF SourceStep, ClientExit, UpConnect, MobileSend, UpBreak, Receive, CoreStop,
              DownBreak, MobileReceive, vars, server, downlink, Told
<1>9. QED
  BY Actions, <1>1, <1>2, <1>3, <1>4, <1>5, <1>6, <1>7, <1>8

(* An item the sender could not send is still expected: the client has not  *)
(* finished.                                                                *)
LEMMA UnsentExpected ==
    ASSUME TypeOK, Queues, Flight, SendResult, sender' = "accept"
    PROVE  phase # "done" /\ down # "up"
<1>1. CASE pending # None
  <2>1. Line[3] = << pending >> /\ 3 \in Places /\ pending \in Token
    BY <1>1, LinePlaces DEF Retry, TypeOK, Token, Places
  <2>2. ~Empty(Line)
    BY <2>1 DEF Empty, No
  <2>3. QED
    BY <1>1, <2>2, NothingExpected, Items
    DEF SendResult, AfterSent, AfterSendFailed, Expected, Waiting
<1>2. CASE pending = None
  <2>1. resultQ # << >> /\ Head(resultQ) # Halt /\ down # "up"
    BY <1>2 DEF SendResult, AfterSent, AfterSendFailed
  <2>2. 1 \in DOMAIN resultQ /\ resultQ[1] \in Token
    BY <2>1 DEF Queues
  <2>3. Line[4] = resultQ /\ 4 \in Places
    BY LinePlaces DEF Places
  <2>4. ~Empty(Line)
    BY <2>2, <2>3 DEF Empty, No
  <2>5. QED
    BY <2>1, <2>4, NothingExpected DEF Expected, Waiting
<1>3. QED
  BY <1>1, <1>2

(* While the downlink has not broken, only a client that exits unfinished   *)
(* costs a sender its connection.                                           *)
LEMMA ConnectedNext ==
    ASSUME TypeOK, Queues, Flight, Connected, Told, Next
    PROVE  Connected'
<1>1. CASE SourceStep
  <2>1. UNCHANGED << client, terminated, sender, breaks, down, downNet >> /\ client = "running"
    BY <1>1 DEF SourceStep, server, downlink
  <2>2. NeverSent => NeverSent'
    BY <1>1, <2>1 DEF SourceStep, LoadDataset, ReceiveTimeSync, SendRequest, ReceiveResult, Timeout,
                      NeverSent
  <2>3. QED
    BY <2>1, <2>2 DEF Connected
<1>2. CASE ClientExit
  <2>1. UNCHANGED << phase, terminated, sender, breaks, downNet, feedQ >> /\ client' = "exited"
    BY <1>2 DEF ClientExit, source, server
  <2>2. QED
    BY <2>1 DEF Connected, NeverSent
<1>3. CASE DownConnect
  <2>1. UNCHANGED << phase, client, terminated, breaks, feedQ >>
        /\ sender = "accept" /\ sender' = "ready" /\ down' = "up" /\ downNet' = << >>
    BY <1>3 DEF DownConnect, source, server
  <2>2. QED
    BY <2>1 DEF Connected, NeverSent
<1>4. CASE SendReady
  <2>1. UNCHANGED << phase, client, terminated, breaks, feedQ, down, downNet >>
        /\ sender = "ready" /\ sender' \in {"send", "accept"}
    BY <1>4 DEF SendReady, AfterReadyFailed, source, server
  <2>2. QED
    BY <2>1 DEF Connected, NeverSent
<1>5. CASE SendResult
  <2>1. UNCHANGED << phase, client, terminated, breaks, feedQ >>
        /\ sender = "send" /\ sender' \in {"send", "accept", "stopped"}
        /\ (sender' # "stopped" => down' = down)
    BY <1>5 DEF SendResult, AfterSent, AfterSendFailed, source, server
  <2>2. sender' = "accept" => phase # "done" /\ down # "up"
    BY <1>5, UnsentExpected
  <2>3. QED
    BY <2>1, <2>2 DEF Connected, TypeOK
<1>6. CASE Terminate
  <2>1. UNCHANGED << phase, client, breaks, feedQ, downNet, down >> /\ main = "stopping"
    BY <1>6 DEF Terminate, source
  <2>2. "sender" \in Stuck => sender = "accept"
    BY <2>1 DEF Stuck, Told
  <2>3. terminated' = terminated \cup Stuck
        /\ sender' = IF "sender" \in Stuck THEN "stopped" ELSE sender
    BY <1>6 DEF Terminate, Kill
  <2>4. QED
    BY <2>1, <2>2, <2>3 DEF Connected, NeverSent
<1>7. CASE DownBreak
  <2>1. breaks' # 0 /\ UNCHANGED << terminated, sender >>
    BY <1>7 DEF DownBreak, server, TypeOK
  <2>2. QED
    BY <2>1 DEF Connected
<1>8. CASE MobileReceive
  <2>1. UNCHANGED << phase, client, terminated, breaks, sender, down >>
    BY <1>8 DEF MobileReceive, source, server
  <2>2. NeverSent => NeverSent'
    BY <1>8, <2>1 DEF MobileReceive, NeverSent
  <2>3. QED
    BY <2>1, <2>2 DEF Connected
<1>9. CASE UpConnect \/ MobileSend \/ UpBreak \/ Receive \/ Compute \/ CoreStop
           \/ BeginShutdown \/ EndShutdown \/ UNCHANGED vars
  <2>1. UNCHANGED << phase, client, terminated, breaks, sender, down, downNet, feedQ >>
    BY <1>9 DEF UpConnect, MobileSend, UpBreak, Receive, Compute, CoreStop, BeginShutdown,
                EndShutdown, vars, source, server, downlink
  <2>2. QED
    BY <2>1 DEF Connected, NeverSent
<1>10. QED
  BY Actions, <1>1, <1>2, <1>3, <1>4, <1>5, <1>6, <1>7, <1>8, <1>9

-----------------------------------------------------------------------------
(* The invariant holds initially ...                                        *)
LEMMA IInvInit == Init => IInv
<1> SUFFICES ASSUME Init PROVE IInv
  OBVIOUS
<1>1. Drained /\ Connected /\ Told
  BY DEF Init, Drained, Connected, NeverSent, Told
<1>2. QED
  BY <1>1, TypeInit, FlightInit DEF IInv

(* ... every step keeps it ...                                              *)
LEMMA IInvNext == IInv /\ [Next]_vars => IInv'
<1> SUFFICES ASSUME IInv, [Next]_vars PROVE IInv'
  OBVIOUS
<1>1. Next \/ UNCHANGED vars
  OBVIOUS
<1>2. CASE Next
  BY <1>2, TypeNext, FlightNext, DrainedNext, ToldNext, ConnectedNext DEF IInv
<1>3. CASE UNCHANGED vars
  BY <1>3 DEF vars, source, uplink, server, downlink, IInv, TypeOK, Queues, Counted, Flight,
              Expected, Waiting, Line, Retry, Blocked, Drained, Connected, NeverSent, Told
<1>4. QED
  BY <1>1, <1>2, <1>3

(* ... and so it holds throughout.                                          *)
LEMMA Invariance == Spec => []IInv
BY IInvInit, IInvNext, PTL DEF Spec

(* Every variable of the processes around the pipeline keeps its type.      *)
THEOREM SessionTypeOK == Spec => []TypeOK
<1>1. IInv => TypeOK
  BY DEF IInv
<1>2. QED
  BY <1>1, Invariance, PTL

(* Whatever the links and the processes do, for any number of requests and  *)
(* of breaks, what the source takes for the result of its i-th request is   *)
(* that result.                                                             *)
THEOREM SessionAnswersInOrder == Spec => []AnswersInOrder
<1>1. IInv => AnswersInOrder
  <2> SUFFICES ASSUME IInv PROVE AnswersInOrder
    OBVIOUS
  <2>1. answers \in Seq(Token) /\ \A i \in DOMAIN answers : answers[i] = i
    BY DEF IInv, Queues, Counted
  <2>2. answers = [i \in 1..Len(answers) |-> i]
    BY <2>1
  <2>3. QED
    BY <2>2 DEF IInv, Counted, AnswersInOrder
<1>2. QED
  BY <1>1, Invariance, PTL

(* A client that finished over a downlink that held finds the server's      *)
(* processes ending by themselves: main.py terminates none of them.         *)
THEOREM SessionGracefulStop == Spec => []GracefulStop
<1>1. IInv => GracefulStop
  <2> SUFFICES ASSUME IInv, main = "stopped", phase = "done", breaks = 0
               PROVE  terminated = {}
    BY DEF GracefulStop
  <2>1. "core" \notin terminated
    BY DEF IInv, Blocked, Waiting
  <2>2. "sender" \notin terminated
    BY DEF IInv, Connected, NeverSent
  <2>3. terminated \subseteq {"core", "sender"}
    BY DEF IInv, TypeOK
  <2>4. QED
    BY <2>1, <2>2, <2>3
<1>2. QED
  BY <1>1, Invariance, PTL
-----------------------------------------------------------------------------
(* Where results are.                                                       *)
(* What is in a queue.                                                     *)
Elems(q) == {q[i] : i \in DOMAIN q}

(* What is in a queue, before and after its first item is taken ...         *)
LEMMA ElemsTaken ==
    ASSUME NEW S, NEW q \in Seq(S), q # << >>
    PROVE  Elems(q) = Elems(Tail(q)) \cup {Head(q)}
<1>1. /\ Head(q) = q[1] /\ 1 \in DOMAIN q
      /\ \A i \in DOMAIN Tail(q) : i + 1 \in DOMAIN q /\ Tail(q)[i] = q[i + 1]
      /\ \A i \in DOMAIN q : i # 1 => i - 1 \in DOMAIN Tail(q) /\ Tail(q)[i - 1] = q[i]
  OBVIOUS
<1>2. Elems(q) \subseteq Elems(Tail(q)) \cup {Head(q)}
  BY <1>1 DEF Elems
<1>3. Elems(Tail(q)) \cup {Head(q)} \subseteq Elems(q)
  BY <1>1 DEF Elems
<1>4. QED
  BY <1>2, <1>3

(* ... an item is added ...                                                 *)
LEMMA ElemsAdded ==
    ASSUME NEW S, NEW q \in Seq(S), NEW x
    PROVE  Elems(Append(q, x)) = Elems(q) \cup {x}
<1>1. /\ Len(q) + 1 \in DOMAIN Append(q, x) /\ Append(q, x)[Len(q) + 1] = x
      /\ \A i \in DOMAIN q : i \in DOMAIN Append(q, x) /\ Append(q, x)[i] = q[i]
      /\ \A i \in DOMAIN Append(q, x) : i \in DOMAIN q \/ i = Len(q) + 1
  OBVIOUS
<1>2. QED
  BY <1>1 DEF Elems

(* ... and its last items are lost.                                         *)
LEMMA ElemsCut ==
    ASSUME NEW S, NEW q \in Seq(S), NEW n \in 0..Len(q)
    PROVE  Elems(q) = Elems(SubSeq(q, 1, n)) \cup {q[i] : i \in n + 1 .. Len(q)}
<1>1. /\ \A i \in DOMAIN SubSeq(q, 1, n) : i \in DOMAIN q /\ SubSeq(q, 1, n)[i] = q[i]
      /\ \A i \in DOMAIN q : i \in DOMAIN SubSeq(q, 1, n) \/ i \in n + 1 .. Len(q)
      /\ \A i \in n + 1 .. Len(q) : i \in DOMAIN q
  OBVIOUS
<1>2. QED
  BY <1>1 DEF Elems

All == Elems(resultQ) \cup Elems(downNet) \cup Elems(feedQ) \cup Elems(answers)
       \cup {pending} \cup lost

Queued == UNION {{q[i] : i \in DOMAIN q} : q \in {resultQ, downNet, feedQ, answers}}

(* Whereabouts, queue by queue.                                             *)
LEMMA WhereaboutsIs ==
    /\ Whereabouts = Requests \cap All
    /\ Whereabouts' = Requests \cap All'
<1>1. Whereabouts = Requests \cap (Queued \cup {pending} \cup lost)
  BY DEF Whereabouts, Queued
<1>2. Whereabouts' = Requests \cap (Queued' \cup {pending'} \cup lost')
  BY DEF Whereabouts, Queued
<1>3. Queued \cup {pending} \cup lost = All
  <2>1. ASSUME NEW x
        PROVE  x \in Queued <=>
                  \E q \in {resultQ, downNet, feedQ, answers} : \E i \in DOMAIN q : x = q[i]
    BY DEF Queued
  <2>2. Queued = Elems(resultQ) \cup Elems(downNet) \cup Elems(feedQ) \cup Elems(answers)
    BY <2>1 DEF Elems
  <2>3. QED
    BY <2>2 DEF All
<1>4. (Queued \cup {pending} \cup lost)' = All'
  <2>1. ASSUME NEW x
        PROVE  x \in Queued' <=>
                  \E q \in {resultQ, downNet, feedQ, answers}' : \E i \in DOMAIN q : x = q[i]
    BY DEF Queued
  <2>2. Queued' = Elems(resultQ') \cup Elems(downNet') \cup Elems(feedQ') \cup Elems(answers')
    BY <2>1 DEF Elems
  <2>3. QED
    BY <2>2 DEF All
<1>5. QED
  BY <1>1, <1>2, <1>3, <1>4

(* Results are where they were after every step but one that computes what  *)
(* the source waits for.                                                    *)
LEMMA WhereaboutsNext ==
    ASSUME IInv, Next
    PROVE  \/ Whereabouts' = Whereabouts
           \/ Compute /\ Waiting /\ Whereabouts' = Whereabouts \cup {request}
<1> USE DEF All
<1>1. Whereabouts = Requests \cap All /\ Whereabouts' = Requests \cap All'
  BY WhereaboutsIs
<1>2. TypeOK /\ Queues /\ Carries(Line, Expected) /\ Line \in Lines
  BY LineTyped DEF IInv, Flight
<1>3. CASE ((LoadDataset \/ SendRequest \/ Timeout) /\ SourceStep)
           \/ ClientExit \/ UpConnect \/ MobileSend \/ UpBreak \/ Receive \/ CoreStop
           \/ Terminate \/ EndShutdown \/ UNCHANGED vars
  <2>1. UNCHANGED << resultQ, downNet, feedQ, answers, pending, lost >>
    BY <1>3 DEF LoadDataset, SendRequest, Timeout, SourceStep, ClientExit, UpConnect, MobileSend,
                UpBreak, Receive, CoreStop, Terminate, EndShutdown, vars, source, uplink, server,
                downlink
  <2>2. QED
    BY <1>1, <2>1
<1>4. CASE ReceiveTimeSync /\ SourceStep
  <2>1. UNCHANGED << resultQ, downNet, answers, pending, lost >>
        /\ feedQ # << >> /\ feedQ' = Tail(feedQ) /\ phase = "sync"
    BY <1>4 DEF ReceiveTimeSync, SourceStep, downlink
  <2>2. Elems(feedQ) = Elems(feedQ') \cup {Head(feedQ)}
    BY <1>2, <2>1, ElemsTaken DEF Queues
  <2>3. Head(feedQ) = Sync
    <3>1. Head(feedQ) \in Token /\ Line[1] = feedQ /\ 1 \in Places
      BY <1>2, <2>1, LinePlaces DEF Queues, Places
    <3>2. Head(feedQ) \in Expected
      BY <1>2, <2>1, <3>1, LineDrop
    <3>3. QED
      BY <2>1, <3>2 DEF Expected
  <2>4. QED
    BY <1>1, <2>1, <2>2, <2>3, Items
<1>5. CASE ReceiveResult /\ SourceStep
  <2>1. UNCHANGED << resultQ, downNet, pending, lost >>
        /\ feedQ # << >> /\ feedQ' = Tail(feedQ) /\ answers' = Append(answers, Head(feedQ))
    BY <1>5 DEF ReceiveResult, SourceStep, downlink
  <2>2. Elems(feedQ) = Elems(feedQ') \cup {Head(feedQ)}
    BY <1>2, <2>1, ElemsTaken DEF Queues
  <2>3. Elems(answers') = Elems(answers) \cup {Head(feedQ)}
    BY <1>2, <2>1, ElemsAdded DEF Queues
  <2>4. QED
    BY <1>1, <2>1, <2>2, <2>3
<1>6. CASE Compute
  <2>1. UNCHANGED << downNet, feedQ, answers, pending, lost >> /\ coreQ # << >>
    BY <1>6 DEF Compute, source, downlink
  <2>2. CASE resultQ' = resultQ
    BY <1>1, <2>1, <2>2
  <2>3. CASE resultQ' = Append(resultQ, Head(coreQ)) /\ Head(coreQ) \in Token
    <3>1. Elems(resultQ') = Elems(resultQ) \cup {Head(coreQ)}
      BY <1>2, <2>3, ElemsAdded DEF Queues
    <3>2. Head(coreQ) \in Expected
      <4>1. Line[5] = coreQ /\ 5 \in Places
        BY LinePlaces DEF Places
      <4>2. QED
        BY <1>2, <2>1, <2>3, <4>1, LineDrop
    <3>3. CASE Head(coreQ) = Sync
      BY <1>1, <2>1, <3>1, <3>3, Items
    <3>4. CASE Head(coreQ) \in Requests
      <4>1. Waiting /\ Head(coreQ) = request
        BY <3>2, <3>4, Items DEF Expected
      <4>2. QED
        BY <1>1, <1>6, <2>1, <3>1, <3>4, <4>1
    <3>5. QED
      BY <2>3, <3>3, <3>4 DEF Token
  <2>4. QED
    BY <1>6, <2>2, <2>3, Items DEF Compute
<1>7. CASE BeginShutdown
  <2>1. UNCHANGED << downNet, feedQ, answers, pending, lost >> /\ resultQ' = Append(resultQ, Halt)
    BY <1>7 DEF BeginShutdown, Farewell, source, downlink
  <2>2. Elems(resultQ') = Elems(resultQ) \cup {Halt}
    BY <1>2, <2>1, ElemsAdded DEF Queues
  <2>3. QED
    BY <1>1, <2>1, <2>2, Items
<1>8. CASE DownConnect \/ SendReady
  <2>1. UNCHANGED << resultQ, downNet, feedQ, answers, pending, lost >>
    BY <1>8 DEF DownConnect, SendReady, AfterReadyFailed, IInv, Drained, source
  <2>2. QED
    BY <1>1, <2>1
<1>9. CASE SendResult
  <2>1. UNCHANGED << feedQ, answers >>
    BY <1>9 DEF SendResult, source
  <2> DEFINE item == IF pending # None THEN pending ELSE Head(resultQ)
  <2>2. Elems(resultQ) \cup {pending} = Elems(resultQ') \cup {item, pending}
    <3>1. CASE pending # None
      BY <1>9, <3>1 DEF SendResult
    <3>2. CASE pending = None
      <4>1. resultQ # << >> /\ resultQ' = Tail(resultQ) /\ item = Head(resultQ)
        BY <1>9, <3>2 DEF SendResult
      <4>2. Elems(resultQ) = Elems(resultQ') \cup {item}
        BY <1>2, <4>1, ElemsTaken DEF Queues
      <4>3. QED
        BY <4>2
    <3>3. QED
      BY <3>1, <3>2
  <2>3. pending \in {item, None}
    OBVIOUS
  <2>4. None \notin Requests /\ Halt \notin Requests
    BY Items
  <2>5. CASE item = Halt
    <3>1. UNCHANGED << pending, downNet, lost >>
      BY <1>9, <2>5 DEF SendResult
    <3> HIDE DEF item
    <3>2. QED
      BY <1>1, <2>1, <2>2, <2>4, <2>5, <3>1
  <2>6. CASE pending' = None /\ downNet' = Append(downNet, item) /\ lost' = lost
    <3>1. Elems(downNet') = Elems(downNet) \cup {item}
      BY <1>2, <2>6, ElemsAdded DEF Queues
    <3> HIDE DEF item
    <3>2. QED
      BY <1>1, <2>1, <2>2, <2>3, <2>4, <2>6, <3>1
  <2>7. CASE pending' = item /\ downNet' = downNet /\ lost' = lost
    <3> HIDE DEF item
    <3>1. QED
      BY <1>1, <2>1, <2>2, <2>3, <2>4, <2>7
  <2>8. CASE pending' = None /\ downNet' = downNet /\ lost' = lost \cup {item}
    <3> HIDE DEF item
    <3>1. QED
      BY <1>1, <2>1, <2>2, <2>3, <2>4, <2>8
  <2>9. QED
    BY <1>9, <2>5, <2>6, <2>7, <2>8 DEF SendResult, AfterSent, AfterSendFailed
<1>10. CASE DownBreak
  <2>1. UNCHANGED << resultQ, feedQ, answers, pending >>
    BY <1>10 DEF DownBreak, source
  <2>2. PICK n \in 0..Len(downNet) :
           /\ downNet' = SubSeq(downNet, 1, n)
           /\ lost' = lost \cup {downNet[i] : i \in n + 1 .. Len(downNet)}
    BY <1>10 DEF DownBreak
  <2>3. Elems(downNet) = Elems(downNet') \cup {downNet[i] : i \in n + 1 .. Len(downNet)}
    BY <1>2, <2>2, ElemsCut DEF Queues
  <2>4. QED
    BY <1>1, <2>1, <2>2, <2>3
<1>11. CASE MobileReceive
  <2>1. UNCHANGED << resultQ, answers, pending, lost >>
    BY <1>11 DEF MobileReceive, source
  <2>2. CASE downNet = << >>
    BY <1>1, <1>11, <2>1, <2>2 DEF MobileReceive
  <2>3. CASE downNet # << >>
    <3>1. downNet' = Tail(downNet) /\ feedQ' = Append(feedQ, Head(downNet))
      BY <1>11, <2>3 DEF MobileReceive
    <3>2. Elems(downNet) = Elems(downNet') \cup {Head(downNet)}
      BY <1>2, <2>3, <3>1, ElemsTaken DEF Queues
    <3>3. Elems(feedQ') = Elems(feedQ) \cup {Head(downNet)}
      BY <1>2, <3>1, ElemsAdded DEF Queues
    <3>4. QED
      BY <1>1, <2>1, <3>2, <3>3
  <2>4. QED
    BY <2>2, <2>3
<1>12. QED
  BY Actions, <1>3, <1>4, <1>5, <1>6, <1>7, <1>8, <1>9, <1>10, <1>11 DEF SourceStep

(* No step forgets a result that was computed: failed sends, the ready      *)
(* handshake and reconnections keep what they hold.                         *)
THEOREM SessionResultsKept == Spec => ResultsKept
<1>1. IInv /\ [Next]_vars => [Whereabouts \subseteq Whereabouts']_vars
  BY WhereaboutsNext
<1>2. QED
  BY <1>1, Invariance, PTL DEF Spec, ResultsKept
-----------------------------------------------------------------------------
(* Session implements the safety part of Service.                           *)
(* The largest element of a set of integers.                               *)
LEMMA MaxIs ==
    ASSUME NEW S \in SUBSET Int, NEW m \in S, \A x \in S : x <= m
    PROVE  Max(S) = m
<1>1. m \in S /\ \A x \in S : m >= x
  OBVIOUS
<1>2. Max(S) \in S /\ \A x \in S : Max(S) >= x
  BY <1>1 DEF Max
<1>3. m \in Int /\ Max(S) \in Int /\ m >= Max(S) /\ Max(S) >= m
  BY <1>1, <1>2
<1>4. QED
  BY <1>3

(* Every result before the one the source waits for was computed, and       *)
(* perhaps that one.                                                        *)
Filled == request \in Whereabouts

Progress ==
    /\ Max(Whereabouts \cup {0}) = IF Filled THEN request ELSE request - 1
    /\ phase = "done" => Filled
    /\ Filled => phase \in {"wait", "timeout", "done"}
    /\ 1..Len(answers) \subseteq Whereabouts

(* The results so far are those before the one the source waits for, and    *)
(* perhaps that one; when the source is done, all.                          *)
LEMMA FilledIs == IInv => Progress
<1> SUFFICES ASSUME IInv PROVE Progress
  OBVIOUS
<1> USE DEF Progress
<1>1. /\ answers \in Seq(Token) /\ \A i \in DOMAIN answers : answers[i] = i
      /\ Len(answers) = IF phase = "done" THEN request ELSE request - 1
      /\ request \in Requests /\ request \in Nat /\ request >= 1 /\ Requests = 1..MaxRequests
  BY Items DEF IInv, Queues, Counted, TypeOK, Requests
<1>2. Elems(answers) = 1..Len(answers)
  BY <1>1 DEF Elems
<1>3. \A x \in Requests : x \in Elems(resultQ) \cup Elems(downNet) \cup Elems(feedQ)
                               \cup {pending} \cup lost => x = request /\ Waiting
  <2>1. \A k \in Places : \A x \in Elems(Line[k]) \cap Token : x \in Expected
    BY DEF IInv, Flight, Carries, Within, Elems
  <2>2. \A x \in Token : x \in Elems(resultQ) \cup Elems(downNet) \cup Elems(feedQ) => x \in Expected
    BY <2>1, LinePlaces DEF Places
  <2>3. pending # None => pending \in Elems(Line[3]) \cap Token
    <3>1. pending # None => Line[3] = << pending >> /\ pending \in Token
      BY LinePlaces DEF Retry, IInv, TypeOK, Token
    <3>2. pending \in Elems(<< pending >>)
      BY DEF Elems
    <3>3. QED
      BY <3>1, <3>2
  <2>4. lost \subseteq Expected
    BY DEF IInv, Flight
  <2>5. \A x \in Requests : x \in Expected => x = request /\ Waiting
    BY Items DEF Expected
  <2>6. QED
    BY <2>1, <2>2, <2>3, <2>4, <2>5, Items DEF Places
<1>4. \A x : x \in Whereabouts <=> x \in 1..Len(answers) \/ (x = request /\ x \in Whereabouts)
  BY <1>1, <1>2, <1>3, WhereaboutsIs DEF All
<1>5. /\ phase = "done" => Filled
      /\ Filled => phase \in {"wait", "timeout", "done"}
  BY <1>1, <1>2, <1>3, WhereaboutsIs DEF All, Filled, Waiting
<1> DEFINE S == Whereabouts \cup {0}
<1>6. S \in SUBSET Int
  BY <1>1, <1>4
<1>7. CASE Filled
  <2>1. request \in S /\ \A x \in S : x <= request
    BY <1>1, <1>4, <1>7 DEF Filled
  <2> HIDE DEF S
  <2>2. Max(S) = request
    BY <1>6, <2>1, MaxIs
  <2>3. QED
    BY <1>4, <1>5, <1>7, <2>2 DEF S
<1>8. CASE ~Filled
  <2>1. request - 1 \in S /\ \A x \in S : x <= request - 1
    BY <1>1, <1>4, <1>5, <1>8 DEF Filled
  <2> HIDE DEF S
  <2>2. Max(S) = request - 1
    BY <1>6, <2>1, MaxIs
  <2>3. QED
    BY <1>4, <1>5, <1>8, <2>2 DEF S
<1>9. QED
  BY <1>7, <1>8

(* The initial states of Session are initial states of Service ...          *)
LEMMA RefinesInit == Init => Promise!Init
<1> SUFFICES ASSUME Init PROVE Promise!Init
  OBVIOUS
<1>1. IInv
  BY IInvInit
<1>2. phase = "load" /\ request = 1 /\ Len(answers) = 0
  BY DEF Init
<1>3. Max(Whereabouts \cup {0}) = 0
  BY <1>1, <1>2, FilledIs DEF Progress
<1>4. QED
  BY <1>2, <1>3 DEF Promise!Init

(* ... and its steps are steps of Service or leave the counters alone.      *)
LEMMA RefinesNext == IInv /\ [Next]_vars => [Promise!Next]_Promise!vars
<1> SUFFICES ASSUME IInv, Next PROVE [Promise!Next]_Promise!vars
  <2>1. CASE UNCHANGED vars
    <3>1. UNCHANGED << phase, request, answers, Whereabouts >>
      BY <2>1 DEF vars, source, downlink, Whereabouts
    <3>2. QED
      BY <3>1 DEF Promise!vars
  <2>2. QED
    BY <2>1
<1> DEFINE asked == IF phase \in {"wait", "timeout", "done"} THEN request ELSE request - 1
           computed == Max(Whereabouts \cup {0})
           delivered == Len(answers)
<1>1. IInv'
  BY IInvNext
<1>2. Progress /\ Progress'
  <2>1. IInv' => Progress'
    BY FilledIs, PTL
  <2>2. QED
    BY <1>1, <2>1, FilledIs
<1>3. /\ request \in Nat /\ request' \in Nat
      /\ delivered = IF phase = "done" THEN request ELSE request - 1
      /\ delivered' = IF phase' = "done" THEN request' ELSE request' - 1
  BY <1>1, Items DEF IInv, TypeOK, Counted
<1>4. CASE SourceStep
  <2>1. Whereabouts' = Whereabouts
    BY <1>4, WhereaboutsNext DEF Compute, SourceStep, LoadDataset, ReceiveTimeSync, SendRequest,
                                 ReceiveResult, Timeout
  <2>2. CASE LoadDataset \/ ReceiveTimeSync \/ Timeout
    <3>1. /\ request' = request /\ answers' = answers
          /\ phase \in {"load", "sync", "wait"} /\ phase' \in {"sync", "failed", "send", "timeout"}
          /\ phase = "wait" <=> phase' = "timeout"
      BY <2>2 DEF LoadDataset, ReceiveTimeSync, Timeout
    <3>2. asked' = asked /\ delivered' = delivered /\ computed' = computed
      BY <2>1, <3>1
    <3>3. QED
      BY <3>2 DEF Promise!vars
  <2>3. CASE SendRequest
    <3>1. request' = request /\ answers' = answers /\ phase = "send" /\ phase' = "wait"
      BY <2>3 DEF SendRequest
    <3>2. /\ delivered = asked /\ asked' = asked + 1
          /\ delivered' = delivered /\ computed' = computed
      BY <1>3, <2>1, <3>1
    <3>3. QED
      BY <3>2 DEF Promise!Next, Promise!Ask
  <2>4. CASE ReceiveResult
    <3>1. /\ phase = "wait"
          /\ \/ request' = request + 1 /\ phase' = "send"
             \/ request' = request /\ phase' = "done"
      BY <2>4 DEF ReceiveResult
    <3>2. request \in 1..delivered' /\ delivered = request - 1 /\ delivered' = request
      <4>1. request >= 1
        BY Items DEF IInv, TypeOK, Requests
      <4>2. delivered = request - 1
        BY <1>3, <3>1
      <4>3. delivered' = request
        <5>1. CASE request' = request + 1 /\ phase' = "send"
          BY <1>3, <5>1
        <5>2. CASE request' = request /\ phase' = "done"
          BY <1>3, <5>2
        <5>3. QED
          BY <3>1, <5>1, <5>2
      <4>4. request \in 1..request
        BY <1>3, <4>1
      <4>5. QED
        BY <4>2, <4>3, <4>4, Zenon
    <3>3. Filled
      BY <1>2, <2>1, <3>2 DEF Progress, Filled
    <3>4. delivered < computed /\ delivered' = computed
      BY <1>2, <3>2, <3>3 DEF Progress
    <3>5. asked' = asked /\ computed' = computed
      BY <1>2, <1>3, <2>1, <3>1, <3>3 DEF Progress
    <3>6. QED
      BY <3>4, <3>5 DEF Promise!Next, Promise!Deliver
  <2>5. QED
    BY <1>4, <2>2, <2>3, <2>4 DEF SourceStep
<1>5. CASE ~SourceStep
  <2>1. UNCHANGED << phase, request, answers >>
    BY <1>5, Actions
    DEF ClientExit, UpConnect, MobileSend, UpBreak, Receive, Compute, CoreStop, BeginShutdown,
        Terminate, EndShutdown, DownConnect, SendReady, SendResult, DownBreak, MobileReceive,
        vars, source
  <2>2. CASE Whereabouts' = Whereabouts
    BY <2>1, <2>2 DEF Promise!vars
  <2>3. CASE Whereabouts' # Whereabouts
    <3>1. Waiting /\ Whereabouts' = Whereabouts \cup {request}
      BY <2>3, WhereaboutsNext
    <3>2. ~Filled /\ Filled'
      BY <2>1, <2>3, <3>1 DEF Filled
    <3>3. asked = request /\ asked' = asked /\ delivered' = delivered
      BY <2>1, <3>1 DEF Waiting
    <3>4. computed < asked /\ computed' = asked
      BY <1>2, <1>3, <2>1, <3>2, <3>3 DEF Progress
    <3>5. QED
      BY <3>3, <3>4 DEF Promise!Next, Promise!Compute
  <2>4. QED
    BY <2>2, <2>3
<1>6. QED
  BY <1>4, <1>5

(* Session implements the safety part of Service, its counters read off the *)
(* source and off where the results are: no request is computed twice or    *)
(* before it was made, no result delivered twice or out of turn.            *)
THEOREM SessionImplementsSafety == Spec => ImplementsSafety
BY RefinesInit, RefinesNext, Invariance, PTL DEF Spec, ImplementsSafety, Promise!Safety
=============================================================================
