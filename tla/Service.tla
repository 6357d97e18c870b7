------------------------------- MODULE Service --------------------------------
(***************************************************************************)
(* What the offloading system promises its client, with everything inside  *)
(* hidden: requests are made one after the other, each is computed once    *)
(* and after it was made, and each result is delivered once, before the    *)
(* next request.  Pipeline implements Spec, Session, whose links lose      *)
(* results and whose clients give up, its safety part.                     *)
(***************************************************************************)
EXTENDS Naturals

VARIABLES
    asked,        \* requests the client has made
    computed,     \* the last request a result was computed for
    delivered     \* the last request whose result the client has

vars == << asked, computed, delivered >>

Init == asked = 0 /\ computed = 0 /\ delivered = 0

Ask ==
    /\ delivered = asked
    /\ asked' = asked + 1
    /\ UNCHANGED << computed, delivered >>

Compute ==
    /\ computed < asked
    /\ computed' = asked
    /\ UNCHANGED << asked, delivered >>

Deliver ==
    /\ delivered < computed
    /\ delivered' = computed
    /\ UNCHANGED << asked, computed >>

Next == Ask \/ Compute \/ Deliver

Safety == Init /\ [][Next]_vars
Spec == Safety /\ WF_vars(Compute) /\ WF_vars(Deliver)

(* The three counters stay in step: no result without a request, no         *)
(* delivery without a result, and one request at a time.                    *)
InStep ==
    /\ asked \in Nat /\ computed \in Nat /\ delivered \in Nat
    /\ delivered <= computed /\ computed <= asked /\ asked <= delivered + 1
=============================================================================
