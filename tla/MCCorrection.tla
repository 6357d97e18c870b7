---------------------------- MODULE MCCorrection -----------------------------
(***************************************************************************)
(* Small corrections: four layers at most, one or two rows of two to four  *)
(* patches after one token that is no patch, two residual groups.          *)
(***************************************************************************)
EXTENDS Correction

load(g) == [op |-> "LOAD", gid |-> g]
approx(a, b) == [op |-> "APPROX", lo |-> a, hi |-> b]
correct(b, g) == [op |-> "CORRECT", hi |-> b, gid |-> g]

(* Approximate everything, then correct group by group (VGGT's layer_split  *)
(* "full"), or go down with the groups that arrive.  Where a plan is shared *)
(* and dindice made anew, the first of these finds stale plans (StalePlan). *)
afterwards == << load(0), approx(0, 3), load(1), correct(3, 1), load(2), correct(3, 2) >>
interleaved == << load(0), approx(0, 1), load(1), correct(1, 1), approx(1, 2),
                  load(2), correct(2, 2), approx(2, 3), correct(3, 2) >>
vggtRounds == << load(0), approx(0, 2), load(1), correct(2, 1), approx(2, 4),
                 load(2), correct(4, 2) >>
vggtFull == << load(0), approx(0, 2), load(1), correct(2, 1), load(2), correct(2, 2) >>

even == << (1 :> 1) @@ (2 :> 2) @@ (3 :> 1) @@ (4 :> 2),
           (1 :> 2) @@ (2 :> 1) @@ (3 :> 2) @@ (4 :> 1) >>
uneven == << (1 :> 1) @@ (2 :> 1) @@ (3 :> 1) @@ (4 :> 2),
             (1 :> 1) @@ (2 :> 1) @@ (3 :> 2) @@ (4 :> 2) >>
missing == << (1 :> 1) @@ (2 :> 2) @@ (3 :> 2) @@ (4 :> 2),
              (1 :> 2) @@ (2 :> 2) @@ (3 :> 2) @@ (4 :> 2) >>
outside == << (1 :> 1) @@ (2 :> 2) @@ (3 :> 1) @@ (4 :> 2),
              (1 :> -1) @@ (2 :> -1) @@ (3 :> -1) @@ (4 :> -1) >>
wide == << (1 :> 1) @@ (2 :> 1) @@ (3 :> 1) @@ (4 :> 1),
           (1 :> 1) @@ (2 :> 1) @@ (3 :> 1) @@ (4 :> 2) >>
byFrame == << (1 :> 1) @@ (2 :> 1), (1 :> 2) @@ (2 :> 2) >>
oneGroup == << (1 :> 0) @@ (2 :> 0) @@ (3 :> 0) >>

base == [executor |-> "linhead", layers |-> 3, pre |-> 1, group |-> even, sent |-> even,
         plan |-> interleaved, pscore |-> "layermean", mobile |-> FALSE, thres |-> None,
         ratio |-> 50, cap |-> 0, maxScore |-> 4, frozen |-> {}]
grouped(c, g) == [c EXCEPT !.group = g, !.sent = g]
m2f(g) == [grouped(base, g) EXCEPT !.executor = "m2f"]
vggt(g) == [grouped(base, g) EXCEPT !.executor = "vggt", !.layers = 4, !.plan = vggtRounds,
                                    !.ratio = 100]

MCCases ==
    {[base EXCEPT !.thres = 2, !.pscore = p] : p \in {"layermean", "per_layer", "random", "none"}}
    \cup {[base EXCEPT !.plan = afterwards, !.thres = 2, !.pscore = p] : p \in {"per_layer", "random"}}
    \cup {[base EXCEPT !.executor = e, !.mobile = TRUE] : e \in {"classifier", "linhead"}}
    \cup {[base EXCEPT !.executor = "classifier", !.pscore = "none", !.mobile = TRUE, !.thres = 1]}
    \cup {[base EXCEPT !.executor = "detector", !.frozen = {2}, !.ratio = 100],
          [grouped(base, missing) EXCEPT !.executor = "detector", !.ratio = 0],
          [base EXCEPT !.executor = "detector", !.group = outside]}
    \cup {[base EXCEPT !.executor = "depther", !.plan = p, !.thres = 1] : p \in {afterwards, interleaved}}
    \cup {[base EXCEPT !.executor = "depther", !.thres = 5], [base EXCEPT !.executor = "depther", !.ratio = 0]}
    \cup {[base EXCEPT !.thres = 2, !.cap = 1, !.mobile = TRUE]}
    \cup {[m2f(g) EXCEPT !.thres = t, !.mobile = m] :
            g \in {even, uneven, missing}, t \in {None, 1, 2}, m \in BOOLEAN}
    \cup {[m2f(g) EXCEPT !.plan = afterwards, !.ratio = q] : g \in {uneven, wide}, q \in {70, 100}}
    \cup {[base EXCEPT !.executor = e, !.plan = afterwards, !.group = oneGroup,
                       !.sent = << (1 :> 1) @@ (2 :> 2) @@ (3 :> 2) >>]
            : e \in {"m2f", "linhead", "depther"}}
    \cup {[vggt(g) EXCEPT !.ratio = q] : g \in {byFrame, even, uneven, wide}, q \in {60, 70, 100}}

MCScorings ==
    {[r \in 1..2 |-> [t \in 0..4 |-> [l \in 0..8 |->
        (3 * t + (seed + 1) * (l + 1) + 2 * r + seed * t * l) % 4]]] : seed \in 0..3}

MCStaleScores == {[base EXCEPT !.thres = 2]}
MCStalePlan ==
    {[vggt(byFrame) EXCEPT !.plan = vggtFull, !.layers = 2]}
    \cup {[base EXCEPT !.executor = e, !.plan = afterwards] : e \in {"linhead", "classifier"}}
=============================================================================
