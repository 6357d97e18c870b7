------------------------------ MODULE Selection -------------------------------
(***************************************************************************)
(* Which tokens a correction of the partial_token method considers, how    *)
(* the executors put rows together, and which tokens the scores keep       *)
(* (appcorr/models/dinov3/layers/block.py, offload/server/model).  c is a  *)
(* configuration (see MCCorrection), r a row, gid a residual group.        *)
(***************************************************************************)
EXTENDS Integers, SequencesExt, FiniteSetsExt

None == -1

(* The members of a set of numbers in their order.                          *)
Ascending(S) ==
    [i \in 1 .. Cardinality(S) |-> CHOOSE x \in S : Cardinality({y \in S : y < x}) = i - 1]

Pre(c) == 0 .. c.pre - 1
Patches(c, r) == DOMAIN c.group[r]
Tokens(c, r) == Pre(c) \cup Patches(c, r)

-----------------------------------------------------------------------------
(* Candidates.                                                              *)
GroupsOf(c, r) == {c.group[r][t] : t \in Patches(c, r)} \ {-1}
Members(c, r, gids) == Ascending({t \in Patches(c, r) : c.group[r][t] \in gids})

(* The pretokens and the members of each group, end to end.                 *)
EndToEnd(c, r) ==
    LET gids == Ascending(GroupsOf(c, r))
    IN  FlattenSeq([i \in DOMAIN gids |-> Ascending(Pre(c)) \o Members(c, r, {gids[i]})])

(* dindice without its pretokens.  A group the row does not know means all  *)
(* it knows (with num_groups = 1 that is group 0), as a union or end to end *)
(* with the pretokens of each; the classifier and the detector correct      *)
(* nothing then, and VGGT takes what this round has delivered.              *)
Candidates(c, r, gid) ==
    IF gid \in GroupsOf(c, r) \/ c.executor \in {"classifier", "detector", "vggt"}
    THEN Members(c, r, {gid})
    ELSE IF c.executor = "m2f" THEN Members(c, r, GroupsOf(c, r))
    ELSE SubSeq(EndToEnd(c, r), c.pre + 1, Len(EndToEnd(c, r)))

(* Depther: nothing can be kept, so nothing is recomputed.                  *)
UseThreshold(c) == c.thres # None
Hopeless(c) ==
    /\ c.executor = "depther"
    /\ IF UseThreshold(c) THEN c.thres > c.maxScore ELSE c.ratio <= 0

Corrects(c, r, gid) ==
    /\ r \notin c.frozen                 \* a global source outside the corrections
    /\ c.executor \in {"classifier", "detector"} => gid \in GroupsOf(c, r)
    /\ ~Hopeless(c)

-----------------------------------------------------------------------------
(* Rows are corrected together in a batch of equal shapes (m2f), as the     *)
(* rows of one tensor, or source by source.                                 *)
Width(c, rows, gid) == Max({Len(Candidates(c, r, gid)) : r \in rows})

(* m2f pads a row that has candidates, and VGGT every row, with copies of   *)
(* the last one; VGGT's rows always have their pretokens.                   *)
Padded(c, own) == c.executor = "vggt" \/ (c.executor = "m2f" /\ own # << >>)
Pad(c, r, gid, width) ==
    LET own == Candidates(c, r, gid)
        last == IF own = << >> THEN c.pre - 1 ELSE Last(own)
    IN  IF Padded(c, own) THEN own \o [i \in 1 .. width - Len(own) |-> last] ELSE own

Buckets(c, gid) ==
    LET rows == {r \in DOMAIN c.group : Corrects(c, r, gid)}
        shape(r) == Len(Pad(c, r, gid, Width(c, rows, gid)))
    IN  CASE c.executor \in {"classifier", "vggt"} -> {rows} \ {{}}
          [] c.executor = "m2f" -> {{q \in rows : shape(q) = shape(r)} : r \in rows}
          [] OTHER -> {{r} : r \in rows}

First(buckets) == CHOOSE b \in buckets : \A o \in buckets : Min(b) <= Min(o)

(* What a bucket is corrected with: the candidates of each row as padded,   *)
(* and how many of them are its own where the padding is flagged (m2f).     *)
Batch(c, bucket, gid) == [r \in bucket |-> Pad(c, r, gid, Width(c, bucket, gid))]
Valid(c, bucket, gid) ==
    [r \in bucket |-> IF c.executor = "m2f" THEN Len(Candidates(c, r, gid))
                      ELSE Width(c, bucket, gid)]

-----------------------------------------------------------------------------
(* Scores: any number per row, token and block from the server, a hint from *)
(* the client; the fused score is their weighted sum.                       *)
ServerScore(scores, r, t) == scores[r][t]
Hint(c, r, t) == IF c.mobile THEN (t + r) % 2 ELSE 0

(* Mean over some blocks, times their number so that it is an integer; no   *)
(* block at all when the server's scores weigh nothing.                     *)
Count(over) == Max({1, Cardinality(over)})
Score(c, scores, r, t, over) ==
    SumFunctionOnSet(ServerScore(scores, r, t), over) + Count(over) * Hint(c, r, t)

Quota(c, width) == Min({(width * c.ratio) \div 100, width})
Reaches(c, scores, r, t, over) == Score(c, scores, r, t, over) >= c.thres * Count(over)

(* Positions of better scores; equal scores go by position.                 *)
Better(c, scores, r, cands, over, p) ==
    {q \in DOMAIN cands :
        LET other == Score(c, scores, r, cands[q], over)
            mine == Score(c, scores, r, cands[p], over)
        IN  other > mine \/ (other = mine /\ q < p)}

(* Mutant of KeepMask: flagged padding keeps the score of what it copies.   *)
KeepMaskUnmasked(c, scores, r, cands, valid, over) ==
    IF UseThreshold(c) THEN {p \in DOMAIN cands : Reaches(c, scores, r, cands[p], over)}
    ELSE {p \in DOMAIN cands :
            Cardinality(Better(c, scores, r, cands, over, p)) < Quota(c, Len(cands))}

(* _select_patch_keep_mask, as positions in the row's candidates.  Padding  *)
(* that is flagged has the score -inf: all the others go before it.         *)
KeepMask(c, scores, r, cands, valid, over) ==
    LET better(p) ==
            IF p > valid THEN 1 .. p - 1
            ELSE {q \in Better(c, scores, r, cands, over, p) : q <= valid}
    IN  IF UseThreshold(c)
        THEN {p \in DOMAIN cands : p <= valid /\ Reaches(c, scores, r, cands[p], over)}
        ELSE {p \in DOMAIN cands : Cardinality(better(p)) < Quota(c, Len(cands))}

(* The packed query state of a row, as the tokens in its slots.  At a fixed *)
(* width (token_keep_cap) the kept candidates come first and the last of    *)
(* them, or the first candidate, fills what is left.                        *)
PackedStatic(c, cands, mask) ==
    LET order == Ascending(mask) \o Ascending(DOMAIN cands \ mask)
        last == Max({Cardinality(mask), 1})
    IN  [i \in 1 .. Min({c.cap, Len(cands)}) |-> cands[order[Min({i, last})]]]

PackedQuery(c, cands, mask) ==
    CASE ~UseThreshold(c) /\ c.ratio >= 100 -> cands
      [] UseThreshold(c) /\ c.cap > 0 -> PackedStatic(c, cands, mask)
      [] OTHER -> [i \in 1 .. Cardinality(mask) |-> cands[Ascending(mask)[i]]]

(* The candidates a row recomputes.                                         *)
Picked(c, scores, r, cands, valid, over) ==
    ToSet(PackedQuery(c, cands, KeepMask(c, scores, r, cands, valid, over)))
=============================================================================
