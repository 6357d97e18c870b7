----------------------------- MODULE MCPipeline -----------------------------
(* Instances of Pipeline for TLC: the configurations each run considers.    *)
EXTENDS Pipeline

(* Stage costs in units of 0.01 % of the forward pass, as in                *)
(* vggt_interleaved.py: embedding blocks first, then pairs with a global    *)
(* inter-frame block, a register pair second.                               *)
Costs(layers) == [i \in 1..layers |-> IF i <= layers \div 2 THEN 1196
                                      ELSE IF i % 2 = 0 THEN 1707 ELSE 2819]

(* One configuration of a policy: so many layers and groups, and the number *)
(* of residual groups of each request.  Group 1 has two patches, the others *)
(* one, so that a group can be incomplete.                                  *)
Base(name, executor, layers, groups, groupsOf) ==
    [policy |-> name, executor |-> executor, batch |-> 1, windows |-> FALSE,
     layers |-> layers, groups |-> groups, groupsOf |-> groupsOf,
     groupSize |-> [g \in 0..groups |-> IF g = 1 THEN 2 ELSE 1],
     ahead |-> 2, exit |-> FALSE, mode |-> "none", approxOnly |-> FALSE,
     progressive |-> TRUE, correct |-> TRUE, patches |-> 1, split |-> "compute",
     cost |-> Costs(layers), ungrouped |-> FALSE]

(* The detector, with the tokens of the groups in windows or on a grid.     *)
Detector(name, windows, mode, layers, groups, groupsOf) ==
    [Base(name, "detector", layers, groups, groupsOf) EXCEPT !.windows = windows, !.mode = mode]

(* Groups of layers queued by the group that arrives.                       *)
MCStatic ==
    { [Base("GroupTrigger", "classifier", 4, 2, << 2, 2 >>) EXCEPT !.exit = TRUE, !.batch = 2],
      Base("GroupTrigger", "classifier", 6, 3, << 3 >>),
      Base("GroupTrigger", "openclip", 4, 2, << 2, 2 >>),
      Base("GroupTrigger", "qwen", 4, 2, << 2 >>),
      Base("GroupTrigger", "depther", 6, 3, << 3 >>),
      Detector("GroupTrigger", FALSE, "final_correct", 4, 2, << 2, 2 >>),
      Detector("COCOWindowInterleaved", TRUE, "final_correct", 5, 2, << 2, 2 >>),
      Detector("COCOWindowInterleaved", TRUE, "global_first", 7, 3, << 3 >>),
      Detector("COCOWindowInterleaved", TRUE, "approx", 4, 2, << 2 >>),
      Base("ADE20KWindowInterleaved", "m2f", 5, 2, << 2, 1 >>),
      Base("ADE20KWindowInterleaved", "linhead", 5, 3, << 3 >>),
      Base("VGGTInterleaved", "vggt", 6, 2, << 2, 2 >>),
      [Base("VGGTInterleaved", "vggt", 7, 3, << 3 >>) EXCEPT !.split = "uniform"],
      [Base("VGGTInterleaved", "vggt", 4, 2, << 2 >>) EXCEPT !.split = "full"],
      Base("ADE20KApproxCorrect", "m2f", 4, 1, << 1, 1 >>),
      Base("NYUApproxCorrect", "depther", 4, 1, << 1, 1 >>),
      Base("NYUApproxCorrect", "vggt", 4, 1, << 1 >>),
      [Base("ADE20KApproxCorrect", "m2f", 4, 1, << 1 >>) EXCEPT !.correct = FALSE],
      [Base("NYUApproxCorrect", "depther", 4, 1, << 1 >>) EXCEPT !.correct = FALSE],
      [Base("BatchCountBased", "classifier", 4, 2, << 2, 2 >>) EXCEPT !.batch = 2],
      [Base("BatchCountBased", "vggt", 4, 1, << 1, 1 >>) EXCEPT !.approxOnly = TRUE],
      Base("ADE20KSequential", "m2f", 4, 2, << 2, 2 >>) }

(* Layers queued by the feedback of the worker.                             *)
MCDynamic ==
    { Base("DynamicGroupTrigger", "classifier", 4, 2, << 2, 2 >>),
      Base("ADE20KInterleavedDynamic", "m2f", 4, 2, << 2, 1 >>),
      [Base("ADE20KInterleavedDynamic", "linhead", 4, 2, << 2 >>) EXCEPT !.exit = TRUE],
      Detector("COCOWindowDynamic", TRUE, "final_correct", 3, 2, << 2, 2 >>),
      Detector("COCOWindowDynamic", TRUE, "global_first", 5, 3, << 3 >>),
      Base("ADE20KInterleavedDynamic", "m2f", 5, 2, << 2 >>),
      [Base("ADE20KInterleavedDynamic", "m2f", 4, 2, << 2 >>) EXCEPT !.ahead = 1] }

MCPolicies == MCStatic \cup MCDynamic

(* A fork that does not keep its corrections, over three rounds.            *)
MCForgetful == { Base("GroupTrigger", "openclip", 6, 3, << 3 >>),
                 Base("GroupTrigger", "qwen", 6, 3, << 3 >>) }

MCTwoRequests == { Detector("COCOWindowDynamic", TRUE, "final_correct", 4, 2, << 2, 2 >>) }

(* Two levels of a Laplacian pyramid, the finer one with two patches.       *)
MCPyramid == { [Base("BatchCountBased", "classifier", 4, 1, << 1 >>)
                   EXCEPT !.progressive = FALSE, !.ungrouped = TRUE] }

(* progressive.encode does not yield a group that has no patches.           *)
MCEmptyLast == { [Base("GroupTrigger", "classifier", 4, 2, << 2 >>)
                     EXCEPT !.groupSize = [@ EXCEPT ![2] = 0]] }
=============================================================================
