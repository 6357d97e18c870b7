-------------------------- MODULE MCTransmission ----------------------------
(* Instances of Transmission for TLC.                                       *)
EXTENDS Transmission

(* One frame with a base of one row and column per two of the picture.      *)
Base(policy, strategy, groups, kind, rows, cols) ==
    [policy |-> policy, strategy |-> strategy, groups |-> groups, server |-> kind,
     grids |-> << << << Ceiling(rows, 2), Ceiling(cols, 2) >>, << rows, cols >> >> >>,
     patch |-> 4, crop |-> 8, stride |-> 5, flips |-> {FALSE}, baseOnly |-> FALSE,
     keep |-> 50, threshold |-> 2, tokens |-> << << rows, cols >> >>]

Two(e) == [e EXCEPT !.grids = @ \o @, !.tokens = @ \o @]
Flipped(e) == [e EXCEPT !.flips = BOOLEAN]

(* Patches and tokens grouped by the same rule on the same grid.            *)
MCProgressive ==
    { Two(Base("Progressive", "grid", 4, "payload", 2, 3)),
      Base("Progressive", "grid", 0, "tokens", 3, 4),
      Flipped(Base("NYUProgressive", "grid", 4, "tokens", 3, 4)),
      Base("NYUProgressive", "grid", 1, "ungrouped", 2, 2),
      Base("Progressive", "block_grid", 4, "payload", 3, 4),
      Base("Progressive", "block_grid", 4, "tokens", 3, 5),
      Base("Progressive", "expansion", 5, "tokens", 4, 3),
      Base("Progressive", "expansion", 3, "payload", 2, 4),
      Base("Progressive", "sequential", 3, "payload", 2, 4),
      Base("FourierLaplacian", "grid", 4, "payload", 2, 2),
      Base("Progressive", "grid", 9, "tokens", 4, 5),
      Base("Progressive", "block_grid", 9, "tokens", 5, 4),
      Base("Progressive", "expansion", 8, "tokens", 5, 5),
      Base("Progressive", "grid", 3, "payload", 2, 2),
      Base("Progressive", "expansion", 7, "tokens", 2, 3) }

(* Groups that depend on what the patches hold, or on chance.               *)
MCScored ==
    { Base("Progressive", "uniform_diff", 3, "payload", 2, 2),
      Two(Base("Progressive", "energy_asc", 2, "payload", 2, 2)),
      Base("Progressive", "energy_desc", 3, "payload", 2, 2),
      Base("Progressive", "random", 2, "payload", 2, 2),
      Base("Progressive", "top_energy", 1, "payload", 2, 4),
      Base("Progressive", "top_energy_threshold", 1, "payload", 2, 4) }

(* Windows of the detector and crops of the segmentor.                      *)
MCRegions ==
    { Base("COCOWindow", "windows", 0, "windows", 3, 5),
      Base("FourierWindowed", "windows", 0, "windows", 5, 3),
      Base("Progressive", "grid", 4, "windows", 3, 5),
      Flipped(Base("FourierADE20KWindow", "crop_cover", 16, "crops", 2, 3)),
      [Base("FourierADE20KWindow", "crop_cover", 16, "crops", 2, 5) EXCEPT !.stride = 4],
      Base("FourierADE20KWindow", "crop_cover", 16, "crops", 2, 4),
      Base("FourierADE20KWindow", "crop_cover", 16, "crops", 3, 3),
      Base("FourierADE20KWindow", "crop_cover", 0, "crops", 2, 2),
      Flipped([Base("Progressive", "grid", 4, "crops", 2, 4) EXCEPT !.stride = 4]),
      Base("Progressive", "block_grid", 4, "crops", 3, 3) }

(* Views of a scene, of one shape or of several, and more than two levels.  *)
MCScenes ==
    { Two(Base("VGGT", "per_frame", 2, "marks", 2, 2)),
      Two(Base("VGGT", "spatial", 2, "marks", 3, 2)),
      [Base("VGGT", "spatial", 2, "marks", 2, 2) EXCEPT !.tokens = << << 3, 5 >> >>],
      Base("VGGT", "spatial", 3, "marks", 2, 2),
      Base("VGGT", "spatial", 8, "marks", 5, 6),
      Base("VGGT", "spatial", 8, "marks", 14, 2),
      [Base("VGGT", "spatial", 2, "marks", 2, 2)
         EXCEPT !.grids = << << << 1, 1 >>, << 3, 2 >> >>, << << 1, 1 >>, << 2, 3 >> >> >>,
                !.tokens = << << 3, 3 >>, << 3, 3 >> >>],
      Base("VGGT", "per_frame", 2, "marks", 2, 2),
      Base("VGGT", "spatial", 1, "marks", 2, 2),
      Base("FourierBinary", "none", 0, "ungrouped", 2, 2),
      [Base("Laplacian", "none", 0, "ungrouped", 2, 2) EXCEPT !.baseOnly = TRUE],
      [Base("Progressive", "grid", 1, "ungrouped", 4, 4)
         EXCEPT !.grids = << << << 1, 1 >>, << 2, 2 >>, << 4, 4 >> >> >>] }

MCEncodings == MCProgressive \cup MCScored \cup MCRegions \cup MCScenes

(* The segmentor's policies as its configurations use them.                 *)
MCCropCover ==
    { Base("ADE20KWindow", "crop_cover", 0, "crops", 2, 3),
      Base("FourierADE20KWindow", "crop_cover", 0, "crops", 2, 3) }

MCSeeds == 0..2
=============================================================================
