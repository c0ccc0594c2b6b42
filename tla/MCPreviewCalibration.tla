------------------------- MODULE MCPreviewCalibration -------------------------
(* Stores of an earlier version: none, and the built-in setup with the estimated *)
(* stair position, measured or not.  Imported are a calibration with a stair      *)
(* position of its own, and an id that an entry here may have, and an alignment   *)
(* that was made by hand, without a measured quality.                            *)
EXTENDS PreviewCalibration

Estimated == [DefaultProfile EXCEPT !.stair = "estimate"]
MCEarlierStores ==
    {<<>>, <<Estimated>>,
     <<[Estimated EXCEPT !.gaze = [stair |-> "estimate", pose |-> 0], !.hasQuality = TRUE]>>}
MCImports ==
    {[DefaultProfile EXCEPT !.id = 2, !.stair = "other", !.gaze = [stair |-> "other", pose |-> 0],
                            !.hasQuality = TRUE],
     [DefaultProfile EXCEPT !.id = 3, !.gaze = [stair |-> "measured", pose |-> 1]]}
=============================================================================
