--------------------------- MODULE MCGazePublisher ---------------------------
(* The readings that the run of GazePublisher chooses from.                *)
EXTENDS GazePublisher

(* Three captures; the clock may be set forward or back after the second. *)
MCReadings ==
  [ticks : 1..3, clock : {"steady"}] \cup [ticks : {2}, clock : {"forward", "back"}]
=============================================================================
