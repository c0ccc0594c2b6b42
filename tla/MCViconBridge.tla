---------------------------- MODULE MCViconBridge ----------------------------
(* The layouts that the runs of ViconBridge choose from.                   *)
EXTENDS ViconBridge

(* Subjects are absent, have a marker and a segment, or markers only. *)
MCLayouts ==
  {EmptyLayout,
   [markers |-> {"m1"}, segments |-> {"s1"}],
   [markers |-> {"m1", "m2"}, segments |-> {}]}

=============================================================================
