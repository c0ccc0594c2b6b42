--------------------------- MODULE ViconTimestamps ---------------------------
(***************************************************************************)
(* The timestamps of published Vicon frames: the rule that keeps them       *)
(* finite and increasing (enforceViconTimestamp).                          *)
(*                                                                         *)
(* A double is abstracted to its place in the order of doubles: the finite *)
(* values are 0..MaxTime, std::nextafter is the successor, and NotFinite   *)
(* stands for NaN and the infinities.                                      *)
(***************************************************************************)
EXTENDS Integers

CONSTANT MaxTime    \* the greatest finite double

ASSUME MaxTimeAssumption == MaxTime \in Nat

Finite == 0..MaxTime
NotFinite == MaxTime + 1
Times == Finite \cup {NotFinite}

(***************************************************************************)
(* ViconTimestampState: the last published time, or NoTimestamp when        *)
(* have_timestamp is false.                                                *)
(***************************************************************************)
NoTimestamp == -1
TimestampState == Finite \cup {NoTimestamp}

enforceAllowingEqual(candidate, receipt, last) ==  \* faulty: off by one
  LET timestamp == IF candidate \in Finite THEN candidate ELSE receipt
  IN  IF timestamp \notin Finite THEN NotFinite
      ELSE IF timestamp >= last THEN timestamp
      ELSE IF receipt \in Finite /\ receipt > last THEN receipt
      ELSE last + 1

(***************************************************************************)
(* The time to publish, or NotFinite when the frame has to be skipped.     *)
(***************************************************************************)
enforceViconTimestamp(candidate, receipt, last) ==
  LET timestamp == IF candidate \in Finite THEN candidate ELSE receipt
  IN  IF timestamp \notin Finite THEN NotFinite
      ELSE IF timestamp > last THEN timestamp
      ELSE IF receipt \in Finite /\ receipt > last THEN receipt
      ELSE last + 1
=============================================================================
