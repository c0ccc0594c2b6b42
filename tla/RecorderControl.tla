--------------------------- MODULE RecorderControl ---------------------------
(***************************************************************************)
(* What the window may rely on when it controls LabRecorder: the promise of *)
(* the LabRecorderClient, without its commands, its replies and its timers.*)
(*                                                                         *)
(* One operation runs at a time, and is confirmed or ends the connection.  *)
(* A start may reach the recorder only in an operation that starts, and    *)
(* from then on until a Stop is confirmed, or the user detaches, the client*)
(* remembers that the recorder may be recording.  A confirmed state is     *)
(* true.  Once the shutdown has begun nothing new is taken, and a Stop     *)
(* that is owed is sent as soon as the operation that runs has ended.      *)
(***************************************************************************)
VARIABLES
  connection,         \* RecorderConnectionState
  recording,          \* RecorderRecordingState: what the client believes
  operation,          \* RecorderOperationState
  startMay,           \* the recorder may be recording by a start of ours
  closing,            \* the shutdown has begun
  linked,             \* the connection reaches a running recorder
  recorder            \* [recording, letGo]: it records; it was detached from

vars ==
  <<connection, recording, operation, startMay, closing, linked, recorder>>

Operating == {"Refreshing", "UpdatingFilename", "Starting", "Stopping"}

Init ==
  /\ connection = "Disconnected"
  /\ recording = "Unknown"
  /\ operation = "Idle"
  /\ startMay = FALSE
  /\ closing = FALSE
  /\ linked = FALSE
  /\ recorder = [recording |-> FALSE, letGo |-> FALSE]

Halted == [recording |-> FALSE, letGo |-> FALSE]
Resting == IF closing THEN "ShuttingDown" ELSE "Idle"
Owed(may, believed) == may \/ believed = "Recording"

(* What the recorder may have made of what the operation has sent so far. *)
Effects ==
  {recorder}
    \cup (IF operation = "Starting" /\ startMay
          THEN {[recording |-> TRUE, letGo |-> recorder.letGo]} ELSE {})
    \cup (IF operation = "Stopping" THEN {Halted} ELSE {})

-----------------------------------------------------------------------------
Connect ==
  /\ ~closing
  /\ operation = "Idle"
  /\ connection \in {"Connecting", "Connected"} => ~Owed(startMay, recording)
  /\ connection' = "Connecting"
  /\ recording' = "Unknown"
  /\ linked' = FALSE
  /\ UNCHANGED <<operation, startMay, closing, recorder>>

Opened ==
  /\ connection = "Connecting"
  /\ connection' = "Connected"
  /\ recording' = "Unknown"
  /\ linked' = TRUE
  /\ UNCHANGED <<operation, startMay, closing, recorder>>

(* The user lets go of the recorder, whatever it is doing. *)
Detach ==
  /\ connection' = "Disconnected"
  /\ recording' = "Unknown"
  /\ operation' = Resting
  /\ startMay' = FALSE
  /\ linked' = FALSE
  /\ \E after \in Effects \cup (IF closing /\ startMay THEN {Halted} ELSE {}) :
       recorder' = [recording |-> after.recording,
                    letGo |-> after.letGo \/ startMay]
  /\ UNCHANGED closing

Request(requested) ==
  /\ ~closing
  /\ operation = "Idle"
  /\ connection = "Connected"
  /\ requested = "Starting" => ~Owed(startMay, recording)
  /\ requested = "UpdatingFilename" => recording # "Recording"
  /\ operation' = requested
  /\ UNCHANGED <<connection, recording, startMay, closing, linked, recorder>>

SendStart ==
  /\ operation = "Starting"
  /\ startMay' = TRUE
  /\ UNCHANGED <<connection, recording, operation, closing, linked, recorder>>

(* The operation is confirmed: what it did is known to be true. *)
Confirm ==
  /\ connection = "Connected"
  /\ \/ /\ operation \in {"Refreshing", "UpdatingFilename"}
        /\ UNCHANGED <<recording, startMay>>
     \/ /\ operation = "Starting"
        /\ startMay
        /\ linked => recorder.recording
        /\ recording' = "Recording"
        /\ UNCHANGED startMay
     \/ /\ operation = "Stopping"
        /\ ~recorder.recording
        /\ recording' = "Stopped"
        /\ startMay' = FALSE
  /\ operation' = IF closing /\ Owed(startMay', recording')
                  THEN "Stopping" ELSE Resting
  /\ UNCHANGED <<connection, closing, linked, recorder>>

(* A failure, of an operation or not, ends the connection and is confessed.*)
Lose ==
  /\ connection \in {"Connecting", "Connected"}
  /\ connection' \in {"Error", "Disconnected"}
  /\ recording' = "Unknown"
  /\ operation' = Resting
  /\ linked' = FALSE
  /\ recorder' \in Effects
  /\ UNCHANGED <<startMay, closing>>

BeginShutdown ==
  /\ ~closing
  /\ closing' = TRUE
  /\ \/ /\ operation \in Operating
        /\ UNCHANGED <<connection, recording, operation, linked>>
     \/ /\ operation = "Idle"
        /\ ~Owed(startMay, recording)
        /\ operation' = "ShuttingDown"
        /\ UNCHANGED <<connection, recording, linked>>
     \/ /\ operation = "Idle"
        /\ Owed(startMay, recording)
        /\ connection = "Connected"
        /\ operation' = "Stopping"
        /\ UNCHANGED <<connection, recording, linked>>
     \/ /\ operation = "Idle"
        /\ Owed(startMay, recording)
        /\ recording' = "Unknown"
        /\ operation' = "ShuttingDown"
        /\ linked' = FALSE
        /\ connection' = IF connection = "Connected"
                         THEN "Error" ELSE connection
  /\ UNCHANGED <<startMay, recorder>>

-----------------------------------------------------------------------------
(* The recorder does what it was told, dies, or is cut off. *)
RecorderActs ==
  /\ linked
  /\ recorder' \in Effects
  /\ UNCHANGED <<connection, recording, operation, startMay, closing, linked>>

RecorderGone ==
  /\ linked' = FALSE
  /\ recorder' \in {recorder, Halted}
  /\ UNCHANGED <<connection, recording, operation, startMay, closing>>

Next ==
  \/ Connect \/ Opened \/ Detach \/ SendStart \/ Confirm \/ Lose
  \/ \E requested \in Operating : Request(requested)
  \/ BeginShutdown \/ RecorderActs \/ RecorderGone

Spec == Init /\ [][Next]_vars

-----------------------------------------------------------------------------
(***************************************************************************)
(* Whatever records by a start of ours is remembered, until it was stopped *)
(* or let go: what shutdownSettledSafely rests on.                         *)
(***************************************************************************)
Remembered ==
  /\ recorder.recording => startMay \/ recorder.letGo
  /\ recording = "Recording" => startMay

(***************************************************************************)
(* A confirmed state is the recorder's own, while it can be reached and    *)
(* the opposite is not being asked for.                                    *)
(***************************************************************************)
Truthful ==
  linked =>
    /\ recording = "Recording" /\ operation # "Stopping" => recorder.recording
    /\ recording = "Stopped" /\ operation # "Starting" => ~recorder.recording
=============================================================================
