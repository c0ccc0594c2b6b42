-------------------------- MODULE SessionOperations --------------------------
(***************************************************************************)
(* What the session window, the client and the process controller do, as   *)
(* functions of the session.                                               *)
(*                                                                         *)
(* Qt delivers a signal inside the call that emits it: a slot of the       *)
(* window runs in the middle of an operation of the client, sees it half   *)
(* done, and may call it again.  The operations are therefore functions    *)
(* of the whole session that pass through each emission in the order of    *)
(* the code, and the slots end, as there, with pumpSession.  That is a     *)
(* parameter: called within a pass of the pump it only asks for another    *)
(* pass, and else it makes the passes, of these same operations.           *)
(*                                                                         *)
(* A batch of commands is one unit here, with the moment that its start    *)
(* command is handed to the socket; LabRecorderClient has the details.     *)
(***************************************************************************)

EXTENDS Naturals, TLAPS

CONSTANTS
  AutomaticLaunch,    \* recorder_automatic_launch
  LocalRecorder,      \* the address is this computer and a program is found
  RecorderOnly,       \* recorder_only_mode: Start Session skips the bridge
  HasPreview,         \* the window has a preview panel
  pumpSession(_)      \* what a slot of the window does last

Closing(s) == s.window.sequence = "Closing"
startingSession(s) == s.window.sequence = "StartingSession"
stoppingSession(s) == s.window.sequence = "StoppingSession"

-----------------------------------------------------------------------------
(* What the window asks of the client and of the process. *)
isConnected(s) == s.client.socket = "Connected"

ownsRunningProcess(s) ==
  /\ s.process.os # "NotRunning"
  /\ s.process.state \in {"Launching", "OwnedRunning"}

Selected(s) == s.process.kind = "SelectedStreamRecorder"
OwnsGraphical(s) ==
  ownsRunningProcess(s) /\ s.process.kind = "GraphicalRecorder"

selectedStreamRecording(s) ==
  ownsRunningProcess(s) /\ Selected(s) /\ ~s.process.stopRequested

recorderCanStart(s) ==
  /\ s.client.connection = "Connected"
  /\ s.client.recording # "Recording"
  /\ s.client.operation = "Idle"
  /\ ~s.client.shutdown

verificationActive(s) == s.window.verification # "None"

requestVerification(s) ==
  IF Closing(s) \/ verificationActive(s) THEN s
  ELSE [s EXCEPT !.window.verification = "Waiting"]

scheduleFilenameSync(s) ==
  IF Closing(s) \/ ~s.window.every \/ ~recorderCanStart(s) THEN s
  ELSE [s EXCEPT !.window.sync = TRUE]

-----------------------------------------------------------------------------
(* The programs this app starts. *)
(* The Launching state is reported before the program is started. *)
startProcess(s, kind) ==
  [pumpSession([s EXCEPT !.process = [kind |-> kind, state |-> "Launching",
                               os |-> "NotRunning", stopRequested |-> FALSE,
                               ending |-> FALSE]])
     EXCEPT !.process.os = "Starting"]

StartGraphical(s) ==
  IF LocalRecorder THEN startProcess(s, "GraphicalRecorder") ELSE s

launchConfiguredRecorder(s) ==
  IF \/ Closing(s) \/ stoppingSession(s) \/ ~s.window.every
     \/ s.window.attempted \/ ownsRunningProcess(s)
  THEN s
  ELSE StartGraphical([s EXCEPT !.window.attempted = TRUE])

MayStopSelected(s) ==
  s.process.os # "NotRunning" /\ Selected(s) /\ ~s.process.stopRequested

stopSelectedStreamRecording(s) ==
  IF MayStopSelected(s)
  THEN pumpSession([s EXCEPT !.process.stopRequested = TRUE])
  ELSE s

endOwnedProcess(s) ==
  IF ~ownsRunningProcess(s) \/ s.process.ending THEN s
  ELSE stopSelectedStreamRecording([s EXCEPT !.process.ending = TRUE])

(* A program that is detached goes on alone. *)
Detach(s) ==
  IF s.process.os = "NotRunning"
  THEN pumpSession([s EXCEPT !.process.state = "Detached"])
  ELSE [pumpSession([s EXCEPT !.process.state = "Detached",
                       !.process.os = "NotRunning"])
          EXCEPT !.process.kind = "None"]

-----------------------------------------------------------------------------
(* The signals of the client, with the window's slots. *)
EndProbe(s) == [s EXCEPT !.window.probe = FALSE]

ReactToConnection(s, state) ==
  IF state = "Connected" THEN [EndProbe(s) EXCEPT !.window.retry = FALSE]
  ELSE IF ~s.window.probe \/ state = "Connecting" THEN s
  ELSE IF AutomaticLaunch THEN launchConfiguredRecorder(EndProbe(s))
  ELSE EndProbe(s)

setConnectionState(s, state) ==
  pumpSession(scheduleFilenameSync(
    ReactToConnection([s EXCEPT !.client.connection = state], state)))

ReactToRecording(s) ==
  IF s.client.recording = "Stopped" /\ s.window.stopRequested
  THEN requestVerification(s) ELSE s

setRecordingState(s, state) ==
  IF state = s.client.recording THEN s
  ELSE pumpSession(ReactToRecording([s EXCEPT !.client.recording = state]))

Resting(c) == IF c.batch # "None" THEN c.batch
              ELSE IF c.shutdown THEN "ShuttingDown" ELSE "Idle"

updateOperationState(s) ==
  IF Resting(s.client) = s.client.operation THEN s
  ELSE pumpSession([s EXCEPT !.client.operation = Resting(s.client)])

StopNotRenewed(s) ==        \* mutant
  IF s.window.stopRequested /\ ~Closing(s)
  THEN [s EXCEPT !.window.stopRequested = FALSE] ELSE s

(* A Stop that failed is asked for again, once the recorder can take it. *)
StopRefused(s) ==
  IF s.window.stopRequested /\ ~Closing(s)
  THEN [s EXCEPT !.window.stopRequested = FALSE, !.window.pendingStop = TRUE]
  ELSE s

commandFinished(s, operation, ok) ==
  pumpSession(IF operation # "Stopping" THEN s
       ELSE IF ok THEN requestVerification(s) ELSE StopRefused(s))

-----------------------------------------------------------------------------
(* The operations of the client. *)
MayBegin(s, operation) ==
  /\ s.client.shutdown => operation = "Stopping"
  /\ s.client.batch = "None"
  /\ isConnected(s)

beginBatch(s, operation) ==
  IF MayBegin(s, operation)
  THEN updateOperationState([s EXCEPT !.client.batch = operation])
  ELSE commandFinished(s, operation, FALSE)

continueShutdown(s) ==
  IF ~s.client.shutdown THEN s
  ELSE IF s.client.batch # "None" \/
          ~(s.client.startMay \/ s.client.recording = "Recording")
  THEN updateOperationState(s)
  ELSE IF isConnected(s) THEN beginBatch(s, "Stopping")
  ELSE updateOperationState(setRecordingState(s, "Unknown"))

(* What the recording is known to be after a batch. *)
Outcome(s, ok) ==
  CASE ~ok -> "Unknown"
    [] ok /\ s.client.batch = "Starting" -> "Recording"
    [] ok /\ s.client.batch = "Stopping" -> "Stopped"
    [] OTHER -> s.client.recording

ForgetStart(s, stopped) ==
  IF stopped THEN [s EXCEPT !.client.startMay = FALSE] ELSE s

finishActiveBatch(s, ok) ==
  IF s.client.batch = "None" THEN s
  ELSE continueShutdown(updateOperationState(commandFinished(
         ForgetStart(setRecordingState([s EXCEPT !.client.batch = "None"],
                                       Outcome(s, ok)),
                     ok /\ s.client.batch = "Stopping"),
         s.client.batch, ok)))

NowDisconnected(s) ==
  IF s.client.connection = "Error" THEN s
  ELSE setConnectionState(s, "Disconnected")

onDisconnected(s) ==
  updateOperationState(setRecordingState(
    finishActiveBatch(NowDisconnected(s), FALSE), "Unknown"))

(* socket_.abort() reports a disconnection if there was a connection. *)
abort(s) ==
  IF isConnected(s) THEN onDisconnected([s EXCEPT !.client.socket = "Closed"])
  ELSE [s EXCEPT !.client.socket = "Closed"]

failActiveConnection(s) ==
  updateOperationState(finishActiveBatch(
    setConnectionState(setRecordingState(abort(s), "Unknown"), "Error"), FALSE))

RefusesConnect(s) ==
  \/ s.client.shutdown
  \/ s.client.batch # "None"
  \/ /\ s.client.connection \in {"Connected", "Connecting"}
     /\ s.client.startMay \/ s.client.recording = "Recording"

connectToServer(s) ==
  IF RefusesConnect(s) THEN pumpSession(s)
  ELSE [setConnectionState(setRecordingState(abort(s), "Unknown"), "Connecting")
          EXCEPT !.client.socket = "Connecting"]

disconnectFromServer(s) ==
  updateOperationState(setConnectionState(setRecordingState(
    [abort(finishActiveBatch(s, FALSE)) EXCEPT !.client.startMay = FALSE],
    "Unknown"), "Disconnected"))

onConnected(s) ==
  setRecordingState(
    setConnectionState([s EXCEPT !.client.socket = "Connected"],
                       "Connected"),
    "Unknown")

beginShutdown(s) ==
  IF s.client.shutdown THEN s
  ELSE continueShutdown([s EXCEPT !.client.shutdown = TRUE])

shutdownReady(s) == s.client.shutdown /\ s.client.batch = "None"
shutdownSettledSafely(s) == shutdownReady(s) /\ ~s.client.startMay
-----------------------------------------------------------------------------
(* What the recorder does, whichever it is. *)
effectiveRecordingState(s) ==
  IF Selected(s)
  THEN IF selectedStreamRecording(s) THEN "Recording" ELSE "Stopped"
  ELSE IF s.window.every THEN s.client.recording ELSE "Stopped"

effectiveOperationState(s) ==
  IF ~Selected(s) THEN s.client.operation
  ELSE IF ownsRunningProcess(s) /\ ~selectedStreamRecording(s) THEN "Stopping"
  ELSE IF ownsRunningProcess(s) /\ s.process.state = "Launching"
  THEN "Starting"
  ELSE IF Closing(s) THEN "ShuttingDown" ELSE "Idle"

desiredRecordingState(c) ==
  CASE c.operation = "Starting" -> "Recording"
    [] c.operation = "Stopping" -> "Stopped"
    [] OTHER -> c.recording

recordingActiveOrPending(s) ==
  \/ s.window.pendingStart \/ s.window.pendingStop
  \/ effectiveRecordingState(s) = "Recording"
  \/ effectiveOperationState(s) \in {"Starting", "Stopping"}
  \/ s.client.startMay
  \/ desiredRecordingState(s.client) = "Recording"

recorderCanAcceptStop(s) ==
  \/ s.window.pendingStart
  \/ IF Selected(s) /\ ownsRunningProcess(s) THEN selectedStreamRecording(s)
     ELSE isConnected(s) /\ ~s.client.shutdown /\ s.client.operation = "Idle"

-----------------------------------------------------------------------------
(* Connecting to a recorder, and starting one if none answers. *)
onConnectLabRecorder(s) ==
  IF \/ ~s.window.every
     \/ /\ recordingActiveOrPending(s)
        /\ s.client.connection \in {"Connected", "Connecting"}
  THEN s
  ELSE connectToServer([s EXCEPT !.window.probe = FALSE,
                                 !.window.retry = OwnsGraphical(s)])

DetachOwned(s) == IF ownsRunningProcess(s) THEN Detach(s) ELSE s

onDetachLabRecorder(s) ==
  IF recordingActiveOrPending(s) THEN s
  ELSE DetachOwned(
         disconnectFromServer([s EXCEPT !.window.probe = FALSE,
                                        !.window.retry = FALSE]))

LeaveRemoteControl(s) ==
  IF \/ s.client.connection # "Disconnected"
     \/ s.process.kind = "GraphicalRecorder"
  THEN onDetachLabRecorder(s) ELSE s

beginLabRecorderStartup(s) ==
  IF Closing(s) \/ stoppingSession(s) THEN s
  ELSE IF ~s.window.every
  THEN LeaveRemoteControl([s EXCEPT !.window.probe = FALSE,
                                    !.window.retry = FALSE])
  ELSE IF s.client.connection = "Connecting" \/ isConnected(s) THEN s
  ELSE IF OwnsGraphical(s) THEN onConnectLabRecorder(s)
  ELSE connectToServer([s EXCEPT !.window.probe = TRUE,
                                 !.window.attempted = FALSE])

(* onLabRecorderRetry; expired: 15 s have gone since the timer was started. *)
onLabRecorderRetry(s, expired) ==
  IF \/ Closing(s) \/ stoppingSession(s) \/ ~s.window.every
     \/ s.client.connection = "Connected" \/ expired
  THEN [s EXCEPT !.window.retry = FALSE]
  ELSE IF s.client.connection = "Connecting" THEN s
  ELSE connectToServer(s)

-----------------------------------------------------------------------------
(* The other parts: stream search, bridge, preview. *)
startStreamDiscovery(s, forStart) ==
  [s EXCEPT !.window.pendingStart = @ \/ forStart,
            !.window.discovery = IF @ = "None" THEN "Running" ELSE @]

cancelStreamDiscovery(s) ==
  [s EXCEPT !.window.discovery = IF @ = "None" THEN "None" ELSE "Cancelled"]

onStart(s) ==
  IF s.bridge.thread # "None" \/ Closing(s) THEN s
  ELSE [s EXCEPT !.bridge = [thread |-> "Launched", stop |-> FALSE,
                             lifecycle |-> "Starting"]]

(* Only the first request is reported. *)
stopBridge(s) ==
  IF s.bridge.stop THEN s
  ELSE pumpSession([s EXCEPT !.bridge.lifecycle = "Stopping",
                             !.bridge.stop = TRUE])

StopNotSent(s) ==           \* mutant
  IF s.bridge.thread = "None" THEN s
  ELSE pumpSession([s EXCEPT !.bridge.lifecycle = "Stopping"])

onStop(s) ==
  IF s.bridge.thread = "None" THEN s
  ELSE stopBridge([s EXCEPT !.bridge.lifecycle = "Stopping"])

previewReady(s) == s.preview.worker = "None"

stopPreview(s) ==
  IF s.preview.worker # "Running" THEN s
  ELSE pumpSession([s EXCEPT !.preview.worker = "Stopping",
                      !.preview.lifecycle = "Stopping"])

startPreview(s) ==
  IF ~previewReady(s) THEN stopPreview(s)
  ELSE pumpSession([s EXCEPT !.preview = [worker |-> "Running", told |-> 0,
                                   lifecycle |-> "Starting"]])

-----------------------------------------------------------------------------
(* Start and Stop of a recording. *)
StartsDuringCheck(s) ==     \* mutant
  IF recordingActiveOrPending(s) \/ stoppingSession(s) \/ Closing(s)
  THEN s
  ELSE startStreamDiscovery([s EXCEPT !.window.sync = FALSE,
                                      !.window.stopRequested = FALSE], TRUE)

requestRecordingStart(s) ==
  IF \/ recordingActiveOrPending(s) \/ verificationActive(s)
     \/ stoppingSession(s) \/ Closing(s)
  THEN s
  ELSE startStreamDiscovery([s EXCEPT !.window.sync = FALSE,
                                      !.window.stopRequested = FALSE], TRUE)

AskForStop(s) ==
  IF recordingActiveOrPending(s)
  THEN [s EXCEPT !.window.pendingStop = TRUE, !.window.sync = FALSE]
  ELSE [s EXCEPT !.window.stopRequested = FALSE]

onStopRecording(s) ==
  IF \/ s.window.pendingStop \/ s.window.stopRequested
     \/ ~recordingActiveOrPending(s)
  THEN s
  ELSE pumpSession(AskForStop(cancelStreamDiscovery(
              [s EXCEPT !.window.pendingStart = FALSE])))

SendStopTo(s) ==
  IF Selected(s) /\ ownsRunningProcess(s)
  THEN stopSelectedStreamRecording(s)
  ELSE beginBatch(s, "Stopping")

advanceRecordingStop(s) ==
  IF ~s.window.pendingStop \/ ~recorderCanAcceptStop(s) THEN s
  ELSE SendStopTo([s EXCEPT !.window.pendingStop = FALSE,
                            !.window.stopRequested = TRUE])

-----------------------------------------------------------------------------
(* Start Session and Stop Session. *)
EndSequence(s) == [s EXCEPT !.window.sequence = "None"]

LookForRecorder(s) ==
  IF s.window.guided THEN s
  ELSE IF s.window.probe \/ s.window.retry
  THEN [s EXCEPT !.window.guided = TRUE]
  ELSE beginLabRecorderStartup([s EXCEPT !.window.guided = TRUE])

KeepLooking(s) ==
  IF \/ s.window.probe \/ s.window.retry
     \/ s.client.connection = "Connecting"
     \/ s.process.state = "Launching"
  THEN s ELSE EndSequence(s)

GuidedRecorder(s) ==
  IF ~s.window.every \/ (isConnected(s) /\ s.client.operation = "Idle")
  THEN requestRecordingStart(EndSequence(s))
  ELSE IF isConnected(s) THEN s
  ELSE KeepLooking(LookForRecorder(s))

GuidedPreview(s) ==
  CASE HasPreview /\ s.preview.lifecycle = "Failed" -> EndSequence(s)
    [] HasPreview /\ s.preview.lifecycle = "Starting" -> s
    [] HasPreview /\ s.preview.lifecycle \in {"Idle", "Stopping", "Stopped"} ->
         startPreview(s)
    [] OTHER -> GuidedRecorder(s)

advanceGuidedStart(s) ==
  CASE RecorderOnly \/ s.bridge.lifecycle = "Running" ->
         GuidedPreview(s)
    [] ~RecorderOnly /\ s.bridge.lifecycle = "Failed" -> EndSequence(s)
    [] OTHER -> onStart(s)

StopsBeforeCheck(s) ==      \* mutant
  IF recordingActiveOrPending(s)
  THEN IF recorderCanAcceptStop(s) THEN onStopRecording(s) ELSE s
  ELSE IF HasPreview /\ ~previewReady(s) THEN stopPreview(s)
  ELSE IF s.bridge.thread # "None" THEN onStop(s)
  ELSE IF OwnsGraphical(s) THEN endOwnedProcess(s)
  ELSE [EndSequence(s) EXCEPT !.window.stopRequested = FALSE]

advanceGuidedStop(s) ==
  IF recordingActiveOrPending(s)
  THEN IF recorderCanAcceptStop(s) THEN onStopRecording(s) ELSE s
  ELSE IF verificationActive(s) THEN s
  ELSE IF HasPreview /\ ~previewReady(s) THEN stopPreview(s)
  ELSE IF s.bridge.thread # "None" THEN onStop(s)
  ELSE IF OwnsGraphical(s) THEN endOwnedProcess(s)
  ELSE [EndSequence(s) EXCEPT !.window.stopRequested = FALSE]

-----------------------------------------------------------------------------
(* Closing (SessionSequencer and updateShutdownStatus). *)
SafeOnceReady(s) ==         \* mutant
  IF Selected(s) THEN ~ownsRunningProcess(s) ELSE shutdownReady(s)

recorderSafeToClose(s) ==
  IF Selected(s) THEN ~ownsRunningProcess(s) ELSE shutdownSettledSafely(s)

endOwnedProcessDecision(s) ==
  /\ ownsRunningProcess(s) /\ ~s.window.endRequested
  /\ recorderSafeToClose(s) \/ s.window.deadline

LostOnlyIfDisconnected(s) ==    \* mutant
  /\ shutdownReady(s) /\ ~shutdownSettledSafely(s)
  /\ s.client.connection = "Disconnected"
  /\ ~ownsRunningProcess(s)

recorderConnectionLostExternally(s) ==
  /\ shutdownReady(s) /\ ~shutdownSettledSafely(s)
  /\ s.client.connection \in {"Disconnected", "Error"}
  /\ ~ownsRunningProcess(s)

shutdownWaitsForNothing(s) ==
  /\ s.bridge.thread = "None"
  /\ previewReady(s)
  /\ s.window.discovery = "None"
  /\ ~verificationActive(s)
  /\ \/ recorderSafeToClose(s) /\ ~ownsRunningProcess(s)
     \/ recorderConnectionLostExternally(s)

EndRecorder(s) ==
  IF endOwnedProcessDecision(s)
  THEN endOwnedProcess([s EXCEPT !.window.endRequested = TRUE])
  ELSE s

FinishClose(s) ==
  IF shutdownWaitsForNothing(s) /\ ~s.window.finalizing
  THEN [EndSequence(s) EXCEPT !.window.finalizing = TRUE]
  ELSE s

updateShutdownStatus(s) ==
  IF Closing(s) THEN FinishClose(EndRecorder(s)) ELSE s

-----------------------------------------------------------------------------
(* One pass of the pump. *)
SendStop(s) ==
  IF Closing(s) THEN s ELSE advanceRecordingStop(s)

AdvanceStart(s) ==
  IF startingSession(s) THEN advanceGuidedStart(s) ELSE s

AdvanceStop(s) ==
  IF stoppingSession(s) THEN advanceGuidedStop(s) ELSE s

Pass(s) == updateShutdownStatus(AdvanceStop(AdvanceStart(SendStop(s))))
-----------------------------------------------------------------------------
(***************************************************************************)
(* What the operations keep.                                               *)
(***************************************************************************)
Lifecycles == {"Idle", "Starting", "Running", "Stopping", "Stopped", "Failed"}

(* The members of BridgeWindow. *)
Windows ==
  [sequence : {"None", "StartingSession", "StoppingSession", "Closing"},
   every : BOOLEAN, pendingStart : BOOLEAN, pendingStop : BOOLEAN,
   stopRequested : BOOLEAN,
   discovery : {"None", "Running", "Cancelled"},
   verification : {"None", "Waiting", "Checking", "Reported"},
   probe : BOOLEAN, retry : BOOLEAN, attempted : BOOLEAN,
   guided : BOOLEAN, sync : BOOLEAN, deadline : BOOLEAN,
   endRequested : BOOLEAN, finalizing : BOOLEAN]

Batches == {"None", "Starting", "Stopping", "Refreshing", "UpdatingFilename"}
Operations == {"Idle", "ShuttingDown"} \cup (Batches \ {"None"})

Clients ==
  [connection : {"Disconnected", "Connecting", "Connected", "Error"},
   socket : {"Closed", "Connecting", "Connected"},
   recording : {"Unknown", "Recording", "Stopped"},
   operation : Operations,
   batch : Batches, startMay : BOOLEAN, shutdown : BOOLEAN]

Processes ==
  [kind : {"None", "GraphicalRecorder", "SelectedStreamRecorder"},
   state : {"External", "Launching", "OwnedRunning", "LaunchFailed",
            "OwnedExited", "Detached"},
   os : {"NotRunning", "Starting", "Running"},
   stopRequested : BOOLEAN, ending : BOOLEAN]

Bridges ==
  [thread : {"None", "Launched", "Running", "Ended"}, stop : BOOLEAN,
   lifecycle : Lifecycles]

Previews ==
  [worker : {"None", "Running", "Stopping"}, told : 0 .. 4,
   lifecycle : Lifecycles]

Sessions ==
  [window : Windows, client : Clients, process : Processes,
   bridge : Bridges, preview : Previews, again : BOOLEAN]

(***************************************************************************)
(* What the operations keep. Every operation may call pumpSession, which is  *)
(* a constant here: the lemmas below assume of it what they prove of each    *)
(* operation (PumpKeeps), and SessionWindow_proofs proves that of both       *)
(* pumps, the one that only takes note and then the one that makes the       *)
(* passes. So the lemmas stand beside the operations, where both instances   *)
(* take them.                                                                *)
(*                                                                           *)
(* Agrees holds of the session whenever a slot runs, in the middle of an     *)
(* operation too. Keeps relates the session before an operation of the pump  *)
(* to the session after it, and is transitive: an operation keeps what the   *)
(* operations it calls keep.                                                 *)
(***************************************************************************)

(* A Stop is owed, or asked for. *)
Wanted(s) == s.window.pendingStop \/ s.window.stopRequested
(* The program that records selected streams runs. *)
Running(s) == Selected(s) /\ ownsRunningProcess(s)

(* True whenever a slot runs, in the middle of an operation too. *)
Agrees(s) ==
  /\ s.client.connection = "Connected" <=> isConnected(s)
  /\ s.process.os # "NotRunning" =>
       /\ s.process.state \in {"Launching", "OwnedRunning"}
       /\ s.process.kind # "None"
  /\ Selected(s) =>
       /\ ~s.window.every /\ ~s.client.startMay
       /\ s.client.batch \notin {"Starting", "Stopping"}
       /\ s.client.operation \notin {"Starting", "Stopping"}
       /\ s.window.pendingStop => Running(s) \/ s.client.shutdown
  /\ s.client.recording = "Recording" => s.client.startMay
  /\ s.window.pendingStart => ~Wanted(s)
  /\ ~(s.window.pendingStop /\ s.window.stopRequested)
  /\ s.client.batch = "Stopping" => s.window.stopRequested \/ s.client.shutdown
  /\ Running(s) /\ s.process.stopRequested =>
       s.window.stopRequested \/ s.client.shutdown
  /\ isConnected(s) => ~s.window.probe
  /\ s.client.batch # "None" => s.client.operation = s.client.batch
  /\ Closing(s) => s.client.shutdown /\ ~s.window.pendingStart
  /\ s.client.shutdown => Closing(s) \/ s.window.finalizing
  /\ s.window.finalizing => s.window.sequence = "None"
  /\ s.bridge.stop => s.bridge.thread # "None"
  /\ ~HasPreview => s.preview.worker = "None"

(* Recording selected streams, the recorder of the window is not used. *)
LocalIsQuiet(s) == ~s.window.every =>
  /\ ~s.client.startMay /\ s.client.batch # "Starting"
  /\ \/ s.process.os = "NotRunning" \/ Selected(s)
     \/ stoppingSession(s) \/ Closing(s) \/ s.window.finalizing

(* A Stop of the selected-stream program has been sent, or a close does it. *)
StopIsOnItsWay(s) ==
  Running(s) /\ s.window.pendingStop => Closing(s) \/ s.window.finalizing

(* Within a pass, the pump asks for another pass instead of making it. *)
PumpAsks(S) == \E s \in S : Agrees(s) /\ pumpSession(s).again

(* The Stop is sent, or the pump comes once more. *)
StopGoesOn(s) == StopIsOnItsWay(s) \/ (PumpAsks(Sessions) /\ s.again)

(* What Stop Session waits for before it stops the bridge. *)
AllQuiet(s) ==
  /\ s.preview.worker = "None"
  /\ ~recordingActiveOrPending(s) /\ ~verificationActive(s)

(* The one way from no program to a program within an operation. *)
Launched(s, t) ==
  /\ s.window.probe \/ startingSession(s)
  /\ ~Closing(s) /\ ~s.window.finalizing
  /\ s.window.every /\ s.process.os = "NotRunning"
  /\ t.process.kind = "GraphicalRecorder" /\ t.process.state = "Launching"
  /\ t.process.os = "Starting"
  /\ t.process.ending => t.window.deadline \/ ~t.client.startMay

(* The program stays, or is told to stop or to end when it may be. *)
SameProgram(s, t) ==
  /\ t.process.kind = s.process.kind /\ t.process.state = s.process.state
  /\ t.process.os = s.process.os
  /\ s.process.stopRequested => t.process.stopRequested
  /\ t.process.stopRequested =>
       s.process.stopRequested \/ s.process.os # "NotRunning"
  /\ ~s.process.ending /\ t.process.ending =>
       t.window.deadline \/ (~t.client.startMay /\ ~Selected(t))

(* What no operation does, whatever slots run in the middle of it. *)
Moves(s, t) ==
  /\ t.window.every = s.window.every
  /\ t.window.deadline = s.window.deadline
  /\ \/ t.window.verification = s.window.verification
     \/ s.window.verification = "None" /\ t.window.verification = "Waiting"
  /\ t.client.startMay => s.client.startMay
  /\ t.client.shutdown = s.client.shutdown
  /\ SameProgram(s, t) \/ Launched(s, t)
  /\ isConnected(t) => isConnected(s)
  /\ t.client.batch = s.client.batch \/ t.client.batch \in {"None", "Stopping"}
  /\ s.client.startMay /\ t.client.startMay /\ Wanted(s) => Wanted(t)
  /\ t.window.sequence = s.window.sequence \/ t.window.sequence = "None"
  /\ s.window.finalizing => t.window.finalizing
  /\ t.window.finalizing => s.window.finalizing \/ Closing(s)
  /\ Closing(s) => Closing(t) \/ t.window.finalizing
  /\ t.window.probe => s.window.probe \/ startingSession(s)
  /\ t.window.pendingStart => s.window.pendingStart \/ startingSession(s)
  /\ LocalIsQuiet(s) => LocalIsQuiet(t)
  /\ s.bridge.stop => t.bridge.stop
  /\ ~stoppingSession(s) /\ ~s.bridge.stop => ~t.bridge.stop
  /\ \/ t.bridge.thread = s.bridge.thread
     \/ startingSession(s) /\ s.bridge.thread = "None"
  /\ t.window.finalizing => s.window.finalizing \/ t.bridge.thread = "None"

(* Without a connection nothing is under way and nothing is known. *)
CutIsKnown(s) ==
  ~isConnected(s) => s.client.recording = "Unknown" /\ s.client.batch = "None"

(* A start that waits finds nothing that records. *)
FreshStart(s) == s.window.pendingStart =>
  /\ ~s.client.startMay /\ s.client.batch \notin {"Starting", "Stopping"}
  /\ ~Running(s) /\ ~verificationActive(s)

(* While a file is checked nothing records, and no Stop is on its way. *)
FileIsAlone(s) ==
  verificationActive(s) =>
    /\ s.client.batch # "Starting" /\ ~s.client.startMay /\ ~Running(s)
    /\ ~s.client.shutdown => s.client.batch # "Stopping" /\ ~s.window.pendingStop
    /\ ~s.client.shutdown /\ s.window.verification = "Reported" =>
         ~s.window.stopRequested

(* The client tells of a Start or Stop only while that is its batch. *)
Settled(s) ==
  s.client.operation \in {"Starting", "Stopping"} =>
    s.client.batch = s.client.operation

(* See StopRequestIsBacked. *)
Backed(s) ==
  s.window.stopRequested =>
    \/ s.client.batch = "Stopping" \/ verificationActive(s)
    \/ Selected(s) /\ s.process.stopRequested
    \/ s.window.sequence = "Closing" \/ s.window.finalizing

(* See ClosesSafely. *)
ClosedSafely(s) ==
  s.window.finalizing =>
    /\ \/ ~s.client.startMay /\ s.client.batch # "Starting"
       \/ recorderConnectionLostExternally(s)
    /\ ~ownsRunningProcess(s)

(* What an operation of the pump does not do either: the recording and the   *)
(* check of the file are as they were, and what was good of the session      *)
(* stays so.                                                                 *)
Stays(s, t) ==
  /\ Moves(s, t)
  /\ t.window.verification = s.window.verification
  /\ t.client.startMay = s.client.startMay
  /\ SameProgram(s, t)
  /\ isConnected(t) <=> isConnected(s)
  /\ \/ t.client.batch = s.client.batch /\ t.client.operation = s.client.operation
     \/ /\ s.client.batch = "None" /\ s.client.operation = "Idle"
        /\ isConnected(s) /\ t.client.batch = "Stopping"
  /\ t.client.recording = s.client.recording \/ t.client.recording = "Unknown"
  /\ s.client.startMay \/ Running(s) => (Wanted(s) => Wanted(t))
  /\ s.window.stopRequested /\ ~t.window.stopRequested =>
       ~stoppingSession(t) /\ ~t.window.pendingStop
  /\ ~stoppingSession(s) /\ ~s.window.pendingStop =>
       /\ ~t.window.pendingStop
       /\ ~s.window.stopRequested => ~t.window.stopRequested
  /\ CutIsKnown(s) => CutIsKnown(t)
  /\ FreshStart(s) => FreshStart(t)
  /\ FreshStart(s) /\ FileIsAlone(s) => FileIsAlone(t)
  /\ Backed(s) => Backed(t)
  /\ Settled(s) => Settled(t)
  /\ ClosedSafely(s) => ClosedSafely(t)
  /\ stoppingSession(s) /\ ~s.bridge.stop /\ t.bridge.stop => AllQuiet(t)
  /\ ~startingSession(s) /\ AllQuiet(s) => AllQuiet(t)

(* And a Stop that was on its way is not held up. *)
Keeps(s, t) == Stays(s, t) /\ (StopGoesOn(s) => StopGoesOn(t))

USE DEF Closing, startingSession, stoppingSession, isConnected,
        ownsRunningProcess, Selected, Running, Wanted, verificationActive

(* The pump, or the note of another pass that stands for it within one. *)
PumpKeeps(S) ==
  \A s \in S : Agrees(s) =>
    /\ pumpSession(s) \in Sessions /\ Agrees(pumpSession(s))
    /\ Keeps(s, pumpSession(s)) /\ StopGoesOn(pumpSession(s))

(* The relations pass from one operation to the next. *)
LEMMA MovesTransitive ==
  ASSUME NEW s \in Sessions, NEW t \in Sessions, NEW u \in Sessions,
         Moves(s, t), Moves(t, u)
  PROVE  Moves(s, u)
BY SMTT(30) DEF Moves, SameProgram, Launched, Sessions, Windows, Clients,
  Processes, Bridges, Previews, Batches, Operations, Lifecycles

(* See MovesTransitive. *)
LEMMA StaysTransitive ==
  ASSUME NEW s \in Sessions, NEW t \in Sessions, NEW u \in Sessions,
         Stays(s, t), Stays(t, u)
  PROVE  Stays(s, u)
<1>1. Moves(s, u) BY MovesTransitive DEF Stays
<1>2. SameProgram(s, u)
  BY SMTT(30) DEF Stays, Moves, SameProgram, Sessions, Windows, Clients,
    Processes, Bridges, Previews, Batches, Operations, Lifecycles
<1>. QED BY <1>1, <1>2, SMTT(30) DEF Stays, Moves, SameProgram, Sessions,
  Windows, Clients, Processes, Bridges, Previews, Batches, Operations,
  Lifecycles

(* See MovesTransitive. *)
LEMMA KeepsTransitive ==
  ASSUME NEW s \in Sessions, NEW t \in Sessions, NEW u \in Sessions,
         Keeps(s, t), Keeps(t, u)
  PROVE  Keeps(s, u)
BY StaysTransitive DEF Keeps

(* An operation that returns early keeps everything. *)
LEMMA KeepsReflexive ==
  ASSUME NEW s \in Sessions, Agrees(s)
  PROVE  Keeps(s, s)
BY SMTT(30) DEF Keeps, Stays, Moves, SameProgram, Agrees, Sessions, Windows,
  Clients, Processes, Bridges, Previews, Batches, Operations, Lifecycles

(* What keeps the session keeps it with the pump behind it. *)
LEMMA PumpedKeeps ==
  ASSUME PumpKeeps(Sessions), NEW s \in Sessions, NEW u \in Sessions,
         Agrees(u), Keeps(s, u)
  PROVE  LET t == pumpSession(u) IN
         t \in Sessions /\ Agrees(t) /\ Keeps(s, t) /\ StopGoesOn(t)
BY KeepsTransitive DEF PumpKeeps

(* The program is only told to stop when that was asked for. *)
LEMMA stopSelectedStreamRecordingKeeps ==
  ASSUME PumpKeeps(Sessions), NEW s \in Sessions, Agrees(s),
         s.window.stopRequested \/ s.client.shutdown
  PROVE  LET t == stopSelectedStreamRecording(s) IN
         t \in Sessions /\ Agrees(t) /\ Keeps(s, t)
<1>. DEFINE u == [s EXCEPT !.process.stopRequested = TRUE]
<1>1. u \in Sessions
  BY DEF Sessions, Processes
<1>2. CASE MayStopSelected(s)
  <2>1. Agrees(u)
    BY <1>2, SMTT(30) DEF Sessions, Windows, Clients, Processes, Bridges,
      Previews, Batches, Operations, Lifecycles, Agrees, MayStopSelected
  <2>2. Keeps(s, u)
    BY <1>2, SMTT(30) DEF Sessions, Windows, Clients, Processes, Bridges,
      Previews, Batches, Operations, Lifecycles, Keeps, Stays, Moves,
      SameProgram, LocalIsQuiet, StopGoesOn, StopIsOnItsWay, Agrees,
      CutIsKnown, FreshStart, FileIsAlone, Settled, Backed, ClosedSafely,
      AllQuiet, recordingActiveOrPending, effectiveRecordingState,
      effectiveOperationState, selectedStreamRecording, desiredRecordingState,
      recorderConnectionLostExternally, shutdownReady, shutdownSettledSafely,
      MayStopSelected
  <2>. QED BY <1>1, <1>2, <2>1, <2>2, PumpedKeeps DEF
    stopSelectedStreamRecording
<1>3. CASE ~MayStopSelected(s)
  BY <1>3, KeepsReflexive DEF stopSelectedStreamRecording
<1>. QED BY <1>2, <1>3

(* A program is only ended when nothing may record in it. *)
LEMMA endOwnedProcessKeeps ==
  ASSUME PumpKeeps(Sessions), NEW s \in Sessions, Agrees(s),
         s.window.deadline \/ (~Selected(s) /\ ~s.client.startMay),
         Selected(s) => s.window.stopRequested \/ s.client.shutdown
  PROVE  LET t == endOwnedProcess(s) IN
         t \in Sessions /\ Agrees(t) /\ Keeps(s, t)
<1>. DEFINE u == [s EXCEPT !.process.ending = TRUE]
<1>1. u \in Sessions
  BY DEF Sessions, Processes
<1>2. CASE ~ownsRunningProcess(s) \/ s.process.ending
  BY <1>2, KeepsReflexive DEF endOwnedProcess
<1>3. CASE ~(~ownsRunningProcess(s) \/ s.process.ending)
  <2>1. Agrees(u) /\ Keeps(s, u)
    BY <1>3, SMTT(30) DEF Sessions, Windows, Clients, Processes, Bridges,
      Previews, Batches, Operations, Lifecycles, Keeps, Stays, Moves,
      SameProgram, LocalIsQuiet, StopGoesOn, StopIsOnItsWay, Agrees,
      CutIsKnown, FreshStart, FileIsAlone, Settled, Backed, ClosedSafely,
      AllQuiet, recordingActiveOrPending, effectiveRecordingState,
      effectiveOperationState, selectedStreamRecording, desiredRecordingState,
      recorderConnectionLostExternally, shutdownReady, shutdownSettledSafely
  <2>2. CASE Selected(s)
    <3>1. u.window.stopRequested \/ u.client.shutdown
      BY <2>2 DEF Sessions, Windows, Clients, Processes, Bridges, Previews,
        Batches, Operations, Lifecycles
    <3>. QED BY <1>1, <1>3, <2>1, <3>1, stopSelectedStreamRecordingKeeps,
      KeepsTransitive DEF endOwnedProcess
  <2>3. CASE ~Selected(s)
    <3>1. ~MayStopSelected(u)
      BY <2>3 DEF Sessions, Windows, Clients, Processes, Bridges, Previews,
        Batches, Operations, Lifecycles, MayStopSelected
    <3>. QED BY <1>1, <1>3, <2>1, <3>1 DEF endOwnedProcess,
      stopSelectedStreamRecording
  <2>. QED BY <2>2, <2>3
<1>. QED BY <1>2, <1>3

(* The bridge starts with the session. *)
LEMMA onStartKeeps ==
  ASSUME NEW s \in Sessions, Agrees(s), startingSession(s)
  PROVE  LET t == onStart(s) IN
         t \in Sessions /\ Agrees(t) /\ Keeps(s, t)
<1>. DEFINE u == [s EXCEPT !.bridge = [thread |-> "Launched", stop |-> FALSE,
                                       lifecycle |-> "Starting"]]
<1>1. u \in Sessions
  BY DEF Sessions, Bridges, Lifecycles
<1>2. CASE s.bridge.thread # "None"
  BY <1>2, KeepsReflexive DEF onStart
<1>3. CASE s.bridge.thread = "None"
  <2>1. Agrees(u) /\ Keeps(s, u)
    BY <1>3, SMTT(30) DEF Sessions, Windows, Clients, Processes, Bridges,
      Previews, Batches, Operations, Lifecycles, Keeps, Stays, Moves,
      SameProgram, LocalIsQuiet, StopGoesOn, StopIsOnItsWay, Agrees,
      CutIsKnown, FreshStart, FileIsAlone, Settled, Backed, ClosedSafely,
      AllQuiet, recordingActiveOrPending, effectiveRecordingState,
      effectiveOperationState, selectedStreamRecording, desiredRecordingState,
      recorderConnectionLostExternally, shutdownReady, shutdownSettledSafely
  <2>. QED BY <1>1, <1>3, <2>1 DEF onStart
<1>. QED BY <1>2, <1>3

(* The preview stops. *)
LEMMA stopPreviewKeeps ==
  ASSUME PumpKeeps(Sessions), NEW s \in Sessions, Agrees(s)
  PROVE  LET t == stopPreview(s) IN
         t \in Sessions /\ Agrees(t) /\ Keeps(s, t)
<1>. DEFINE u == [s EXCEPT !.preview.worker = "Stopping"]
            v == [u EXCEPT !.preview.lifecycle = "Stopping"]
<1>1. CASE s.preview.worker # "Running"
  BY <1>1, KeepsReflexive DEF stopPreview
<1>2. CASE s.preview.worker = "Running"
  <2>1. u \in Sessions
    BY DEF Sessions, Previews
  <2>2. Agrees(u) /\ Keeps(s, u)
    BY <1>2, SMTT(30) DEF Sessions, Windows, Clients, Processes, Bridges,
      Previews, Batches, Operations, Lifecycles, Keeps, Stays, Moves,
      SameProgram, LocalIsQuiet, StopGoesOn, StopIsOnItsWay, Agrees,
      CutIsKnown, FreshStart, FileIsAlone, Settled, Backed, ClosedSafely,
      AllQuiet, recordingActiveOrPending, effectiveRecordingState,
      effectiveOperationState, selectedStreamRecording, desiredRecordingState,
      recorderConnectionLostExternally, shutdownReady, shutdownSettledSafely
  <2>3. stopPreview(s) = pumpSession(v)
    BY <1>2 DEF stopPreview
  <2>. HIDE DEF u
  <2>4. v \in Sessions
    BY <2>1 DEF Sessions, Previews, Lifecycles
  <2>5. Agrees(v) /\ Keeps(u, v)
    BY <2>1, <2>2, SMTT(30) DEF Sessions, Windows, Clients, Processes, Bridges,
      Previews, Batches, Operations, Lifecycles, Keeps, Stays, Moves,
      SameProgram, LocalIsQuiet, StopGoesOn, StopIsOnItsWay, Agrees,
      CutIsKnown, FreshStart, FileIsAlone, Settled, Backed, ClosedSafely,
      AllQuiet, recordingActiveOrPending, effectiveRecordingState,
      effectiveOperationState, selectedStreamRecording, desiredRecordingState,
      recorderConnectionLostExternally, shutdownReady, shutdownSettledSafely
  <2>. QED BY <2>1, <2>2, <2>3, <2>4, <2>5, KeepsTransitive, PumpedKeeps
<1>. QED BY <1>1, <1>2

(* The preview starts with the session. *)
LEMMA startPreviewKeeps ==
  ASSUME PumpKeeps(Sessions), NEW s \in Sessions, Agrees(s),
         startingSession(s), HasPreview
  PROVE  LET t == startPreview(s) IN
         t \in Sessions /\ Agrees(t) /\ Keeps(s, t)
<1>. DEFINE u == [s EXCEPT !.preview = [worker |-> "Running", told |-> 0,
                                        lifecycle |-> "Starting"]]
<1>1. u \in Sessions
  BY DEF Sessions, Previews, Lifecycles
<1>2. Agrees(u) /\ Keeps(s, u)
  BY SMTT(30) DEF Sessions, Windows, Clients, Processes, Bridges, Previews,
    Batches, Operations, Lifecycles, Keeps, Stays, Moves, SameProgram,
    LocalIsQuiet, StopGoesOn, StopIsOnItsWay, Agrees, CutIsKnown, FreshStart,
    FileIsAlone, Settled, Backed, ClosedSafely, AllQuiet,
    recordingActiveOrPending, effectiveRecordingState, effectiveOperationState,
    selectedStreamRecording, desiredRecordingState,
    recorderConnectionLostExternally, shutdownReady, shutdownSettledSafely
<1>3. pumpSession(u) \in Sessions /\ Agrees(pumpSession(u)) /\ Keeps(s, pumpSession(u))
  BY <1>1, <1>2, PumpedKeeps
<1>. QED BY <1>3, stopPreviewKeeps DEF startPreview

(* The bridge stops when all the rest is quiet. *)
LEMMA onStopKeeps ==
  ASSUME PumpKeeps(Sessions), NEW s \in Sessions, Agrees(s),
         stoppingSession(s), AllQuiet(s)
  PROVE  LET t == onStop(s) IN
         t \in Sessions /\ Agrees(t) /\ Keeps(s, t)
<1>. DEFINE u == [s EXCEPT !.bridge.lifecycle = "Stopping"]
            v == [u EXCEPT !.bridge.lifecycle = "Stopping"]
            w == [v EXCEPT !.bridge.stop = TRUE]
<1>1. CASE s.bridge.thread = "None"
  BY <1>1, KeepsReflexive DEF onStop
<1>2. CASE s.bridge.thread # "None"
  <2>1. u \in Sessions
    BY DEF Sessions, Bridges, Lifecycles
  <2>2. /\ Agrees(u) /\ Keeps(s, u) /\ stoppingSession(u) /\ AllQuiet(u)
        /\ u.bridge.thread # "None"
    BY <1>2, SMTT(30) DEF Sessions, Windows, Clients, Processes, Bridges,
      Previews, Batches, Operations, Lifecycles, Keeps, Stays, Moves,
      SameProgram, LocalIsQuiet, StopGoesOn, StopIsOnItsWay, Agrees,
      CutIsKnown, FreshStart, FileIsAlone, Settled, Backed, ClosedSafely,
      AllQuiet, recordingActiveOrPending, effectiveRecordingState,
      effectiveOperationState, selectedStreamRecording, desiredRecordingState,
      recorderConnectionLostExternally, shutdownReady, shutdownSettledSafely
  <2>3. onStop(s) = IF u.bridge.stop THEN u ELSE pumpSession(w)
    BY <1>2 DEF onStop, stopBridge
  <2>. HIDE DEF u
  <2>4. v \in Sessions
    BY <2>1 DEF Sessions, Bridges, Lifecycles
  <2>5. /\ Agrees(v) /\ Keeps(u, v) /\ stoppingSession(v) /\ AllQuiet(v)
        /\ v.bridge.thread # "None"
    BY <2>1, <2>2, SMTT(30) DEF Sessions, Windows, Clients, Processes, Bridges,
      Previews, Batches, Operations, Lifecycles, Keeps, Stays, Moves,
      SameProgram, LocalIsQuiet, StopGoesOn, StopIsOnItsWay, Agrees,
      CutIsKnown, FreshStart, FileIsAlone, Settled, Backed, ClosedSafely,
      AllQuiet, recordingActiveOrPending, effectiveRecordingState,
      effectiveOperationState, selectedStreamRecording, desiredRecordingState,
      recorderConnectionLostExternally, shutdownReady, shutdownSettledSafely
  <2>. HIDE DEF v
  <2>6. w \in Sessions
    BY <2>4 DEF Sessions, Bridges
  <2>7. Agrees(w) /\ Keeps(v, w)
    BY <2>4, <2>5, SMTT(30) DEF Sessions, Windows, Clients, Processes, Bridges,
      Previews, Batches, Operations, Lifecycles, Keeps, Stays, Moves,
      SameProgram, LocalIsQuiet, StopGoesOn, StopIsOnItsWay, Agrees,
      CutIsKnown, FreshStart, FileIsAlone, Settled, Backed, ClosedSafely,
      AllQuiet, recordingActiveOrPending, effectiveRecordingState,
      effectiveOperationState, selectedStreamRecording, desiredRecordingState,
      recorderConnectionLostExternally, shutdownReady, shutdownSettledSafely
  <2>8. Keeps(s, v) /\ Keeps(s, w)
    BY <2>1, <2>2, <2>4, <2>5, <2>6, <2>7, KeepsTransitive
  <2>9. pumpSession(w) \in Sessions /\ Agrees(pumpSession(w)) /\ Keeps(s, pumpSession(w))
    BY <2>6, <2>7, <2>8, PumpedKeeps
  <2>. HIDE DEF w
  <2>. QED BY <2>1, <2>2, <2>3, <2>9
<1>. QED BY <1>1, <1>2

(* What two updates of one record leave, for the provers to go by. *)
WindowOnly(s, t) ==
  /\ t.client = s.client /\ t.process = s.process /\ t.bridge = s.bridge
  /\ t.preview = s.preview /\ t.again = s.again

(* The client alone has changed. *)
ClientOnly(s, t) ==
  /\ t.window = s.window /\ t.process = s.process /\ t.bridge = s.bridge
  /\ t.preview = s.preview /\ t.again = s.again

(* Only what the user wishes of the recording has changed. *)
OnlyWishes(s, t) ==
  /\ WindowOnly(s, t)
  /\ t.window.sequence = s.window.sequence
  /\ t.window.every = s.window.every
  /\ t.window.verification = s.window.verification
  /\ t.window.probe = s.window.probe
  /\ t.window.deadline = s.window.deadline
  /\ t.window.finalizing = s.window.finalizing

(* Only the end of the close has changed. *)
ButForEnd(s, t) ==
  /\ WindowOnly(s, t)
  /\ t.window.every = s.window.every
  /\ t.window.verification = s.window.verification
  /\ t.window.probe = s.window.probe
  /\ t.window.deadline = s.window.deadline
  /\ t.window.pendingStart = s.window.pendingStart
  /\ t.window.pendingStop = s.window.pendingStop
  /\ t.window.stopRequested = s.window.stopRequested

(* Only the batch and the operation of the client have changed. *)
ButForBatch(s, t) ==
  /\ ClientOnly(s, t)
  /\ t.client.connection = s.client.connection
  /\ t.client.socket = s.client.socket
  /\ t.client.recording = s.client.recording
  /\ t.client.startMay = s.client.startMay
  /\ t.client.shutdown = s.client.shutdown

(* A Stop becomes pending, or requested. *)
LEMMA StopUpdate ==
  ASSUME NEW s \in Sessions, NEW pending \in BOOLEAN, NEW requested \in BOOLEAN
  PROVE  LET t == [s EXCEPT !.window.pendingStop = pending,
                            !.window.stopRequested = requested] IN
         /\ t \in Sessions /\ OnlyWishes(s, t)
         /\ t.window.pendingStart = s.window.pendingStart
         /\ t.window.pendingStop = pending /\ t.window.stopRequested = requested
<1>. DEFINE u == [s EXCEPT !.window.pendingStop = pending]
            t == [u EXCEPT !.window.stopRequested = requested]
<1>1. /\ u \in Sessions /\ OnlyWishes(s, u) /\ u.window.pendingStop = pending
      /\ u.window.pendingStart = s.window.pendingStart
  BY DEF Sessions, Windows, OnlyWishes, WindowOnly
<1>2. t = [s EXCEPT !.window.pendingStop = pending, !.window.stopRequested = requested]
  OBVIOUS
<1>. HIDE DEF u
<1>3. /\ t \in Sessions /\ OnlyWishes(u, t) /\ t.window.pendingStart = u.window.pendingStart
      /\ t.window.pendingStop = u.window.pendingStop /\ t.window.stopRequested = requested
  BY <1>1 DEF Sessions, Windows, OnlyWishes, WindowOnly
<1>. HIDE DEF t
<1>4. OnlyWishes(s, t)
  BY <1>1, <1>3 DEF OnlyWishes, WindowOnly
<1>. QED BY <1>1, <1>2, <1>3, <1>4

(* A batch that may begin is the only thing that the pump then sees as new. *)
LEMMA BatchBegins ==
  ASSUME NEW s \in Sessions, NEW batch \in Batches \ {"None"},
         MayBegin(s, batch), s.client.operation # batch
  PROVE  \E t \in Sessions :
           /\ beginBatch(s, batch) = pumpSession(t)
           /\ ButForBatch(s, t)
           /\ t.client.batch = batch /\ t.client.operation = batch
<1>. DEFINE b == [s EXCEPT !.client.batch = batch]
            o == [b EXCEPT !.client.operation = batch]
<1>1. beginBatch(s, batch) = updateOperationState(b)
  BY DEF beginBatch
<1>2. /\ b \in Sessions /\ ButForBatch(s, b)
      /\ b.client.batch = batch /\ b.client.operation # batch
  BY DEF Sessions, Clients, ButForBatch, ClientOnly
<1>. HIDE DEF b
<1>3. batch \in Operations
  BY DEF Operations
<1>4. /\ o \in Sessions /\ ButForBatch(b, o)
      /\ o.client.batch = batch /\ o.client.operation = batch
  BY <1>2, <1>3 DEF Sessions, Clients, ButForBatch, ClientOnly
<1>5. Resting(b.client) = batch
  BY <1>2 DEF Resting
<1>6. updateOperationState(b) = pumpSession(o)
  <2>1. updateOperationState(b)
          = pumpSession([b EXCEPT !.client.operation = Resting(b.client)])
    BY <1>2, <1>5 DEF updateOperationState
  <2>. QED BY <1>5, <2>1
<1>. HIDE DEF o
<1>7. ButForBatch(s, o)
  BY <1>2, <1>4 DEF ButForBatch, ClientOnly
<1>. QED BY <1>1, <1>4, <1>6, <1>7

(* The stop of this app's own recording was asked for, or none is wanted. *)
Sent(s) ==
  s.window.stopRequested \/ (~stoppingSession(s) /\ ~s.window.pendingStop)

(* A Stop that is sent stays so. *)
LEMMA SentStays ==
  ASSUME NEW s \in Sessions, NEW t \in Sessions, Sent(s), Keeps(s, t)
  PROVE  Sent(t)
BY SMTT(30) DEF Sent, Keeps, Stays, Moves, Sessions, Windows, Clients,
  Processes, Bridges, Previews, Batches, Operations, Lifecycles

(* The Stop that is pending is sent, to the recorder of this app or over the *)
(* remote control.                                                           *)
LEMMA advanceRecordingStopKeeps ==
  ASSUME PumpKeeps(Sessions), NEW s \in Sessions, Agrees(s)
  PROVE  LET t == advanceRecordingStop(s) IN
         /\ t \in Sessions /\ Agrees(t) /\ Keeps(s, t)
         /\ StopGoesOn(t)
         /\ Running(s) /\ Wanted(s) /\ ~s.client.shutdown => Sent(t)
<1>1. CASE ~s.window.pendingStop \/ ~recorderCanAcceptStop(s)
  <2>1. advanceRecordingStop(s) = s
    BY <1>1 DEF advanceRecordingStop
  <2>2. StopGoesOn(s)
    BY <1>1, SMTT(30) DEF Sessions, Windows, Clients, Processes, Bridges,
      Previews, Batches, Operations, Lifecycles, Agrees, StopGoesOn,
      StopIsOnItsWay, recorderCanAcceptStop, selectedStreamRecording
  <2>3. Running(s) /\ Wanted(s) /\ ~s.client.shutdown => Sent(s)
    BY <1>1, SMTT(30) DEF Sessions, Windows, Clients, Processes, Bridges,
      Previews, Batches, Operations, Lifecycles, Agrees, Sent,
      recorderCanAcceptStop, selectedStreamRecording
  <2>. QED BY <2>1, <2>2, <2>3, KeepsReflexive
<1>2. CASE ~(~s.window.pendingStop \/ ~recorderCanAcceptStop(s))
  <2>. DEFINE v == [s EXCEPT !.window.pendingStop = FALSE, !.window.stopRequested = TRUE]
              p == [v EXCEPT !.process.stopRequested = TRUE]
  <2>1. advanceRecordingStop(s) = SendStopTo(v)
    BY <1>2 DEF advanceRecordingStop
  <2>2. /\ v \in Sessions /\ OnlyWishes(s, v)
        /\ v.window.pendingStart = s.window.pendingStart
        /\ ~v.window.pendingStop /\ v.window.stopRequested
    BY StopUpdate
  <2>. HIDE DEF v
  <2>3. CASE Selected(v) /\ ownsRunningProcess(v)
    <3>1. stopSelectedStreamRecording(v) = pumpSession(p)
      BY <1>2, <2>2, <2>3, SMTT(30) DEF Sessions, Windows, Clients, Processes,
        Bridges, Previews, Batches, Operations, Lifecycles, OnlyWishes,
        WindowOnly, stopSelectedStreamRecording, MayStopSelected,
        recorderCanAcceptStop, selectedStreamRecording, Agrees
    <3>2. p \in Sessions
      BY <2>2 DEF Sessions, Processes
    <3>3. Agrees(p) /\ Keeps(s, p)
      BY <1>2, <2>2, <2>3, SMTT(30) DEF Sessions, Windows, Clients, Processes,
        Bridges, Previews, Batches, Operations, Lifecycles, Keeps, Stays,
        Moves, SameProgram, LocalIsQuiet, StopGoesOn, StopIsOnItsWay, Agrees,
        CutIsKnown, FreshStart, FileIsAlone, Settled, Backed, ClosedSafely,
        AllQuiet, recordingActiveOrPending, effectiveRecordingState,
        effectiveOperationState, selectedStreamRecording,
        desiredRecordingState, recorderConnectionLostExternally, shutdownReady,
        shutdownSettledSafely, recorderCanAcceptStop, OnlyWishes, WindowOnly
    <3>4. p.window.stopRequested
      BY <2>2 DEF Sessions, Windows
    <3>. DEFINE t == pumpSession(p)
    <3>5. advanceRecordingStop(s) = t
      BY <2>1, <2>3, <3>1 DEF SendStopTo
    <3>6. t \in Sessions /\ Agrees(t) /\ Keeps(s, t) /\ Keeps(p, t) /\ StopGoesOn(t)
      BY <3>2, <3>3, PumpedKeeps DEF PumpKeeps
    <3>. HIDE DEF p, t
    <3>7. Sent(t)
      BY <3>2, <3>4, <3>6, SentStays DEF Sent
    <3>. QED BY <3>5, <3>6, <3>7
  <2>4. CASE ~(Selected(v) /\ ownsRunningProcess(v))
    <3>1. MayBegin(v, "Stopping") /\ v.client.operation = "Idle"
      BY <1>2, <2>2, <2>4, SMTT(30) DEF Sessions, Windows, Clients, Processes,
        Bridges, Previews, Batches, Operations, Lifecycles, Agrees,
        recorderCanAcceptStop, MayBegin, OnlyWishes, WindowOnly
    <3>2. PICK o \in Sessions :
            /\ beginBatch(v, "Stopping") = pumpSession(o)
            /\ ButForBatch(v, o)
            /\ o.client.batch = "Stopping" /\ o.client.operation = "Stopping"
      BY <2>2, <3>1, BatchBegins DEF Batches
    <3>4. Agrees(o)
      BY <1>2, <2>2, <2>4, <3>2, SMTT(30) DEF Sessions, Windows, Clients,
        Processes, Bridges, Previews, Batches, Operations, Lifecycles, Keeps,
        Stays, Moves, SameProgram, LocalIsQuiet, StopGoesOn, StopIsOnItsWay,
        Agrees, CutIsKnown, FreshStart, FileIsAlone, Settled, Backed,
        ClosedSafely, AllQuiet, recordingActiveOrPending,
        effectiveRecordingState, effectiveOperationState,
        selectedStreamRecording, desiredRecordingState,
        recorderConnectionLostExternally, shutdownReady, shutdownSettledSafely,
        recorderCanAcceptStop, OnlyWishes, WindowOnly, ButForBatch, ClientOnly
    <3>5. Keeps(s, o)
      BY <1>2, <2>2, <2>4, <3>2, SMTT(30) DEF Sessions, Windows, Clients,
        Processes, Bridges, Previews, Batches, Operations, Lifecycles, Keeps,
        Stays, Moves, SameProgram, LocalIsQuiet, StopGoesOn, StopIsOnItsWay,
        Agrees, CutIsKnown, FreshStart, FileIsAlone, Settled, Backed,
        ClosedSafely, AllQuiet, recordingActiveOrPending,
        effectiveRecordingState, effectiveOperationState,
        selectedStreamRecording, desiredRecordingState,
        recorderConnectionLostExternally, shutdownReady, shutdownSettledSafely,
        recorderCanAcceptStop, OnlyWishes, WindowOnly, ButForBatch, ClientOnly
    <3>6. ~Running(s)
      BY <2>2, <2>4 DEF OnlyWishes, WindowOnly
    <3>. QED BY <2>1, <2>4, <3>2, <3>4, <3>5, <3>6, PumpedKeeps DEF SendStopTo
  <2>. QED BY <2>3, <2>4
<1>. QED BY <1>1, <1>2

(* Looking for streams changes the wishes at most. *)
LEMMA startStreamDiscoveryUpdates ==
  ASSUME NEW s \in Sessions, NEW forStart \in BOOLEAN
  PROVE  LET t == startStreamDiscovery(s, forStart) IN
         /\ t \in Sessions /\ OnlyWishes(s, t)
         /\ t.window.pendingStart <=> s.window.pendingStart \/ forStart
         /\ t.window.pendingStop = s.window.pendingStop
         /\ t.window.stopRequested = s.window.stopRequested
<1>. DEFINE d == IF s.window.discovery = "None" THEN "Running" ELSE s.window.discovery
            u == [s EXCEPT !.window.pendingStart = @ \/ forStart]
            t == [u EXCEPT !.window.discovery = IF @ = "None" THEN "Running" ELSE @]
<1>1. startStreamDiscovery(s, forStart) = t
  BY DEF startStreamDiscovery
<1>2. /\ u \in Sessions /\ OnlyWishes(s, u)
      /\ u.window.pendingStart <=> s.window.pendingStart \/ forStart
      /\ u.window.pendingStop = s.window.pendingStop
      /\ u.window.stopRequested = s.window.stopRequested
  BY SMTT(30) DEF Sessions, Windows, OnlyWishes, WindowOnly
<1>. HIDE DEF u
<1>3. /\ t \in Sessions /\ OnlyWishes(u, t)
      /\ t.window.pendingStart = u.window.pendingStart
      /\ t.window.pendingStop = u.window.pendingStop
      /\ t.window.stopRequested = u.window.stopRequested
  BY <1>2, SMTT(30) DEF Sessions, Windows, OnlyWishes, WindowOnly
<1>. HIDE DEF t
<1>4. OnlyWishes(s, t)
  BY <1>2, <1>3 DEF OnlyWishes, WindowOnly
<1>. QED BY <1>1, <1>2, <1>3, <1>4

(* A start that is asked for only waits, until the streams are known. *)
LEMMA requestRecordingStartUpdates ==
  ASSUME NEW s \in Sessions,
         ~recordingActiveOrPending(s), ~verificationActive(s),
         ~stoppingSession(s), ~Closing(s)
  PROVE  LET t == requestRecordingStart(s) IN
         /\ t \in Sessions /\ OnlyWishes(s, t)
         /\ t.window.pendingStart
         /\ t.window.pendingStop = s.window.pendingStop
         /\ ~t.window.stopRequested
<1>. DEFINE u == [s EXCEPT !.window.sync = FALSE]
            v == [u EXCEPT !.window.stopRequested = FALSE]
<1>1. requestRecordingStart(s) = startStreamDiscovery(v, TRUE)
  BY DEF requestRecordingStart
<1>2. /\ u \in Sessions /\ OnlyWishes(s, u)
      /\ u.window.pendingStop = s.window.pendingStop
  BY DEF Sessions, Windows, OnlyWishes, WindowOnly
<1>. HIDE DEF u
<1>3. /\ v \in Sessions /\ OnlyWishes(u, v)
      /\ v.window.pendingStop = u.window.pendingStop
      /\ ~v.window.stopRequested
  BY <1>2 DEF Sessions, Windows, OnlyWishes, WindowOnly
<1>. HIDE DEF v
<1>. DEFINE t == startStreamDiscovery(v, TRUE)
<1>4. /\ t \in Sessions /\ OnlyWishes(v, t)
      /\ t.window.pendingStart
      /\ t.window.pendingStop = v.window.pendingStop
      /\ t.window.stopRequested = v.window.stopRequested
  BY <1>3, startStreamDiscoveryUpdates
<1>. HIDE DEF t
<1>5. OnlyWishes(s, t)
  BY <1>2, <1>3, <1>4 DEF OnlyWishes, WindowOnly
<1>. QED BY <1>1, <1>2, <1>3, <1>4, <1>5 DEF t

(* Start Session has come to its end, or Stop Session without a recorder     *)
(* program.                                                                  *)
LEMMA EndSequenceKeeps ==
  ASSUME NEW s \in Sessions, Agrees(s),
         \/ startingSession(s) \/ s.window.sequence = "None"
         \/ stoppingSession(s) /\ ~OwnsGraphical(s)
  PROVE  LET t == EndSequence(s) IN
         t \in Sessions /\ Agrees(t) /\ Keeps(s, t)
<1>. DEFINE t == [s EXCEPT !.window.sequence = "None"]
<1>1. t \in Sessions
  BY DEF Sessions, Windows
<1>2. Agrees(t)
  BY SMTT(30) DEF Sessions, Windows, Clients, Processes, Bridges, Previews,
    Batches, Operations, Lifecycles, Keeps, Stays, Moves, SameProgram,
    LocalIsQuiet, StopGoesOn, StopIsOnItsWay, Agrees, CutIsKnown, FreshStart,
    FileIsAlone, Settled, Backed, ClosedSafely, AllQuiet,
    recordingActiveOrPending, effectiveRecordingState, effectiveOperationState,
    selectedStreamRecording, desiredRecordingState,
    recorderConnectionLostExternally, shutdownReady, shutdownSettledSafely
<1>3. Keeps(s, t)
  <2>1. CASE s.window.sequence = "None"
    <3>1. t = s
      BY <2>1 DEF Sessions, Windows
    <3>. QED BY <3>1, KeepsReflexive
  <2>2. CASE s.window.sequence # "None"
    BY <2>2, SMTT(30) DEF Sessions, Windows, Clients, Processes, Bridges,
      Previews, Batches, Operations, Lifecycles, Keeps, Stays, Moves,
      SameProgram, LocalIsQuiet, StopGoesOn, StopIsOnItsWay, Agrees,
      CutIsKnown, FreshStart, FileIsAlone, Settled, Backed, ClosedSafely,
      AllQuiet, recordingActiveOrPending, effectiveRecordingState,
      effectiveOperationState, selectedStreamRecording, desiredRecordingState,
      recorderConnectionLostExternally, shutdownReady, shutdownSettledSafely,
      OwnsGraphical
  <2>. QED BY <2>1, <2>2
<1>. QED BY <1>1, <1>2, <1>3 DEF EndSequence

(* The last step of Start Session: the recording is asked for. *)
LEMMA RecordingStartKeeps ==
  ASSUME NEW s \in Sessions, Agrees(s), startingSession(s)
  PROVE  LET t == requestRecordingStart(EndSequence(s)) IN
         t \in Sessions /\ Agrees(t) /\ Keeps(s, t)
<1>. DEFINE e == EndSequence(s)
            t == requestRecordingStart(e)
<1>1. e \in Sessions /\ Agrees(e) /\ Keeps(s, e)
  BY EndSequenceKeeps
<1>2. /\ WindowOnly(s, e) /\ e.window.sequence = "None"
      /\ e.window.every = s.window.every
      /\ e.window.verification = s.window.verification
      /\ e.window.probe = s.window.probe
      /\ e.window.deadline = s.window.deadline
      /\ e.window.finalizing = s.window.finalizing
      /\ e.window.pendingStart = s.window.pendingStart
      /\ e.window.pendingStop = s.window.pendingStop
      /\ e.window.stopRequested = s.window.stopRequested
  BY DEF EndSequence, Sessions, Windows, WindowOnly
<1>. HIDE DEF e
<1>3. CASE recordingActiveOrPending(e) \/ verificationActive(e)
  BY <1>1, <1>3 DEF requestRecordingStart, e
<1>4. CASE ~recordingActiveOrPending(e) /\ ~verificationActive(e)
  <2>1. /\ t \in Sessions /\ OnlyWishes(e, t)
        /\ t.window.pendingStart
        /\ t.window.pendingStop = e.window.pendingStop
        /\ ~t.window.stopRequested
    BY <1>1, <1>2, <1>4, requestRecordingStartUpdates
  <2>. HIDE DEF t
  <2>2. Agrees(t)
    BY <1>1, <1>2, <1>4, <2>1, SMTT(30) DEF Sessions, Windows, Clients,
      Processes, Bridges, Previews, Batches, Operations, Lifecycles, Keeps,
      Stays, Moves, SameProgram, LocalIsQuiet, StopGoesOn, StopIsOnItsWay,
      Agrees, CutIsKnown, FreshStart, FileIsAlone, Settled, Backed,
      ClosedSafely, AllQuiet, recordingActiveOrPending,
      effectiveRecordingState, effectiveOperationState,
      selectedStreamRecording, desiredRecordingState,
      recorderConnectionLostExternally, shutdownReady, shutdownSettledSafely,
      OnlyWishes, WindowOnly
  <2>3. Keeps(s, t)
    BY <1>1, <1>2, <1>4, <2>1, SMTT(30) DEF Sessions, Windows, Clients,
      Processes, Bridges, Previews, Batches, Operations, Lifecycles, Keeps,
      Stays, Moves, SameProgram, LocalIsQuiet, StopGoesOn, StopIsOnItsWay,
      Agrees, CutIsKnown, FreshStart, FileIsAlone, Settled, Backed,
      ClosedSafely, AllQuiet, recordingActiveOrPending,
      effectiveRecordingState, effectiveOperationState,
      selectedStreamRecording, desiredRecordingState,
      recorderConnectionLostExternally, shutdownReady, shutdownSettledSafely,
      OnlyWishes, WindowOnly
  <2>. QED BY <2>1, <2>2, <2>3 DEF t, e
<1>. QED BY <1>3, <1>4 DEF e

(* The client forgets what it knew of the recording. *)
LEMMA RecordingUnknownKeeps ==
  ASSUME PumpKeeps(Sessions), NEW s \in Sessions, Agrees(s)
  PROVE  LET t == setRecordingState(s, "Unknown") IN
         t \in Sessions /\ Agrees(t) /\ Keeps(s, t)
<1>. DEFINE u == [s EXCEPT !.client.recording = "Unknown"]
<1>1. u \in Sessions
  BY DEF Sessions, Clients
<1>2. Agrees(u) /\ Keeps(s, u) /\ u.client.recording = "Unknown"
  BY SMTT(30) DEF Sessions, Windows, Clients, Processes, Bridges, Previews,
    Batches, Operations, Lifecycles, Keeps, Stays, Moves, SameProgram,
    LocalIsQuiet, StopGoesOn, StopIsOnItsWay, Agrees, CutIsKnown, FreshStart,
    FileIsAlone, Settled, Backed, ClosedSafely, AllQuiet,
    recordingActiveOrPending, effectiveRecordingState, effectiveOperationState,
    selectedStreamRecording, desiredRecordingState,
    recorderConnectionLostExternally, shutdownReady, shutdownSettledSafely
<1>. HIDE DEF u
<1>3. ReactToRecording(u) = u
  BY <1>2 DEF ReactToRecording
<1>4. CASE s.client.recording = "Unknown"
  BY <1>4, KeepsReflexive DEF setRecordingState
<1>5. CASE s.client.recording # "Unknown"
  <2>1. setRecordingState(s, "Unknown") = pumpSession(u)
    BY <1>3, <1>5 DEF setRecordingState, u
  <2>. QED BY <1>1, <1>2, <2>1, PumpedKeeps
<1>. QED BY <1>4, <1>5

(* A socket without a connection is closed or connects. *)
LEMMA SocketKeeps ==
  ASSUME NEW s \in Sessions, Agrees(s), ~isConnected(s),
         NEW socket \in {"Closed", "Connecting"}
  PROVE  LET t == [s EXCEPT !.client.socket = socket] IN
         /\ t \in Sessions /\ Agrees(t) /\ Keeps(s, t) /\ ~isConnected(t)
         /\ t.client.connection = s.client.connection
BY SMTT(30) DEF Sessions, Windows, Clients, Processes, Bridges, Previews,
  Batches, Operations, Lifecycles, Keeps, Stays, Moves, SameProgram,
  LocalIsQuiet, StopGoesOn, StopIsOnItsWay, Agrees, CutIsKnown, FreshStart,
  FileIsAlone, Settled, Backed, ClosedSafely, AllQuiet,
  recordingActiveOrPending, effectiveRecordingState, effectiveOperationState,
  selectedStreamRecording, desiredRecordingState,
  recorderConnectionLostExternally, shutdownReady, shutdownSettledSafely

(* The client tells that it connects. *)
LEMMA ConnectingKeeps ==
  ASSUME PumpKeeps(Sessions), NEW s \in Sessions, Agrees(s), ~isConnected(s),
         ~s.client.shutdown
  PROVE  LET t == setConnectionState(s, "Connecting") IN
         t \in Sessions /\ Agrees(t) /\ Keeps(s, t)
<1>. DEFINE c == [s EXCEPT !.client.connection = "Connecting"]
<1>1. c \in Sessions /\ Agrees(c) /\ Keeps(s, c) /\ c.client.connection = "Connecting"
  BY SMTT(30) DEF Sessions, Windows, Clients, Processes, Bridges, Previews,
    Batches, Operations, Lifecycles, Keeps, Stays, Moves, SameProgram,
    LocalIsQuiet, StopGoesOn, StopIsOnItsWay, Agrees, CutIsKnown, FreshStart,
    FileIsAlone, Settled, Backed, ClosedSafely, AllQuiet,
    recordingActiveOrPending, effectiveRecordingState, effectiveOperationState,
    selectedStreamRecording, desiredRecordingState,
    recorderConnectionLostExternally, shutdownReady, shutdownSettledSafely
<1>2. setConnectionState(s, "Connecting")
        = pumpSession(scheduleFilenameSync(ReactToConnection(c, "Connecting")))
  BY DEF setConnectionState
<1>. HIDE DEF c
<1>3. ReactToConnection(c, "Connecting") = c /\ scheduleFilenameSync(c) = c
  BY <1>1 DEF ReactToConnection, scheduleFilenameSync, recorderCanStart
<1>. QED BY <1>1, <1>2, <1>3, PumpedKeeps

(* A connection attempt while none is under way. *)
LEMMA connectToServerKeeps ==
  ASSUME PumpKeeps(Sessions), NEW s \in Sessions, Agrees(s), ~isConnected(s)
  PROVE  LET t == connectToServer(s) IN
         t \in Sessions /\ Agrees(t) /\ Keeps(s, t)
<1>1. CASE RefusesConnect(s)
  BY <1>1, KeepsReflexive, PumpedKeeps DEF connectToServer
<1>2. CASE ~RefusesConnect(s)
  <2>. DEFINE a == [s EXCEPT !.client.socket = "Closed"]
              r == setRecordingState(a, "Unknown")
              c == setConnectionState(r, "Connecting")
              t == [c EXCEPT !.client.socket = "Connecting"]
  <2>1. connectToServer(s) = t
    BY <1>2 DEF connectToServer, abort
  <2>2. a \in Sessions /\ Agrees(a) /\ Keeps(s, a) /\ ~isConnected(a)
    BY SocketKeeps
  <2>. HIDE DEF a
  <2>3. r \in Sessions /\ Agrees(r) /\ Keeps(a, r)
    BY <2>2, RecordingUnknownKeeps
  <2>4. ~isConnected(r) /\ ~r.client.shutdown
    BY <1>2, <2>2, <2>3 DEF Keeps, Stays, Moves, RefusesConnect
  <2>. HIDE DEF r
  <2>5. c \in Sessions /\ Agrees(c) /\ Keeps(r, c)
    BY <2>3, <2>4, ConnectingKeeps
  <2>6. ~isConnected(c)
    BY <2>4, <2>5 DEF Keeps, Stays
  <2>. HIDE DEF c
  <2>7. t \in Sessions /\ Agrees(t) /\ Keeps(c, t)
    BY <2>5, <2>6, SocketKeeps
  <2>. HIDE DEF t
  <2>8. Keeps(s, r) /\ Keeps(s, c) /\ Keeps(s, t)
    BY <2>2, <2>3, <2>5, <2>7, KeepsTransitive
  <2>. QED BY <2>1, <2>7, <2>8
<1>. QED BY <1>1, <1>2

(* The flags no relation reads. *)
LEMMA GuidedFlagKeeps ==
  ASSUME NEW s \in Sessions, Agrees(s)
  PROVE  LET t == [s EXCEPT !.window.guided = TRUE] IN
         t \in Sessions /\ Agrees(t) /\ Keeps(s, t)
<1>. DEFINE t == [s EXCEPT !.window.guided = TRUE]
<1>1. t \in Sessions
  BY DEF Sessions, Windows
<1>2. Agrees(t)
  BY SMTT(30) DEF Sessions, Windows, Clients, Processes, Bridges, Previews,
    Batches, Operations, Lifecycles, Keeps, Stays, Moves, SameProgram,
    LocalIsQuiet, StopGoesOn, StopIsOnItsWay, Agrees, CutIsKnown, FreshStart,
    FileIsAlone, Settled, Backed, ClosedSafely, AllQuiet,
    recordingActiveOrPending, effectiveRecordingState, effectiveOperationState,
    selectedStreamRecording, desiredRecordingState,
    recorderConnectionLostExternally, shutdownReady, shutdownSettledSafely
<1>3. Keeps(s, t)
  BY SMTT(30) DEF Sessions, Windows, Clients, Processes, Bridges, Previews,
    Batches, Operations, Lifecycles, Keeps, Stays, Moves, SameProgram,
    LocalIsQuiet, StopGoesOn, StopIsOnItsWay, Agrees, CutIsKnown, FreshStart,
    FileIsAlone, Settled, Backed, ClosedSafely, AllQuiet,
    recordingActiveOrPending, effectiveRecordingState, effectiveOperationState,
    selectedStreamRecording, desiredRecordingState,
    recorderConnectionLostExternally, shutdownReady, shutdownSettledSafely
<1>. QED BY <1>1, <1>2, <1>3

(* See GuidedFlagKeeps. *)
LEMMA RetryFlagKeeps ==
  ASSUME NEW s \in Sessions, Agrees(s), NEW retry \in BOOLEAN
  PROVE  LET t == [s EXCEPT !.window.retry = retry] IN
         t \in Sessions /\ Agrees(t) /\ Keeps(s, t)
<1>. DEFINE t == [s EXCEPT !.window.retry = retry]
<1>1. t \in Sessions
  BY DEF Sessions, Windows
<1>2. Agrees(t)
  BY SMTT(30) DEF Sessions, Windows, Clients, Processes, Bridges, Previews,
    Batches, Operations, Lifecycles, Keeps, Stays, Moves, SameProgram,
    LocalIsQuiet, StopGoesOn, StopIsOnItsWay, Agrees, CutIsKnown, FreshStart,
    FileIsAlone, Settled, Backed, ClosedSafely, AllQuiet,
    recordingActiveOrPending, effectiveRecordingState, effectiveOperationState,
    selectedStreamRecording, desiredRecordingState,
    recorderConnectionLostExternally, shutdownReady, shutdownSettledSafely
<1>3. Keeps(s, t)
  BY SMTT(30) DEF Sessions, Windows, Clients, Processes, Bridges, Previews,
    Batches, Operations, Lifecycles, Keeps, Stays, Moves, SameProgram,
    LocalIsQuiet, StopGoesOn, StopIsOnItsWay, Agrees, CutIsKnown, FreshStart,
    FileIsAlone, Settled, Backed, ClosedSafely, AllQuiet,
    recordingActiveOrPending, effectiveRecordingState, effectiveOperationState,
    selectedStreamRecording, desiredRecordingState,
    recorderConnectionLostExternally, shutdownReady, shutdownSettledSafely
<1>. QED BY <1>1, <1>2, <1>3

(* See GuidedFlagKeeps. *)
LEMMA AttemptedFlagKeeps ==
  ASSUME NEW s \in Sessions, Agrees(s), NEW attempted \in BOOLEAN
  PROVE  LET t == [s EXCEPT !.window.attempted = attempted] IN
         t \in Sessions /\ Agrees(t) /\ Keeps(s, t)
<1>. DEFINE t == [s EXCEPT !.window.attempted = attempted]
<1>1. t \in Sessions
  BY DEF Sessions, Windows
<1>2. Agrees(t)
  BY SMTT(30) DEF Sessions, Windows, Clients, Processes, Bridges, Previews,
    Batches, Operations, Lifecycles, Keeps, Stays, Moves, SameProgram,
    LocalIsQuiet, StopGoesOn, StopIsOnItsWay, Agrees, CutIsKnown, FreshStart,
    FileIsAlone, Settled, Backed, ClosedSafely, AllQuiet,
    recordingActiveOrPending, effectiveRecordingState, effectiveOperationState,
    selectedStreamRecording, desiredRecordingState,
    recorderConnectionLostExternally, shutdownReady, shutdownSettledSafely
<1>3. Keeps(s, t)
  BY SMTT(30) DEF Sessions, Windows, Clients, Processes, Bridges, Previews,
    Batches, Operations, Lifecycles, Keeps, Stays, Moves, SameProgram,
    LocalIsQuiet, StopGoesOn, StopIsOnItsWay, Agrees, CutIsKnown, FreshStart,
    FileIsAlone, Settled, Backed, ClosedSafely, AllQuiet,
    recordingActiveOrPending, effectiveRecordingState, effectiveOperationState,
    selectedStreamRecording, desiredRecordingState,
    recorderConnectionLostExternally, shutdownReady, shutdownSettledSafely
<1>. QED BY <1>1, <1>2, <1>3

(* Looking for a running recorder is over. *)
LEMMA EndProbeKeeps ==
  ASSUME NEW s \in Sessions, Agrees(s)
  PROVE  LET t == [s EXCEPT !.window.probe = FALSE] IN
         t \in Sessions /\ Agrees(t) /\ Keeps(s, t) /\ OwnsGraphical(t) = OwnsGraphical(s)
<1>. DEFINE t == [s EXCEPT !.window.probe = FALSE]
<1>1. t \in Sessions
  BY DEF Sessions, Windows
<1>2. Agrees(t)
  BY SMTT(30) DEF Sessions, Windows, Clients, Processes, Bridges, Previews,
    Batches, Operations, Lifecycles, Keeps, Stays, Moves, SameProgram,
    LocalIsQuiet, StopGoesOn, StopIsOnItsWay, Agrees, CutIsKnown, FreshStart,
    FileIsAlone, Settled, Backed, ClosedSafely, AllQuiet,
    recordingActiveOrPending, effectiveRecordingState, effectiveOperationState,
    selectedStreamRecording, desiredRecordingState,
    recorderConnectionLostExternally, shutdownReady, shutdownSettledSafely
<1>3. Keeps(s, t)
  BY SMTT(30) DEF Sessions, Windows, Clients, Processes, Bridges, Previews,
    Batches, Operations, Lifecycles, Keeps, Stays, Moves, SameProgram,
    LocalIsQuiet, StopGoesOn, StopIsOnItsWay, Agrees, CutIsKnown, FreshStart,
    FileIsAlone, Settled, Backed, ClosedSafely, AllQuiet,
    recordingActiveOrPending, effectiveRecordingState, effectiveOperationState,
    selectedStreamRecording, desiredRecordingState,
    recorderConnectionLostExternally, shutdownReady, shutdownSettledSafely
<1>4. OwnsGraphical(t) = OwnsGraphical(s)
  BY DEF Sessions, OwnsGraphical
<1>. QED BY <1>1, <1>2, <1>3, <1>4

(* Looking for a running recorder begins. *)
LEMMA ProbeKeeps ==
  ASSUME NEW s \in Sessions, Agrees(s), startingSession(s), ~isConnected(s)
  PROVE  LET t == [s EXCEPT !.window.probe = TRUE] IN
         t \in Sessions /\ Agrees(t) /\ Keeps(s, t)
<1>. DEFINE t == [s EXCEPT !.window.probe = TRUE]
<1>1. t \in Sessions
  BY DEF Sessions, Windows
<1>2. Agrees(t)
  BY SMTT(30) DEF Sessions, Windows, Clients, Processes, Bridges, Previews,
    Batches, Operations, Lifecycles, Keeps, Stays, Moves, SameProgram,
    LocalIsQuiet, StopGoesOn, StopIsOnItsWay, Agrees, CutIsKnown, FreshStart,
    FileIsAlone, Settled, Backed, ClosedSafely, AllQuiet,
    recordingActiveOrPending, effectiveRecordingState, effectiveOperationState,
    selectedStreamRecording, desiredRecordingState,
    recorderConnectionLostExternally, shutdownReady, shutdownSettledSafely
<1>3. Keeps(s, t)
  BY SMTT(30) DEF Sessions, Windows, Clients, Processes, Bridges, Previews,
    Batches, Operations, Lifecycles, Keeps, Stays, Moves, SameProgram,
    LocalIsQuiet, StopGoesOn, StopIsOnItsWay, Agrees, CutIsKnown, FreshStart,
    FileIsAlone, Settled, Backed, ClosedSafely, AllQuiet,
    recordingActiveOrPending, effectiveRecordingState, effectiveOperationState,
    selectedStreamRecording, desiredRecordingState,
    recorderConnectionLostExternally, shutdownReady, shutdownSettledSafely
<1>. QED BY <1>1, <1>2, <1>3

(* The window connects while it is not connected. *)
LEMMA onConnectLabRecorderKeeps ==
  ASSUME PumpKeeps(Sessions), NEW s \in Sessions, Agrees(s), ~isConnected(s)
  PROVE  LET t == onConnectLabRecorder(s) IN
         t \in Sessions /\ Agrees(t) /\ Keeps(s, t)
<1>. DEFINE p == [s EXCEPT !.window.probe = FALSE]
            r == [p EXCEPT !.window.retry = OwnsGraphical(s)]
            t == connectToServer(r)
<1>1. OwnsGraphical(s) \in BOOLEAN
  BY DEF OwnsGraphical
<1>2. p \in Sessions /\ Agrees(p) /\ Keeps(s, p)
  BY EndProbeKeeps
<1>3. onConnectLabRecorder(s) \in {s, t}
  BY DEF onConnectLabRecorder
<1>. HIDE DEF p
<1>4. r \in Sessions /\ Agrees(r) /\ Keeps(p, r)
  BY <1>1, <1>2, RetryFlagKeeps
<1>. HIDE DEF r
<1>5. Keeps(s, r)
  BY <1>2, <1>4, KeepsTransitive
<1>6. ~isConnected(r)
  BY <1>5 DEF Keeps, Stays
<1>7. t \in Sessions /\ Agrees(t) /\ Keeps(r, t)
  BY <1>4, <1>6, connectToServerKeeps
<1>. HIDE DEF t
<1>8. Keeps(s, t)
  BY <1>4, <1>5, <1>7, KeepsTransitive
<1>. QED BY <1>3, <1>7, <1>8, KeepsReflexive

(* Start Session looks for a recorder. *)
LEMMA LookForRecorderKeeps ==
  ASSUME PumpKeeps(Sessions), NEW s \in Sessions, Agrees(s),
         startingSession(s), s.window.every, ~isConnected(s)
  PROVE  LET t == LookForRecorder(s) IN
         t \in Sessions /\ Agrees(t) /\ Keeps(s, t)
<1>. DEFINE g == [s EXCEPT !.window.guided = TRUE]
            p == [g EXCEPT !.window.probe = TRUE]
            a == [p EXCEPT !.window.attempted = FALSE]
            c == onConnectLabRecorder(g)
            t == connectToServer(a)
<1>1. g \in Sessions /\ Agrees(g) /\ Keeps(s, g)
  BY GuidedFlagKeeps
<1>2. startingSession(g) /\ g.window.every /\ ~isConnected(g)
  BY <1>1 DEF Sessions, Windows, Keeps, Stays
<1>3. LookForRecorder(s) \in {s, g, beginLabRecorderStartup(g)}
  BY DEF LookForRecorder
<1>. HIDE DEF g
<1>4. beginLabRecorderStartup(g) \in {g, c, t}
  BY <1>2 DEF beginLabRecorderStartup
<1>5. c \in Sessions /\ Agrees(c) /\ Keeps(g, c)
  BY <1>1, <1>2, onConnectLabRecorderKeeps
<1>6. p \in Sessions /\ Agrees(p) /\ Keeps(g, p)
  BY <1>1, <1>2, ProbeKeeps
<1>. HIDE DEF p
<1>7. a \in Sessions /\ Agrees(a) /\ Keeps(p, a)
  BY <1>6, AttemptedFlagKeeps
<1>. HIDE DEF a
<1>8. ~isConnected(a)
  BY <1>2, <1>6, <1>7 DEF Keeps, Stays
<1>9. t \in Sessions /\ Agrees(t) /\ Keeps(a, t)
  BY <1>7, <1>8, connectToServerKeeps
<1>. HIDE DEF c, t
<1>10. Keeps(s, c) /\ Keeps(s, p)
  BY <1>1, <1>5, <1>6, KeepsTransitive
<1>11. Keeps(s, a)
  BY <1>6, <1>7, <1>10, KeepsTransitive
<1>12. Keeps(s, t)
  BY <1>7, <1>9, <1>11, KeepsTransitive
<1>. QED BY <1>1, <1>3, <1>4, <1>5, <1>9, <1>10, <1>12, KeepsReflexive

(* Start Session waits for its recorder. *)
LEMMA GuidedRecorderKeeps ==
  ASSUME PumpKeeps(Sessions), NEW s \in Sessions, Agrees(s), startingSession(s)
  PROVE  LET t == GuidedRecorder(s) IN
         t \in Sessions /\ Agrees(t) /\ Keeps(s, t)
<1>. DEFINE l == LookForRecorder(s)
            t == KeepLooking(l)
<1>1. CASE ~s.window.every \/ (isConnected(s) /\ s.client.operation = "Idle")
  BY <1>1, RecordingStartKeeps DEF GuidedRecorder
<1>2. CASE ~(~s.window.every \/ (isConnected(s) /\ s.client.operation = "Idle"))
  <2>1. CASE isConnected(s)
    BY <1>2, <2>1, KeepsReflexive DEF GuidedRecorder
  <2>2. CASE ~isConnected(s)
    <3>1. GuidedRecorder(s) = t
      BY <1>2, <2>2 DEF GuidedRecorder
    <3>2. l \in Sessions /\ Agrees(l) /\ Keeps(s, l)
      BY <1>2, <2>2, LookForRecorderKeeps DEF Sessions, Windows
    <3>. HIDE DEF l
    <3>3. startingSession(l) \/ l.window.sequence = "None"
      BY <3>2 DEF Keeps, Stays, Moves
    <3>4. t = l \/ t = EndSequence(l)
      BY DEF KeepLooking
    <3>. HIDE DEF t
    <3>5. t \in Sessions /\ Agrees(t) /\ Keeps(l, t)
      BY <3>2, <3>3, <3>4, EndSequenceKeeps, KeepsReflexive
    <3>. QED BY <3>1, <3>2, <3>5, KeepsTransitive
  <2>. QED BY <2>1, <2>2
<1>. QED BY <1>1, <1>2

(* A step of Start Session. *)
LEMMA advanceGuidedStartKeeps ==
  ASSUME PumpKeeps(Sessions), NEW s \in Sessions, Agrees(s), startingSession(s)
  PROVE  LET t == advanceGuidedStart(s) IN
         t \in Sessions /\ Agrees(t) /\ Keeps(s, t)
<1>1. LET t == GuidedPreview(s) IN
      t \in Sessions /\ Agrees(t) /\ Keeps(s, t)
  <2>1. GuidedPreview(s) = EndSequence(s)
        \/ GuidedPreview(s) = s
        \/ (HasPreview /\ GuidedPreview(s) = startPreview(s))
        \/ GuidedPreview(s) = GuidedRecorder(s)
    BY DEF GuidedPreview
  <2>. QED
    BY <2>1, EndSequenceKeeps, KeepsReflexive, startPreviewKeeps,
      GuidedRecorderKeeps
<1>2. advanceGuidedStart(s) = GuidedPreview(s)
      \/ advanceGuidedStart(s) = EndSequence(s)
      \/ advanceGuidedStart(s) = onStart(s)
  BY DEF advanceGuidedStart
<1>. QED BY <1>1, <1>2, EndSequenceKeeps, onStartKeeps

(* The pump makes up for a stop that it has yet to send. *)
LEMMA AskedKeeps ==
  ASSUME PumpKeeps(Sessions), NEW s \in Sessions, NEW u \in Sessions,
         Agrees(u), Stays(s, u)
  PROVE  LET t == pumpSession(u) IN
         t \in Sessions /\ Agrees(t) /\ Keeps(s, t) /\ StopGoesOn(t)
BY StaysTransitive DEF PumpKeeps, Keeps

(* Stop Session stops the recording: from then on a Stop is owed. *)
LEMMA onStopRecordingKeeps ==
  ASSUME PumpKeeps(Sessions), NEW s \in Sessions, Agrees(s),
         stoppingSession(s), recorderCanAcceptStop(s)
  PROVE  LET t == onStopRecording(s) IN
         /\ t \in Sessions /\ Agrees(t) /\ Keeps(s, t)
         /\ recordingActiveOrPending(s) => ~t.window.pendingStart
         /\ Running(s) => Wanted(t)
<1>1. CASE \/ s.window.pendingStop \/ s.window.stopRequested
           \/ ~recordingActiveOrPending(s)
  <2>1. onStopRecording(s) = s
    BY <1>1 DEF onStopRecording
  <2>2. recordingActiveOrPending(s) => ~s.window.pendingStart
    BY <1>1 DEF Agrees
  <2>3. Running(s) => Wanted(s)
    BY <1>1, SMTT(30) DEF recordingActiveOrPending, effectiveRecordingState,
      effectiveOperationState, selectedStreamRecording
  <2>. QED BY <2>1, <2>2, <2>3, KeepsReflexive
<1>2. CASE ~(\/ s.window.pendingStop \/ s.window.stopRequested
             \/ ~recordingActiveOrPending(s))
  <2>. DEFINE p == [s EXCEPT !.window.pendingStart = FALSE]
              d == cancelStreamDiscovery(p)
              a == AskForStop(d)
  <2>1. onStopRecording(s) = pumpSession(a)
    BY <1>2 DEF onStopRecording
  <2>2. p \in Sessions /\ OnlyWishes(s, p) /\ ~p.window.pendingStart
        /\ p.window.pendingStop = s.window.pendingStop
        /\ p.window.stopRequested = s.window.stopRequested
    BY DEF Sessions, Windows, OnlyWishes, WindowOnly
  <2>. HIDE DEF p
  <2>3. d \in Sessions /\ OnlyWishes(p, d) /\ ~d.window.pendingStart
        /\ d.window.pendingStop = p.window.pendingStop
        /\ d.window.stopRequested = p.window.stopRequested
    BY <2>2, SMTT(30) DEF Sessions, Windows, OnlyWishes, WindowOnly,
      cancelStreamDiscovery
  <2>. HIDE DEF d
  <2>4. /\ a \in Sessions /\ OnlyWishes(d, a) /\ ~a.window.pendingStart
        /\ ~a.window.stopRequested
        /\ a.window.pendingStop <=> recordingActiveOrPending(d)
    <3>1. CASE recordingActiveOrPending(d)
      <4>. DEFINE v == [d EXCEPT !.window.pendingStop = TRUE]
                  w == [v EXCEPT !.window.sync = FALSE]
      <4>1. v \in Sessions /\ OnlyWishes(d, v) /\ ~v.window.pendingStart
            /\ v.window.pendingStop /\ v.window.stopRequested = d.window.stopRequested
        BY <2>3 DEF Sessions, Windows, OnlyWishes, WindowOnly
      <4>2. a = w
        BY <3>1 DEF AskForStop
      <4>. HIDE DEF v
      <4>3. w \in Sessions /\ OnlyWishes(v, w) /\ ~w.window.pendingStart
            /\ w.window.pendingStop /\ w.window.stopRequested = v.window.stopRequested
        BY <4>1 DEF Sessions, Windows, OnlyWishes, WindowOnly
      <4>. HIDE DEF w, a
      <4>4. OnlyWishes(d, w)
        BY <4>1, <4>3 DEF OnlyWishes, WindowOnly
      <4>. QED BY <1>2, <2>2, <2>3, <3>1, <4>1, <4>2, <4>3, <4>4
    <3>2. CASE ~recordingActiveOrPending(d)
      <4>. DEFINE v == [d EXCEPT !.window.stopRequested = FALSE]
      <4>1. a = v
        BY <3>2 DEF AskForStop
      <4>2. ~d.window.pendingStop
        BY <3>2 DEF recordingActiveOrPending
      <4>3. /\ v \in Sessions /\ OnlyWishes(d, v)
            /\ v.window.pendingStart = d.window.pendingStart
            /\ v.window.pendingStop = d.window.pendingStop
            /\ ~v.window.stopRequested
        BY <2>3 DEF Sessions, Windows, OnlyWishes, WindowOnly
      <4>. HIDE DEF v, a
      <4>. QED BY <2>3, <3>2, <4>1, <4>2, <4>3
    <3>. QED BY <3>1, <3>2
  <2>. HIDE DEF a
  <2>5. /\ OnlyWishes(s, a) /\ OnlyWishes(s, d)
        /\ a.window.pendingStop => ~Selected(s) \/ Running(s)
    <3>1. OnlyWishes(s, d) /\ OnlyWishes(s, a)
      BY <2>2, <2>3, <2>4 DEF OnlyWishes, WindowOnly
    <3>2. recordingActiveOrPending(d) /\ Selected(s) => Running(s) \/ s.client.shutdown
      BY <1>2, <2>2, <2>3, <3>1, SMTT(30) DEF Sessions, Windows, Clients,
        Processes, Bridges, Previews, Batches, Operations, Lifecycles, Keeps,
        Stays, Moves, SameProgram, LocalIsQuiet, StopGoesOn, StopIsOnItsWay,
        Agrees, CutIsKnown, FreshStart, FileIsAlone, Settled, Backed,
        ClosedSafely, AllQuiet, recordingActiveOrPending,
        effectiveRecordingState, effectiveOperationState,
        selectedStreamRecording, desiredRecordingState,
        recorderConnectionLostExternally, shutdownReady, shutdownSettledSafely,
        OnlyWishes, WindowOnly
    <3>3. ~s.client.shutdown
      BY DEF Agrees
    <3>. QED BY <2>4, <3>1, <3>2, <3>3
  <2>6. Agrees(a)
    BY <1>2, <2>4, <2>5, SMTT(30) DEF Sessions, Windows, Clients, Processes,
      Bridges, Previews, Batches, Operations, Lifecycles, Keeps, Stays, Moves,
      SameProgram, LocalIsQuiet, StopGoesOn, StopIsOnItsWay, Agrees,
      CutIsKnown, FreshStart, FileIsAlone, Settled, Backed, ClosedSafely,
      AllQuiet, recordingActiveOrPending, effectiveRecordingState,
      effectiveOperationState, selectedStreamRecording, desiredRecordingState,
      recorderConnectionLostExternally, shutdownReady, shutdownSettledSafely,
      OnlyWishes, WindowOnly
  <2>11. Running(s) => Running(a) /\ Wanted(a)
    BY <2>4, <2>5, SMTT(30) DEF OnlyWishes, WindowOnly,
      recordingActiveOrPending, effectiveRecordingState,
      effectiveOperationState, selectedStreamRecording
  <2>8. Stays(s, a)
    BY <1>2, <2>2, <2>3, <2>4, <2>5, SMTT(30) DEF Sessions, Windows, Clients,
      Processes, Bridges, Previews, Batches, Operations, Lifecycles, Keeps,
      Stays, Moves, SameProgram, LocalIsQuiet, StopGoesOn, StopIsOnItsWay,
      Agrees, CutIsKnown, FreshStart, FileIsAlone, Settled, Backed,
      ClosedSafely, AllQuiet, recordingActiveOrPending,
      effectiveRecordingState, effectiveOperationState,
      selectedStreamRecording, desiredRecordingState,
      recorderConnectionLostExternally, shutdownReady, shutdownSettledSafely,
      OnlyWishes, WindowOnly, recorderCanAcceptStop
  <2>. DEFINE t == pumpSession(a)
  <2>9. t \in Sessions /\ Agrees(t) /\ Keeps(s, t) /\ Keeps(a, t)
    BY <2>4, <2>6, <2>8, AskedKeeps DEF PumpKeeps
  <2>. HIDE DEF t
  <2>10. ~t.window.pendingStart
    BY <2>4, <2>5, <2>9 DEF Keeps, Stays, Moves, OnlyWishes
  <2>12. Running(s) => Wanted(t)
    BY <2>9, <2>11 DEF Keeps, Stays
  <2>. QED BY <2>1, <2>9, <2>10, <2>12 DEF t
<1>. QED BY <1>1, <1>2

(* A Stop that nothing waits for is over. *)
LEMMA ForgetStopKeeps ==
  ASSUME NEW s \in Sessions, Agrees(s), ~recordingActiveOrPending(s), ~stoppingSession(s)
  PROVE  LET t == [s EXCEPT !.window.stopRequested = FALSE] IN
         t \in Sessions /\ Agrees(t) /\ Keeps(s, t)
<1>. DEFINE t == [s EXCEPT !.window.stopRequested = FALSE]
<1>1. t \in Sessions
  BY DEF Sessions, Windows
<1>2. Agrees(t)
  BY SMTT(30) DEF Sessions, Windows, Clients, Processes, Bridges, Previews,
    Batches, Operations, Lifecycles, Keeps, Stays, Moves, SameProgram,
    LocalIsQuiet, StopGoesOn, StopIsOnItsWay, Agrees, CutIsKnown, FreshStart,
    FileIsAlone, Settled, Backed, ClosedSafely, AllQuiet,
    recordingActiveOrPending, effectiveRecordingState, effectiveOperationState,
    selectedStreamRecording, desiredRecordingState,
    recorderConnectionLostExternally, shutdownReady, shutdownSettledSafely
<1>3. Keeps(s, t)
  BY SMTT(30) DEF Sessions, Windows, Clients, Processes, Bridges, Previews,
    Batches, Operations, Lifecycles, Keeps, Stays, Moves, SameProgram,
    LocalIsQuiet, StopGoesOn, StopIsOnItsWay, Agrees, CutIsKnown, FreshStart,
    FileIsAlone, Settled, Backed, ClosedSafely, AllQuiet,
    recordingActiveOrPending, effectiveRecordingState, effectiveOperationState,
    selectedStreamRecording, desiredRecordingState,
    recorderConnectionLostExternally, shutdownReady, shutdownSettledSafely
<1>. QED BY <1>1, <1>2, <1>3

(* A step of Stop Session, which owes the recorder its Stop before anything  *)
(* else.                                                                     *)
LEMMA advanceGuidedStopKeeps ==
  ASSUME PumpKeeps(Sessions), NEW s \in Sessions, Agrees(s), stoppingSession(s)
  PROVE  LET t == advanceGuidedStop(s) IN
         /\ t \in Sessions /\ Agrees(t) /\ Keeps(s, t)
         /\ ~t.window.pendingStart
         /\ Running(s) => Wanted(t)
<1>1. CASE recordingActiveOrPending(s)
  <2>1. CASE recorderCanAcceptStop(s)
    BY <1>1, <2>1, onStopRecordingKeeps DEF advanceGuidedStop
  <2>2. CASE ~recorderCanAcceptStop(s)
    <3>1. ~s.window.pendingStart
      BY <2>2 DEF recorderCanAcceptStop
    <3>2. Running(s) => Wanted(s)
      BY <2>2, SMTT(30) DEF Sessions, Windows, Clients, Processes, Bridges,
        Previews, Batches, Operations, Lifecycles, Agrees,
        recorderCanAcceptStop, selectedStreamRecording
    <3>. QED BY <1>1, <2>2, <3>1, <3>2, KeepsReflexive DEF advanceGuidedStop
  <2>. QED BY <2>1, <2>2
<1>2. CASE ~recordingActiveOrPending(s)
  <2>. DEFINE t == advanceGuidedStop(s)
  <2>1. /\ ~s.window.pendingStart /\ ~s.window.pendingStop
        /\ ~s.client.startMay /\ ~Running(s)
    BY <1>2, SMTT(30) DEF recordingActiveOrPending, effectiveRecordingState,
      effectiveOperationState, selectedStreamRecording
  <2>2. t \in Sessions /\ Agrees(t) /\ Keeps(s, t)
    <3>1. CASE verificationActive(s)
      BY <1>2, <3>1, KeepsReflexive DEF advanceGuidedStop
    <3>2. CASE ~verificationActive(s) /\ HasPreview /\ ~previewReady(s)
      BY <1>2, <3>2, stopPreviewKeeps DEF advanceGuidedStop
    <3>3. CASE ~verificationActive(s) /\ ~(HasPreview /\ ~previewReady(s))
      <4>1. CASE s.bridge.thread # "None"
        <5>1. AllQuiet(s)
          BY <1>2, <3>3 DEF AllQuiet, Agrees, previewReady
        <5>. QED BY <1>2, <3>3, <4>1, <5>1, onStopKeeps DEF advanceGuidedStop
      <4>2. CASE s.bridge.thread = "None" /\ OwnsGraphical(s)
        <5>1. ~Selected(s)
          BY <4>2 DEF OwnsGraphical
        <5>2. advanceGuidedStop(s) = endOwnedProcess(s)
          BY <1>2, <3>3, <4>2 DEF advanceGuidedStop
        <5>. QED BY <2>1, <5>1, <5>2, endOwnedProcessKeeps
      <4>3. CASE s.bridge.thread = "None" /\ ~OwnsGraphical(s)
        <5>. DEFINE e == EndSequence(s)
                    x == [e EXCEPT !.window.stopRequested = FALSE]
        <5>1. t = x
          BY <1>2, <3>3, <4>3 DEF advanceGuidedStop
        <5>2. e \in Sessions /\ Agrees(e) /\ Keeps(s, e)
          BY <4>3, EndSequenceKeeps
        <5>3. ~recordingActiveOrPending(e) /\ ~stoppingSession(e)
          BY <1>2, SMTT(30) DEF EndSequence, Sessions, Windows, Clients,
            Processes, Bridges, Previews, Batches, Operations, Lifecycles,
            recordingActiveOrPending, effectiveRecordingState,
            effectiveOperationState, selectedStreamRecording,
            desiredRecordingState
        <5>. HIDE DEF e, t
        <5>4. x \in Sessions /\ Agrees(x) /\ Keeps(e, x)
          BY <5>2, <5>3, ForgetStopKeeps
        <5>. HIDE DEF x
        <5>. QED BY <5>1, <5>2, <5>4, KeepsTransitive
      <4>. QED BY <4>1, <4>2, <4>3
    <3>. QED BY <3>1, <3>2, <3>3
  <2>. HIDE DEF t
  <2>3. ~t.window.pendingStart
    BY <2>1, <2>2 DEF Keeps, Stays, Moves
  <2>. QED BY <2>1, <2>2, <2>3 DEF t
<1>. QED BY <1>1, <1>2

(* A close ends the program when it may be ended. *)
LEMMA EndRecorderKeeps ==
  ASSUME PumpKeeps(Sessions), NEW s \in Sessions, Agrees(s), Closing(s)
  PROVE  LET t == EndRecorder(s) IN
         t \in Sessions /\ Agrees(t) /\ Keeps(s, t)
<1>. DEFINE u == [s EXCEPT !.window.endRequested = TRUE]
            t == endOwnedProcess(u)
<1>1. CASE ~endOwnedProcessDecision(s)
  BY <1>1, KeepsReflexive DEF EndRecorder
<1>2. CASE endOwnedProcessDecision(s)
  <2>1. EndRecorder(s) = t
    BY <1>2 DEF EndRecorder
  <2>2. /\ u \in Sessions /\ u.client = s.client /\ u.process = s.process
        /\ u.window.deadline = s.window.deadline
    BY DEF Sessions, Windows
  <2>3. Agrees(u)
    BY SMTT(30) DEF Sessions, Windows, Clients, Processes, Bridges, Previews,
      Batches, Operations, Lifecycles, Keeps, Stays, Moves, SameProgram,
      LocalIsQuiet, StopGoesOn, StopIsOnItsWay, Agrees, CutIsKnown, FreshStart,
      FileIsAlone, Settled, Backed, ClosedSafely, AllQuiet,
      recordingActiveOrPending, effectiveRecordingState,
      effectiveOperationState, selectedStreamRecording, desiredRecordingState,
      recorderConnectionLostExternally, shutdownReady, shutdownSettledSafely
  <2>4. Keeps(s, u)
    BY SMTT(30) DEF Sessions, Windows, Clients, Processes, Bridges, Previews,
      Batches, Operations, Lifecycles, Keeps, Stays, Moves, SameProgram,
      LocalIsQuiet, StopGoesOn, StopIsOnItsWay, Agrees, CutIsKnown, FreshStart,
      FileIsAlone, Settled, Backed, ClosedSafely, AllQuiet,
      recordingActiveOrPending, effectiveRecordingState,
      effectiveOperationState, selectedStreamRecording, desiredRecordingState,
      recorderConnectionLostExternally, shutdownReady, shutdownSettledSafely
  <2>. HIDE DEF u
  <2>5. /\ u.client.shutdown
        /\ u.window.deadline \/ (~Selected(u) /\ ~u.client.startMay)
    BY <1>2, <2>2 DEF endOwnedProcessDecision, recorderSafeToClose,
      shutdownSettledSafely, Agrees
  <2>6. t \in Sessions /\ Agrees(t) /\ Keeps(u, t)
    BY <2>2, <2>3, <2>5, endOwnedProcessKeeps
  <2>. HIDE DEF t
  <2>. QED BY <2>1, <2>2, <2>4, <2>6, KeepsTransitive
<1>. QED BY <1>1, <1>2

(* The window closes for good only when that is safe. *)
LEMMA FinishCloseKeeps ==
  ASSUME NEW s \in Sessions, Agrees(s), Closing(s)
  PROVE  LET t == FinishClose(s) IN
         t \in Sessions /\ Agrees(t) /\ Keeps(s, t)
<1>. DEFINE e == [s EXCEPT !.window.sequence = "None"]
            t == [e EXCEPT !.window.finalizing = TRUE]
<1>1. CASE ~(shutdownWaitsForNothing(s) /\ ~s.window.finalizing)
  BY <1>1, KeepsReflexive DEF FinishClose
<1>2. CASE shutdownWaitsForNothing(s) /\ ~s.window.finalizing
  <2>1. FinishClose(s) = t
    BY <1>2 DEF FinishClose, EndSequence
  <2>2. /\ e \in Sessions /\ ButForEnd(s, e) /\ e.window.sequence = "None"
        /\ e.window.finalizing = s.window.finalizing
    BY DEF Sessions, Windows, ButForEnd, WindowOnly
  <2>. HIDE DEF e
  <2>3. /\ t \in Sessions /\ ButForEnd(e, t)
        /\ t.window.sequence = "None" /\ t.window.finalizing
    BY <2>2 DEF Sessions, Windows, ButForEnd, WindowOnly
  <2>. HIDE DEF t
  <2>4. ButForEnd(s, t)
    BY <2>2, <2>3 DEF ButForEnd, WindowOnly
  <2>5. Agrees(t)
    BY <2>3, <2>4, SMTT(30) DEF Sessions, Windows, Clients, Processes, Bridges,
      Previews, Batches, Operations, Lifecycles, Keeps, Stays, Moves,
      SameProgram, LocalIsQuiet, StopGoesOn, StopIsOnItsWay, Agrees,
      CutIsKnown, FreshStart, FileIsAlone, Settled, Backed, ClosedSafely,
      AllQuiet, recordingActiveOrPending, effectiveRecordingState,
      effectiveOperationState, selectedStreamRecording, desiredRecordingState,
      recorderConnectionLostExternally, shutdownReady, shutdownSettledSafely,
      ButForEnd, WindowOnly
  <2>6. Keeps(s, t)
    BY <1>2, <2>3, <2>4, SMTT(60) DEF Sessions, Windows, Clients, Processes,
      Bridges, Previews, Batches, Operations, Lifecycles, Keeps, Stays, Moves,
      SameProgram, LocalIsQuiet, StopGoesOn, StopIsOnItsWay, Agrees,
      CutIsKnown, FreshStart, FileIsAlone, Settled, Backed, ClosedSafely,
      AllQuiet, recordingActiveOrPending, effectiveRecordingState,
      effectiveOperationState, selectedStreamRecording, desiredRecordingState,
      recorderConnectionLostExternally, shutdownReady, shutdownSettledSafely,
      ButForEnd, WindowOnly, shutdownWaitsForNothing, recorderSafeToClose,
      previewReady
  <2>. QED BY <2>1, <2>3, <2>5, <2>6
<1>. QED BY <1>1, <1>2

(* A step of the close. *)
LEMMA updateShutdownStatusKeeps ==
  ASSUME PumpKeeps(Sessions), NEW s \in Sessions, Agrees(s)
  PROVE  LET t == updateShutdownStatus(s) IN
         t \in Sessions /\ Agrees(t) /\ Keeps(s, t)
<1>. DEFINE e == EndRecorder(s)
            f == FinishClose(e)
            t == updateShutdownStatus(s)
<1>1. CASE ~Closing(s)
  BY <1>1, KeepsReflexive DEF updateShutdownStatus
<1>2. CASE Closing(s)
  <2>1. t = f
    BY <1>2 DEF updateShutdownStatus
  <2>. SUFFICES t \in Sessions /\ Agrees(t) /\ Keeps(s, t)
    OBVIOUS
  <2>2. e \in Sessions /\ Agrees(e) /\ Keeps(s, e)
    BY <1>2, EndRecorderKeeps
  <2>. HIDE DEF e
  <2>3. CASE Closing(e)
    <3>1. f \in Sessions /\ Agrees(f) /\ Keeps(e, f)
      BY <2>2, <2>3, FinishCloseKeeps
    <3>. HIDE DEF f, t
    <3>. QED BY <2>1, <2>2, <3>1, KeepsTransitive
  <2>4. CASE ~Closing(e)
    <3>1. e.window.finalizing
      BY <1>2, <2>2, <2>4 DEF Keeps, Stays, Moves
    <3>2. f = e
      BY <3>1 DEF FinishClose
    <3>. QED BY <2>1, <2>2, <3>2
  <2>. QED BY <2>3, <2>4
<1>. QED BY <1>1, <1>2

(* A pass of the pump: the operations above in their order. *)
LEMMA PassKeeps ==
  ASSUME PumpKeeps(Sessions), NEW s \in Sessions, Agrees(s)
  PROVE  LET t == Pass(s) IN
         /\ t \in Sessions /\ Agrees(t) /\ Keeps(s, t)
         /\ StopGoesOn(t)
         /\ stoppingSession(t) => ~t.window.pendingStart
         /\ stoppingSession(t) /\ Running(t) => Wanted(t)
         /\ Running(s) /\ (Wanted(s) \/ ~stoppingSession(s)) /\ ~s.client.shutdown
              => Sent(t)
<1>. DEFINE a == SendStop(s)
            b == AdvanceStart(a)
            c == AdvanceStop(b)
            t == updateShutdownStatus(c)
<1>1. Pass(s) = t
  BY DEF Pass
<1>2. /\ a \in Sessions /\ Agrees(a) /\ Keeps(s, a)
      /\ StopGoesOn(a)
      /\ Running(s) /\ (Wanted(s) \/ ~stoppingSession(s)) /\ ~s.client.shutdown => Sent(a)
  <2>1. CASE Closing(s)
    <3>1. a = s
      BY <2>1 DEF SendStop
    <3>2. StopGoesOn(s) /\ s.client.shutdown
      BY <2>1 DEF StopGoesOn, StopIsOnItsWay, Agrees
    <3>. QED BY <3>1, <3>2, KeepsReflexive
  <2>2. CASE ~Closing(s)
    <3>1. a = advanceRecordingStop(s)
      BY <2>2 DEF SendStop
    <3>2. a \in Sessions /\ Agrees(a) /\ Keeps(s, a) /\ StopGoesOn(a)
      BY <3>1, advanceRecordingStopKeeps
    <3>3. Running(s) /\ Wanted(s) /\ ~s.client.shutdown => Sent(a)
      BY <3>1, advanceRecordingStopKeeps
    <3>4. ~Wanted(s) /\ ~stoppingSession(s) => Sent(s)
      BY DEF Sent
    <3>. HIDE DEF a
    <3>. QED BY <3>2, <3>3, <3>4, SentStays
  <2>. QED BY <2>1, <2>2
<1>. HIDE DEF a
<1>3. b \in Sessions /\ Agrees(b) /\ Keeps(a, b)
  BY <1>2, advanceGuidedStartKeeps, KeepsReflexive DEF AdvanceStart
<1>. HIDE DEF b
<1>4. /\ c \in Sessions /\ Agrees(c) /\ Keeps(b, c)
      /\ stoppingSession(b) => ~c.window.pendingStart
      /\ stoppingSession(b) /\ Running(b) => Wanted(c)
  BY <1>3, advanceGuidedStopKeeps, KeepsReflexive DEF AdvanceStop
<1>. HIDE DEF c
<1>5. t \in Sessions /\ Agrees(t) /\ Keeps(c, t)
  BY <1>4, updateShutdownStatusKeeps
<1>. HIDE DEF t
<1>6. Keeps(a, c) /\ Keeps(a, t) /\ Keeps(s, t) /\ Keeps(b, t)
  BY <1>2, <1>3, <1>4, <1>5, KeepsTransitive
<1>7. StopGoesOn(t)
  BY <1>2, <1>6 DEF Keeps, Stays, Moves
<1>8. stoppingSession(t)
        => stoppingSession(b) /\ ~c.window.pendingStart /\ ~startingSession(c)
  BY <1>4, <1>5, <1>6 DEF Keeps, Stays, Moves
<1>9. stoppingSession(t) => ~t.window.pendingStart
  BY <1>5, <1>8 DEF Keeps, Stays, Moves
<1>10. stoppingSession(t) /\ Running(t) => Wanted(t)
  <2>. SUFFICES ASSUME stoppingSession(t), Running(t) PROVE Wanted(t)
    OBVIOUS
  <2>1. Running(b) /\ Running(c)
    BY <1>5, <1>6 DEF Keeps, Stays, SameProgram
  <2>. QED BY <1>4, <1>5, <1>8, <2>1 DEF Keeps, Stays
<1>11. Running(s) /\ (Wanted(s) \/ ~stoppingSession(s)) /\ ~s.client.shutdown => Sent(t)
  BY <1>2, <1>5, <1>6, SentStays
<1>. QED BY <1>1, <1>5, <1>6, <1>7, <1>9, <1>10, <1>11
=============================================================================
