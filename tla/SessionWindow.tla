---------------------------- MODULE SessionWindow ----------------------------
(***************************************************************************)
(* The session of the desktop window (BridgeWindow): recordings started    *)
(* and stopped by hand, Start Session and Stop Session, and the close that *)
(* waits for every part to stop.  All of it runs in the event loop of the  *)
(* window; the parts it drives run in threads and processes of their own,  *)
(* and report by events that come between any two clicks.                  *)
(*                                                                         *)
(* An action below is one slot called from the event loop, with everything *)
(* it calls; the pump at its end goes on with what the session waits for.  *)
(***************************************************************************)
EXTENDS Naturals

CONSTANTS
  AutomaticLaunch,    \* recorder_automatic_launch
  LocalRecorder,      \* the address is this computer and a program is found
  Modes,              \* values of record_every_visible_stream to choose from
  Launches,           \* what looking for a recorder of selected streams gives
  FailingLaunches,    \* bound: programs whose start may fail
  RecorderOnly,       \* recorder_only_mode: Start Session skips the bridge
  StreamsByHand,      \* bound: the user may start the bridge by hand
  HasPreview          \* the window has a preview panel

ASSUME WindowAssumption ==
  /\ Modes \subseteq BOOLEAN /\ Modes # {}
  /\ Launches \subseteq {"Found", "NotFound", "NoStreams"} /\ Launches # {}
  /\ FailingLaunches \subseteq {"GraphicalRecorder", "SelectedStreamRecorder"}
  /\ {AutomaticLaunch, LocalRecorder, RecorderOnly, StreamsByHand, HasPreview}
       \subseteq BOOLEAN

VARIABLES
  window,             \* the members of BridgeWindow
  client,             \* the LabRecorderClient
  process,            \* the RecorderProcessController
  bridge,             \* the bridge worker and bridge_lifecycle_
  preview,            \* the preview panel: its worker and lifecycle
  kindLeft            \* to observe: the mode was changed while the kind of a
                      \* program that failed to start was left

vars == <<window, client, process, bridge, preview, kindLeft>>

(***************************************************************************)
(* pumpSession: at most four passes, another one only when something has   *)
(* been reported back during the last.                                     *)
(***************************************************************************)
PumpAgain(s) == [s EXCEPT !.again = TRUE]

Within == INSTANCE SessionOperations WITH pumpSession <- PumpAgain

OnePass(s) == Within!Pass([s EXCEPT !.again = FALSE])

PassAgain(s) == IF s.again THEN OnePass(s) ELSE s

pumpSession(s) ==
  [PassAgain(PassAgain(PassAgain(OnePass(s)))) EXCEPT !.again = FALSE]

INSTANCE SessionOperations

Session == [window |-> window, client |-> client, process |-> process,
            bridge |-> bridge, preview |-> preview,
            again |-> FALSE]

(* Once finalizeClose is queued, the window and its slots are gone. *)
SessionBecomes(next) ==
  /\ ~window.finalizing
  /\ \E s \in {next} :
       /\ window' = s.window
       /\ client' = s.client
       /\ process' = s.process
       /\ bridge' = s.bridge
       /\ preview' = s.preview

Becomes(next) == SessionBecomes(next) /\ UNCHANGED kindLeft

-----------------------------------------------------------------------------
(* What the constructor leaves, before its first slot connects. *)
Constructed(every) ==
  [window |-> [sequence |-> "None", every |-> every, pendingStart |-> FALSE,
               pendingStop |-> FALSE, stopRequested |-> FALSE,
               discovery |-> "None", verification |-> "None",
               probe |-> FALSE, retry |-> FALSE, attempted |-> FALSE,
               guided |-> FALSE, sync |-> FALSE, deadline |-> FALSE,
               endRequested |-> FALSE, finalizing |-> FALSE],
   client |-> [connection |-> "Disconnected", socket |-> "Closed",
               recording |-> "Unknown", operation |-> "Idle",
               batch |-> "None", startMay |-> FALSE, shutdown |-> FALSE],
   process |-> [kind |-> "None", state |-> "External", os |-> "NotRunning",
                stopRequested |-> FALSE, ending |-> FALSE],
   bridge |-> [thread |-> "None", stop |-> FALSE, lifecycle |-> "Idle"],
   preview |-> [worker |-> "None", told |-> 0, lifecycle |-> "Idle"],
   again |-> FALSE]

Init ==
  \E every \in Modes :
    LET s == beginLabRecorderStartup(Constructed(every))
    IN  /\ window = s.window
        /\ client = s.client
        /\ process = s.process
        /\ bridge = s.bridge
        /\ preview = s.preview
        /\ kindLeft = FALSE

-----------------------------------------------------------------------------
(* The user.  The buttons are off while the window closes, but for these:  *)
(* the preview can be started and stopped, and the close asked for again.  *)
ClickStartStreaming ==
  StreamsByHand /\ ~Closing(Session) /\ Becomes(onStart(Session))

ClickStopStreaming == Becomes(onStop(Session))

ClickStartPreview == HasPreview /\ Becomes(startPreview(Session))

ClickStopPreview == HasPreview /\ Becomes(stopPreview(Session))

ClickConnect ==
  ~Closing(Session) /\ Becomes(onConnectLabRecorder(Session))

ClickDetach ==
  ~Closing(Session) /\ Becomes(onDetachLabRecorder(Session))

ClickLaunch ==
  /\ ~Closing(Session)
  /\ ~recordingActiveOrPending(Session)
  /\ client.connection \notin {"Connected", "Connecting"}
  /\ Becomes(launchConfiguredRecorder(
               [Session EXCEPT !.window.attempted = FALSE]))

ClickRefresh ==
  /\ ~Closing(Session)
  /\ ~recordingActiveOrPending(Session)
  /\ Becomes(beginBatch(Session, "Refreshing"))

ClickDiscover ==
  ~Closing(Session) /\ Becomes(startStreamDiscovery(Session, FALSE))

ClickStartRecording == Becomes(requestRecordingStart(Session))

ClickStopRecording ==
  ~Closing(Session) /\ Becomes(onStopRecording(Session))

onStartSession ==
  /\ window.sequence = "None"
  /\ ~recordingActiveOrPending(Session) /\ ~verificationActive(Session)
  /\ Becomes(pumpSession(
       [Session EXCEPT !.window.sequence = "StartingSession",
                       !.window.guided = FALSE,
                       !.window.stopRequested = FALSE]))

(* Its button is enabled by the heartbeat, and may still be on. *)
onStopSession ==
  /\ ~stoppingSession(Session) /\ ~Closing(Session)
  /\ LET stopping == [Session EXCEPT !.window.sequence = "StoppingSession",
                                     !.window.probe = FALSE,
                                     !.window.retry = FALSE]
     IN  Becomes(pumpSession(
           IF ~recordingActiveOrPending(stopping)
              /\ client.connection = "Connecting"
           THEN disconnectFromServer(stopping) ELSE stopping))

(* A program for selected streams that failed to start has left its kind:  *)
(* a window that then records every stream takes it for its recorder.      *)
ChangeMode ==
  /\ ~Closing(Session) /\ ~recordingActiveOrPending(Session)
  /\ (~window.every) \in Modes
  /\ SessionBecomes(beginLabRecorderStartup(
                      [Session EXCEPT !.window.every = ~@]))
  /\ kindLeft' = (kindLeft \/ Selected(Session))

EditRecordingFields ==
  ~Closing(Session) /\ Becomes([Session EXCEPT !.window.sync = TRUE])

StopSelected(s) ==
  IF Selected(s) /\ ownsRunningProcess(s)
  THEN stopSelectedStreamRecording(s) ELSE s

(* The verifier is cancelled, and reports that; the wait for a file ends.  *)
CancelWork(s) ==
  cancelStreamDiscovery([s EXCEPT
    !.window.verification = IF @ = "Waiting" THEN "None" ELSE @])

StopRunningBridge(s) ==
  IF s.bridge.thread = "None" THEN s ELSE stopBridge(s)

StopParts(s) ==
  StopRunningBridge(CancelWork(stopPreview(StopSelected(
    beginShutdown(s)))))

beginClose ==
  /\ ~Closing(Session)
  /\ Becomes(updateShutdownStatus(
       StopParts([Session EXCEPT !.window.sequence = "Closing",
                                 !.window.pendingStart = FALSE,
                                 !.window.sync = FALSE,
                                 !.window.retry = FALSE])))

Clicks ==
  \/ ClickStartStreaming \/ ClickStopStreaming
  \/ ClickStartPreview \/ ClickStopPreview
  \/ ClickConnect \/ ClickDetach \/ ClickLaunch \/ ClickRefresh
  \/ ClickDiscover \/ ClickStartRecording \/ ClickStopRecording
  \/ onStartSession \/ onStopSession \/ ChangeMode \/ EditRecordingFields
  \/ beginClose

-----------------------------------------------------------------------------
(* The remote control. *)
Connects ==
  /\ client.socket = "Connecting"
  /\ Becomes(onConnected(Session))

ConnectFails ==       \* refused, or the connection timed out
  /\ client.socket = "Connecting"
  /\ Becomes(failActiveConnection(Session))

ConnectionLost ==     \* closed by the recorder, or an error or a timeout
  /\ isConnected(Session)
  /\ \/ Becomes(abort(Session))
     \/ Becomes(failActiveConnection(Session))

StartSent ==
  /\ client.batch = "Starting"
  /\ Becomes([Session EXCEPT !.client.startMay = TRUE])

BatchConfirmed ==
  /\ client.batch # "None"
  /\ client.batch = "Starting" => client.startMay
  /\ Becomes(finishActiveBatch(Session, TRUE))

-----------------------------------------------------------------------------
(* The program this app started. *)
ReportStarted(s) ==
  pumpSession(
    IF OwnsGraphical(s) /\ ~Closing(s) /\ ~stoppingSession(s)
    THEN onLabRecorderRetry([s EXCEPT !.window.retry = TRUE],
                            FALSE)
    ELSE s)

ReportRecording(s) == IF selectedStreamRecording(s) THEN pumpSession(s) ELSE s

onStarted ==
  /\ process.os = "Starting"
  /\ Becomes(ReportRecording(ReportStarted(
       [Session EXCEPT !.process.os = "Running",
                       !.process.state = "OwnedRunning"])))

onError ==
  /\ process.os = "Starting"
  /\ process.kind \in FailingLaunches
  /\ Becomes(pumpSession([Session EXCEPT !.process.os = "NotRunning",
                                         !.process.state = "LaunchFailed"]))

(* The kind and the flags are still there while the exit is reported. *)
ReportStopped(s) ==
  IF Selected(s) THEN pumpSession(requestVerification(s)) ELSE s

ReportExit(s) ==
  pumpSession(pumpSession([s EXCEPT !.process.state = "OwnedExited"]))

onFinished ==
  /\ process.os = "Running"
  /\ Becomes([ReportExit(ReportStopped(
                 [Session EXCEPT !.process.os = "NotRunning"]))
               EXCEPT !.process.kind = "None", !.process.stopRequested = FALSE,
                      !.process.ending = FALSE])

-----------------------------------------------------------------------------
(* The stream search, and the recording that waits for it. *)
startRecording(s) ==
  IF s.client.startMay \/ s.client.recording = "Recording"
  THEN commandFinished(s, "Starting", FALSE)
  ELSE beginBatch(s, "Starting")

startSelectedStreamRecorder(s, launch) ==
  CASE launch = "Found" /\ s.process.os = "NotRunning" ->
         startProcess(s, "SelectedStreamRecorder")
    [] launch = "NotFound" ->
         pumpSession([s EXCEPT !.process.state = "LaunchFailed"])
    [] OTHER -> s

BeginRecording(s, launch) ==
  IF s.window.every THEN startRecording(s)
  ELSE startSelectedStreamRecorder(s, launch)

beginRecordingAfterSetupCheck(s, launch) ==
  [BeginRecording([s EXCEPT !.window.stopRequested = FALSE], launch)
     EXCEPT !.window.pendingStart = FALSE]

completePendingRecordingStart(s, check, launch) ==
  IF ~s.window.pendingStart \/ Closing(s) THEN s
  ELSE IF check = "Blocked" THEN [s EXCEPT !.window.pendingStart = FALSE]
  ELSE beginRecordingAfterSetupCheck(s, launch)

DiscoveryFinished(check, launch) ==
  LET done == [Session EXCEPT !.window.discovery = "None"]
  IN  /\ window.discovery # "None"
      /\ Becomes(pumpSession(
           IF ~window.pendingStart \/ Closing(Session) THEN done
           ELSE IF window.discovery = "Cancelled"
           THEN startStreamDiscovery(done, TRUE)
           ELSE completePendingRecordingStart(done, check, launch)))

-----------------------------------------------------------------------------
(* The check of the recorded file. *)
finishVerification(s, next) ==
  pumpSession([s EXCEPT !.window.verification = next,
                        !.window.stopRequested = FALSE])

onVerificationFilePoll ==
  /\ window.verification = "Waiting"
  /\ \/ Becomes([Session EXCEPT !.window.verification = "Checking"])
     \/ Becomes(finishVerification(Session, "None"))

VerifierReports ==
  /\ window.verification = "Checking"
  /\ Becomes(finishVerification(Session, "Reported"))

VerifierFinished ==
  /\ window.verification = "Reported"
  /\ Becomes(pumpSession([Session EXCEPT !.window.verification = "None"]))

-----------------------------------------------------------------------------
(* The workers report in the order in which they went on, but late: what   *)
(* they reported before a Stop can come after it.                          *)
BridgeStarted ==
  /\ bridge.thread = "Launched"
  /\ Becomes(LET s == [Session EXCEPT !.bridge.thread = "Running"]
             IN  IF bridge.lifecycle = "Stopping" THEN s
                 ELSE pumpSession([s EXCEPT !.bridge.lifecycle = "Starting"]))

BridgeState(state) ==
  IF state = "Streaming" THEN "Running" ELSE "Starting"

onStatusUpdate(state) ==
  /\ bridge.thread = "Running"
  /\ Becomes(pumpSession(
       IF bridge.lifecycle \in {"Stopping", "Failed"} THEN Session
       ELSE [Session EXCEPT !.bridge.lifecycle = BridgeState(state)]))

BridgeEnded(lifecycle) ==
  /\ bridge.thread = "Running"
  /\ lifecycle = "Stopped" => bridge.stop
  /\ Becomes(pumpSession([Session EXCEPT !.bridge.thread = "Ended",
                                         !.bridge.lifecycle = lifecycle]))

onWorkerFinished ==
  /\ bridge.thread = "Ended"
  /\ Becomes(pumpSession(
       [Session EXCEPT !.bridge.thread = "None", !.bridge.stop = FALSE,
          !.bridge.lifecycle = IF @ = "Failed" THEN @ ELSE "Stopped"]))

PreviewReports == <<"Starting", "Running", "Stopping", "Stopped">>

PreviewReported ==
  /\ preview.worker # "None"
  /\ preview.told < IF preview.worker = "Stopping" THEN 4 ELSE 2
  /\ Becomes(pumpSession(
       [Session EXCEPT !.preview.told = @ + 1,
          !.preview.lifecycle = PreviewReports[preview.told + 1]]))

PreviewFinished ==
  /\ preview.told = 4
  /\ Becomes(pumpSession([Session EXCEPT
       !.preview = [worker |-> "None", told |-> 0, lifecycle |-> "Stopped"]]))

-----------------------------------------------------------------------------
(* The timers. *)
FilenameSync ==
  /\ window.sync
  /\ LET s == [Session EXCEPT !.window.sync = FALSE]
     IN  Becomes(IF \/ recordingActiveOrPending(s) \/ window.stopRequested
                    \/ ~window.every \/ ~recorderCanStart(s)
                 THEN s ELSE beginBatch(s, "UpdatingFilename"))

RetryTick(expired) ==
  window.retry /\ Becomes(onLabRecorderRetry(Session, expired))

Heartbeat == Becomes(pumpSession(Session))

ClosePoll ==
  Closing(Session) /\ Becomes(updateShutdownStatus(Session))

StopDeadline ==
  Closing(Session) /\ Becomes([Session EXCEPT !.window.deadline = TRUE])

RecorderEvents ==
  \/ Connects \/ ConnectFails \/ ConnectionLost \/ StartSent
  \/ BatchConfirmed \/ onStarted \/ onError \/ onFinished

AnyDiscoveryFinished ==
  \E check \in {"Passed", "Blocked"} :
    \E launch \in Launches : DiscoveryFinished(check, launch)

WorkerEvents ==
  \/ AnyDiscoveryFinished
  \/ onVerificationFilePoll \/ VerifierReports \/ VerifierFinished
  \/ BridgeStarted
  \/ \E state \in {"Streaming", "Other"} : onStatusUpdate(state)
  \/ \E lifecycle \in {"Stopped", "Failed"} : BridgeEnded(lifecycle)
  \/ onWorkerFinished \/ PreviewReported \/ PreviewFinished

Timers ==
  \/ FilenameSync \/ \E expired \in BOOLEAN : RetryTick(expired)
  \/ Heartbeat \/ ClosePoll \/ StopDeadline

Next == Clicks \/ RecorderEvents \/ WorkerEvents \/ Timers

Spec == Init /\ [][Next]_vars

(***************************************************************************)
(* The parts answer: a connection attempt and a batch of commands end (the *)
(* client has a timer for each), a program starts or fails to, and ends    *)
(* when it is killed, workers end once asked to, timers fire.  Nothing is  *)
(* assumed of the user, of a connection, or of a program asked to stop.    *)
(*                                                                         *)
(* Each other conjunct is WF_vars(A) with ENABLED <<A>>_vars written out:  *)
(* what it waits for has ended again and again, or A is taken again and    *)
(* again.                                                                  *)
(***************************************************************************)
BatchEnds ==
  \/ StartSent \/ BatchConfirmed
  \/ client.batch # "None" /\ Becomes(failActiveConnection(Session))

BridgeGoesOn == BridgeStarted \/ BridgeEnded("Stopped") \/ onWorkerFinished

BridgeWillReport ==
  \/ bridge.thread \in {"Launched", "Ended"}
  \/ bridge.stop /\ bridge.thread # "None"

PreviewGoesOn == PreviewReported \/ PreviewFinished

PreviewWillReport ==
  \/ preview.worker = "Stopping"
  \/ preview.worker = "Running" /\ preview.told < 2

Over(waiting) == window.finalizing \/ ~waiting

Fairness ==
  /\ \/ []<>Over(client.socket = "Connecting")
     \/ []<><<Connects \/ ConnectFails>>_vars
  /\ []<>Over(client.batch # "None") \/ []<><<BatchEnds>>_vars
  /\ []<>Over(process.os = "Starting") \/ []<><<onStarted \/ onError>>_vars
  /\ \/ []<>Over(process.os = "Running" /\ process.ending)
     \/ []<><<onFinished>>_vars
  /\ []<>Over(window.discovery # "None") \/ []<><<AnyDiscoveryFinished>>_vars
  /\ \/ []<>Over(window.verification = "Waiting")
     \/ []<><<onVerificationFilePoll>>_vars
  /\ \/ []<>Over(window.verification \in {"Checking", "Reported"})
     \/ []<><<VerifierReports \/ VerifierFinished>>_vars
  /\ []<>Over(BridgeWillReport) \/ []<><<BridgeGoesOn>>_vars
  /\ []<>Over(PreviewWillReport) \/ []<><<PreviewGoesOn>>_vars
  /\ []<>Over(window.retry) \/ []<><<RetryTick(TRUE)>>_vars
  /\ []<>Over(pumpSession(Session) # Session) \/ []<><<Heartbeat>>_vars
  /\ \/ []<>Over(updateShutdownStatus(Session) # Session)
     \/ []<><<ClosePoll>>_vars
  /\ WF_vars(StopDeadline)

FairSpec == Spec /\ Fairness

-----------------------------------------------------------------------------
(* Types, and what must go together: the client is Connected exactly while *)
(* its socket is, whatever the slots of its signals did in between, and a  *)
(* process runs exactly while the controller says that it owns one.        *)
TypeOK ==
  /\ window \in
       [sequence : {"None", "StartingSession", "StoppingSession", "Closing"},
        every : Modes, pendingStart : BOOLEAN, pendingStop : BOOLEAN,
        stopRequested : BOOLEAN,
        discovery : {"None", "Running", "Cancelled"},
        verification : {"None", "Waiting", "Checking", "Reported"},
        probe : BOOLEAN, retry : BOOLEAN, attempted : BOOLEAN,
        guided : BOOLEAN, sync : BOOLEAN, deadline : BOOLEAN,
        endRequested : BOOLEAN, finalizing : BOOLEAN]
  /\ client.connection \in {"Disconnected", "Connecting", "Connected", "Error"}
  /\ client.connection = "Connected" <=> isConnected(Session)
  /\ process.os = "NotRunning" <=> ~ownsRunningProcess(Session)

(* The window closes only when the recorder has confirmed its last Stop or *)
(* cannot be reached any more, and never before a program that it started  *)
(* has ended ("every required part stopped").                              *)
ClosesSafely ==
  window.finalizing =>
    /\ \/ kindLeft /\ Selected(Session)
       \/ ~client.startMay /\ client.batch # "Starting"
       \/ recorderConnectionLostExternally(Session)
    /\ ~ownsRunningProcess(Session)

(* A Stop that was asked for while the recorder may be recording is not    *)
(* forgotten on a refusal, a lost connection or a reconnection: it stays   *)
(* pending or in progress until the recorder is known to have stopped, was *)
(* let go by the user, or a new recording was started in its place.        *)
StopWanted == window.pendingStop \/ window.stopRequested

StopIsKept ==
  [][(StopWanted /\ client.startMay /\ client'.startMay
      /\ window'.sequence # "Closing" /\ ~window'.finalizing)
     => StopWanted' \/ (kindLeft /\ Selected(Session))]_vars

(* The window says that it waits for a Stop only while one is on its way,  *)
(* or the file that it ended is checked: otherwise Stop would stay refused.*)
StopRequestIsBacked ==
  window.stopRequested =>
    \/ client.batch = "Stopping" \/ verificationActive(Session)
    \/ Selected(Session) /\ process.stopRequested
    \/ window.sequence = "Closing" \/ window.finalizing
    \/ kindLeft

(* What holds of the window at any moment: its parts agree with the client *)
(* and the process, it is closed only when that is safe, and it is never   *)
(* stuck on a Stop that nobody carries out.                                *)
WindowSafe == TypeOK /\ ClosesSafely /\ StopRequestIsBacked

(* A file is checked only when nothing records any more: the next          *)
(* recording has to wait for the check, however it was asked for.          *)
FileCheckedAlone ==
  verificationActive(Session) /\ ~kindLeft =>
    /\ client.batch # "Starting" /\ ~client.startMay
    /\ ~selectedStreamRecording(Session)

(* A recorder program is ended by the app only when nothing may record in  *)
(* it any more, or when the 15 s that a close waits for the Stop are over. *)
EndsOnlyStopped ==
  [][(~process.ending /\ process'.ending) =>
       (window'.deadline \/ (~client'.startMay /\ ~Selected(Session)))]_vars

(* While the session stops or the window closes, no program is launched    *)
(* and no recording begins, whatever timer, connection or answer comes in. *)
NothingStartsAnew ==
  [][window.sequence \in {"StoppingSession", "Closing"} =>
       /\ (process.os = "NotRunning" => process'.os # "Starting")
       /\ (client'.batch = "Starting" => client.batch = "Starting")]_vars

(* What a Stop, or the close that implies it, asks for is respected: it is *)
(* not dropped, a program is not cut off before it, and nothing begins     *)
(* behind it.                                                              *)
StopIsRespected == StopIsKept /\ EndsOnlyStopped /\ NothingStartsAnew

(* Stop Session goes in its order: the bridge is told to stop only when    *)
(* nothing records, no file is checked and the preview has ended, unless   *)
(* the user stops the bridge or closes the window.                         *)
StopsInOrder ==
  [][(window.sequence = "StoppingSession" /\ ~bridge.stop /\ bridge'.stop) =>
       \/ ClickStopStreaming \/ window'.sequence = "Closing"
       \/ /\ preview'.worker = "None" /\ ~recordingActiveOrPending(Session)'
          /\ ~verificationActive(Session)']_vars

(* Closing always comes to its end, unless the preview was started again   *)
(* meanwhile or the recorder was reached only after the close began, when  *)
(* nothing sends it the Stop that is still owed (see CloseAlwaysEnds).     *)
MissedStop ==
  /\ client.startMay /\ client.batch = "None"
  /\ client.connection = "Connected"

CloseEnds ==
  window.sequence = "Closing" ~>
    \/ window.finalizing \/ MissedStop \/ preview.worker = "Running"

(* Stop Session comes to its end, unless the user keeps starting parts     *)
(* again, or it waits for a recorder that was lost while it may record, or *)
(* for the end of a recorder program.                                      *)
StopSessionEnds ==
  \/ []<><<ClickStartPreview>>_vars \/ []<><<ClickStartStreaming>>_vars
  \/ window.sequence = "StoppingSession" ~>
       \/ window.sequence # "StoppingSession"
       \/ client.startMay /\ ~isConnected(Session)
       \/ ownsRunningProcess(Session)

(* Whatever the user began ends: both sequences come to their end. *)
SequencesEnd == StopSessionEnds /\ CloseEnds

(* What the documentation says of a close: it ends (state machine          *)
(* "Closing the window").                                                  *)
CloseAlwaysEnds == window.sequence = "Closing" ~> window.finalizing
=============================================================================
