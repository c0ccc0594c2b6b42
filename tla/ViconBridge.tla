----------------------------- MODULE ViconBridge -----------------------------
(***************************************************************************)
(* The Vicon bridge (ViconLSLBridge with ViconClient and the two           *)
(* ViconOutlets): one thread in run() connects to the Vicon server, opens  *)
(* the marker and the segment stream for the layout it discovers, sends    *)
(* every frame to both, and reconnects after errors, until another thread  *)
(* calls stop().                                                           *)
(*                                                                         *)
(* The environment (the Vicon SDK, liblsl, the caller of stop) is a        *)
(* nondeterministic choice at each call.  Abstracted: frame numbers, the   *)
(* values in a sample, message texts, and the sleep inside a wait.         *)
(***************************************************************************)
EXTENDS Integers, FiniteSets, ViconTimestamps

CONSTANTS
  Layouts,            \* the layouts Vicon may report: [markers, segments]
  Rates,              \* the positive camera rates Vicon may report
  StatusInterval,     \* kStatusIntervalFrames
  MaxFrameTimeouts,   \* kMaxFrameTimeouts
  MaxLayoutChanges    \* bound: layout edits seen in a behaviour

EmptyLayout == [markers |-> {}, segments |-> {}]
NoLayout == [markers |-> {"none"}, segments |-> {"none"}]
IrregularRate == 0

ASSUME BridgeAssumption ==
  /\ \A layout \in Layouts : layout = [markers |-> layout.markers,
                                       segments |-> layout.segments]
  /\ NoLayout \notin Layouts
  /\ Rates \subseteq Nat \ {IrregularRate}
  /\ StatusInterval \in Nat \ {0}
  /\ MaxFrameTimeouts \in Nat \ {0}
  /\ MaxLayoutChanges \in Nat

VARIABLES
  running,            \* running_, cleared by stop()
  pc,                 \* where the bridge thread is
  connected,          \* ViconClient::connected_
  link,               \* the SDK's own IsConnected().Connected
  frameRate,          \* ViconClient::frame_rate_
  markerStream,       \* the two ViconOutlets
  segmentStream,
  knownLayout,        \* known_layout_
  publishedLayout,    \* published_layout_
  publishedRate,      \* published_rate_
  layoutChangeCount,  \* layout_change_count_
  firstFrameFailed,   \* previous_first_frame_failed
  frameTimeouts,      \* frame_timeouts
  framesSinceCheck,   \* frames_since_layout_check_
  cleanFrames,        \* clean_frames_
  aggregated,         \* the diagnostic aggregator holds a count
  haveMessage,        \* last_diagnostic_message_ is not empty
  lastTimestamp,      \* timestamp_state
  status,             \* the last BridgeStatus reported
  history,            \* what left the bridge so far (observed by properties)
  inOrder             \* and whether it left in the order of its timestamps

clientVars == <<connected, link, frameRate>>
streamVars == <<markerStream, segmentStream>>
layoutVars == <<knownLayout, publishedLayout, publishedRate, layoutChangeCount>>
diagnosticVars == <<cleanFrames, aggregated, haveMessage>>
loopVars == <<firstFrameFailed, frameTimeouts, framesSinceCheck>>
historyVars == <<history, inOrder>>
allButPc == <<running, clientVars, streamVars, layoutVars, diagnosticVars,
              loopVars, lastTimestamp, historyVars>>
vars == <<running, pc, clientVars, streamVars, layoutVars, diagnosticVars,
          loopVars, lastTimestamp, status, historyVars>>

(***************************************************************************)
(* ViconOutlet: a stream is configured for a list of items and has an      *)
(* outlet unless the list is empty.                                        *)
(***************************************************************************)
Closed == [configured |-> FALSE, items |-> {}, open |-> FALSE]
Initialized(items) ==
  [configured |-> TRUE, items |-> items, open |-> items # {}]

(***************************************************************************)
(* The results pushSample may have for a sample of these items, and what   *)
(* it leaves of the stream: an exception of the outlet closes it.          *)
(***************************************************************************)
PushResults(stream, items) ==
  IF ~stream.configured
  THEN {[pushed |-> FALSE, sent |-> FALSE, stream |-> stream]}
  ELSE IF stream.items = {}
  THEN {[pushed |-> TRUE, sent |-> FALSE, stream |-> stream]}
  ELSE IF ~stream.open \/ Cardinality(stream.items) # Cardinality(items)
  THEN {[pushed |-> FALSE, sent |-> FALSE, stream |-> stream]}
  ELSE {[pushed |-> TRUE, sent |-> TRUE, stream |-> stream],
        [pushed |-> FALSE, sent |-> FALSE, stream |-> Closed]}

(***************************************************************************)
(* reportStatus: the state with the known layout and the change count as   *)
(* they are when the handler ends.                                         *)
(***************************************************************************)
Report(state) ==
  status' = [state |-> state, layout |-> knownLayout',
             layoutChanges |-> layoutChangeCount']

Differs(rate, published) ==
  LET larger == IF rate > published THEN rate ELSE published
      smaller == IF rate > published THEN published ELSE rate
  IN  100 * (larger - smaller) > larger

(* What the history records of streams opened and of a sample sent. *)
Opened(layout, count) ==
  [history EXCEPT
     !.openedLayout = layout,
     !.countAtOpen = count]

Sent(toMarkers, toSegments, timestamp) ==
  [history EXCEPT
     !.markerTime = IF toMarkers THEN timestamp ELSE @,
     !.segmentTime = IF toSegments THEN timestamp ELSE @]

-----------------------------------------------------------------------------
Init ==
  /\ running = TRUE
  /\ pc = "Top"
  /\ connected = FALSE
  /\ link = FALSE
  /\ frameRate = IrregularRate
  /\ markerStream = Closed
  /\ segmentStream = Closed
  /\ knownLayout = EmptyLayout
  /\ publishedLayout = NoLayout
  /\ publishedRate = IrregularRate
  /\ layoutChangeCount = 0
  /\ firstFrameFailed = FALSE
  /\ frameTimeouts = 0
  /\ framesSinceCheck = 0
  /\ cleanFrames = 0
  /\ aggregated = FALSE
  /\ haveMessage = FALSE
  /\ lastTimestamp = NoTimestamp
  /\ status = [state |-> "Disconnected", layout |-> EmptyLayout,
               layoutChanges |-> 0]
  /\ history = [markerTime |-> NoTimestamp, segmentTime |-> NoTimestamp,
                openedLayout |-> NoLayout, countAtOpen |-> 0]
  /\ inOrder = TRUE
-----------------------------------------------------------------------------
(***************************************************************************)
(* handleDiagnostics: StatusInterval clean reads in a row clear an error;  *)
(* a failed read restarts that count, and its first copy (or a repeat the  *)
(* aggregator chooses to show again) becomes the message.                  *)
(***************************************************************************)
ReadsClean ==
  IF ~haveMessage THEN UNCHANGED diagnosticVars
  ELSE IF cleanFrames + 1 >= StatusInterval
  THEN /\ cleanFrames' = 0
       /\ haveMessage' = FALSE
       /\ aggregated' = FALSE
  ELSE /\ cleanFrames' = cleanFrames + 1
       /\ UNCHANGED <<haveMessage, aggregated>>

ReadsFailed ==
  /\ cleanFrames' = 0
  /\ aggregated' = TRUE
  /\ haveMessage' \in IF aggregated THEN {haveMessage, TRUE} ELSE {TRUE}

DisconnectKeepsLink ==         \* faulty: the SDK's connection stays
  /\ connected' = FALSE
  /\ frameRate' = IrregularRate
  /\ UNCHANGED link

Disconnect ==
  /\ connected' = FALSE
  /\ link' = FALSE
  /\ frameRate' = IrregularRate

(* Rates getFrame may leave: a rate that cannot be read keeps the old one. *)
NextRates == Rates \cup {frameRate}

(***************************************************************************)
(* refreshStreams, once a layout has been discovered and any old streams   *)
(* are closed: the layout becomes the published one, and its change is     *)
(* counted, before the streams are opened; then both streams open or       *)
(* neither does.                                                           *)
(***************************************************************************)
DiscoverableLayouts ==
  {layout \in Layouts : \/ layoutChangeCount < MaxLayoutChanges
                        \/ publishedLayout \in {NoLayout, layout}}

CountSeenStreaming(layout) ==  \* faulty: changes over a reconnect are missed
  IF knownLayout \in {EmptyLayout, layout}
  THEN layoutChangeCount ELSE layoutChangeCount + 1

CountChange(layout) ==
  IF publishedLayout \in {NoLayout, layout}
  THEN layoutChangeCount ELSE layoutChangeCount + 1

Publish(layout, rate) ==
  /\ knownLayout' = layout
  /\ publishedLayout' = layout
  /\ publishedRate' = rate
  /\ layoutChangeCount' = CountChange(layout)
  /\ cleanFrames' = 0
  /\ aggregated' = FALSE

OpenBoth(layout, rate) ==
  /\ Publish(layout, rate)
  /\ markerStream' = Initialized(layout.markers)
  /\ segmentStream' = Initialized(layout.segments)
  /\ haveMessage' = FALSE
  /\ history' = Opened(layout, layoutChangeCount')
  /\ UNCHANGED inOrder

CloseSegments ==               \* faulty: the marker stream is left behind
  segmentStream' = Closed /\ UNCHANGED markerStream

CloseBoth ==
  markerStream' = Closed /\ segmentStream' = Closed

OpenFails(layout, rate) ==
  /\ layout # EmptyLayout
  /\ Publish(layout, rate)
  /\ CloseBoth
  /\ haveMessage' = TRUE
  /\ UNCHANGED historyVars

-----------------------------------------------------------------------------
(***************************************************************************)
(* run(): the outer loop and connectWithRetry.                             *)
(***************************************************************************)
BeginConnecting ==
  /\ pc = "Top"
  /\ running
  /\ pc' = "Dial"
  /\ UNCHANGED allButPc
  /\ Report("Connecting")

ConnectSucceeds ==
  /\ pc = "Dial"
  /\ running
  /\ ~link
  /\ connected' = TRUE
  /\ link' = TRUE
  /\ frameRate' = IrregularRate
  /\ pc' = "Connected"
  /\ UNCHANGED <<running, streamVars, layoutVars, diagnosticVars, loopVars,
                 lastTimestamp, status, historyVars>>

ConnectFails ==
  /\ pc = "Dial"
  /\ running
  /\ pc' = "DialWait"
  /\ UNCHANGED allButPc
  /\ Report("Connecting")

(* The two sleeps end when the interval is over or stop() was called. *)
EndWait ==
  /\ \/ pc = "DialWait" /\ pc' = "Dial"
     \/ pc = "Wait" /\ pc' = "Top"
  /\ UNCHANGED <<allButPc, status>>

AfterConnecting ==
  /\ \/ pc = "Connected" /\ running /\ pc' = "FirstFrame"
     \/ pc = "Dial" /\ ~running /\ pc' = "Connected"
  /\ UNCHANGED <<allButPc, status>>

(* Leaves run(), which releases a connection made while stop() was called. *)
Finish ==
  /\ ~running
  /\ \/ pc = "Top" /\ UNCHANGED clientVars
     \/ pc = "Connected" /\ IF connected /\ link THEN Disconnect
                            ELSE UNCHANGED clientVars
  /\ pc' = "Stopped"
  /\ UNCHANGED <<running, streamVars, layoutVars, diagnosticVars, loopVars,
                 lastTimestamp, historyVars>>
  /\ Report("Stopped")

-----------------------------------------------------------------------------
(***************************************************************************)
(* The first frame and the opening of the streams.                         *)
(***************************************************************************)
FirstFrameFails ==
  /\ pc = "FirstFrame"
  /\ Disconnect
  /\ firstFrameFailed' = TRUE
  /\ pc' = IF firstFrameFailed THEN "Wait" ELSE "Top"
  /\ UNCHANGED <<running, streamVars, layoutVars, diagnosticVars,
                 frameTimeouts, framesSinceCheck, lastTimestamp, historyVars>>
  /\ Report("Connecting")

OpenSession(layout, rate) ==
  /\ pc = "FirstFrame"
  /\ link
  /\ frameRate' = rate
  /\ OpenBoth(layout, rate)
  /\ firstFrameFailed' = FALSE
  /\ frameTimeouts' = 0
  /\ pc' = "Stream"
  /\ UNCHANGED <<running, connected, link, framesSinceCheck, lastTimestamp>>
  /\ Report("Streaming")

OpenSessionFails(layout, rate) ==
  /\ pc = "FirstFrame"
  /\ link
  /\ OpenFails(layout, rate)
  /\ Disconnect
  /\ firstFrameFailed' = FALSE
  /\ pc' = "Wait"
  /\ UNCHANGED <<running, frameTimeouts, framesSinceCheck, lastTimestamp>>
  /\ Report("Connecting")

DiscoveryFails ==
  /\ pc = "FirstFrame"
  /\ link
  /\ ReadsFailed
  /\ Disconnect
  /\ firstFrameFailed' = FALSE
  /\ pc' = "Wait"
  /\ UNCHANGED <<running, streamVars, layoutVars, frameTimeouts,
                 framesSinceCheck, lastTimestamp, historyVars>>
  /\ Report("Connecting")

-----------------------------------------------------------------------------
(***************************************************************************)
(* streamFrames: the loop head, the read of a frame, the push to both      *)
(* streams and the layout check after every StatusInterval frames.  stop() *)
(* may come while getFrame blocks, that is while pc = "Reading".           *)
(***************************************************************************)
StreamWhileConnected ==        \* faulty: stop() is not looked at
  connected /\ link

KeepStreaming ==
  running /\ connected /\ link

NextFrame ==
  /\ pc = "Stream"
  /\ pc' = IF KeepStreaming THEN "Reading" ELSE "Reset"
  /\ UNCHANGED <<allButPc, status>>

MayTimeOut ==
  frameTimeouts + 1 < MaxFrameTimeouts

FrameTimesOut ==
  /\ pc = "Reading"
  /\ link
  /\ MayTimeOut
  /\ frameTimeouts' = frameTimeouts + 1
  /\ pc' = "Stream"
  /\ UNCHANGED <<running, clientVars, streamVars, layoutVars, diagnosticVars,
                 firstFrameFailed, framesSinceCheck, lastTimestamp, historyVars>>
  /\ IF frameTimeouts = 0 THEN Report("Streaming") ELSE UNCHANGED status

(* Any other failed read, or the last timeout allowed, ends the session. *)
FrameLost ==
  /\ pc = "Reading"
  /\ pc' = "Reset"
  /\ UNCHANGED allButPc
  /\ Report("Connecting")

(* A frame without a finite timestamp is skipped and not counted. *)
FrameSkipped(rate, timestamp) ==
  /\ pc = "Reading"
  /\ link
  /\ timestamp = NotFinite
  /\ frameRate' = rate
  /\ frameTimeouts' = 0
  /\ pc' = "Stream"
  /\ UNCHANGED <<running, connected, link, streamVars, layoutVars,
                 diagnosticVars, firstFrameFailed, framesSinceCheck,
                 lastTimestamp, historyVars>>
  /\ IF frameTimeouts > 0 THEN Report("Streaming") ELSE UNCHANGED status

(***************************************************************************)
(* streamFrame: both pushes are attempted, with the same timestamp; then   *)
(* handleDiagnostics tells of the reads, and only its caller that a push   *)
(* failed.                                                                 *)
(***************************************************************************)
PushBoth(markers, segments, timestamp) ==
  /\ lastTimestamp' = timestamp
  /\ markerStream' = markers.stream
  /\ segmentStream' = segments.stream
  /\ history' = Sent(markers.sent, segments.sent, timestamp)
  /\ inOrder' = (/\ inOrder
                 /\ (markers.sent \/ segments.sent =>
                       /\ timestamp > history.markerTime
                       /\ timestamp > history.segmentTime))

MarkersSent(markers, segments) ==  \* faulty: the segments' push is not asked
  markers.pushed

FrameSent(markers, segments) ==
  markers.pushed /\ segments.pushed

(***************************************************************************)
(* handleDiagnostics is run with its default state: what it reports of a   *)
(* frame is Streaming, also when a push of that frame failed and closed    *)
(* its stream.  A frame after a timeout, and a layout check, report too.   *)
(***************************************************************************)
SendFrame(rate, timestamp, markers, segments) ==
  /\ pc = "Reading"
  /\ link
  /\ timestamp # NotFinite
  /\ frameRate' = rate
  /\ frameTimeouts' = 0
  /\ PushBoth(markers, segments, timestamp)
  /\ ReadsClean \/ ReadsFailed
  /\ UNCHANGED <<running, connected, link, layoutVars, firstFrameFailed>>
  /\ IF ~FrameSent(markers, segments)
     THEN pc' = "OutletFailed" /\ UNCHANGED framesSinceCheck
     ELSE IF framesSinceCheck + 1 >= StatusInterval
     THEN pc' = "Check" /\ framesSinceCheck' = 0
     ELSE pc' = "Stream" /\ framesSinceCheck' = framesSinceCheck + 1
  /\ \/ Report("Streaming")
     \/ /\ pc' # "Check"       \* no message to show, no timeout over
        /\ frameTimeouts = 0
        /\ UNCHANGED status

(* streamFrames, told by streamFrame that a push failed, ends the session. *)
ReportOutletFailed ==
  /\ pc = "OutletFailed"
  /\ pc' = "Reset"
  /\ UNCHANGED allButPc
  /\ Report("Connecting")

ReadFrame ==
  \E rate \in NextRates, candidate, receipt \in Times :
    LET timestamp == enforceViconTimestamp(candidate, receipt, lastTimestamp)
    IN  \/ FrameSkipped(rate, timestamp)
        \/ \E markers \in PushResults(markerStream, knownLayout.markers),
              segments \in PushResults(segmentStream, knownLayout.segments) :
             SendFrame(rate, timestamp, markers, segments)

CheckReadFails ==
  /\ pc = "Check"
  /\ ReadsFailed
  /\ pc' = "Stream"
  /\ UNCHANGED <<running, clientVars, streamVars, layoutVars, loopVars,
                 lastTimestamp, historyVars>>
  /\ Report("Streaming")

CheckUnchanged ==
  /\ pc = "Check"
  /\ knownLayout \in Layouts
  /\ ~Differs(frameRate, publishedRate)
  /\ pc' = "Stream"
  /\ UNCHANGED <<allButPc, status>>

Reopen(layout) ==
  /\ pc = "Check"
  /\ layout # knownLayout \/ Differs(frameRate, publishedRate)
  /\ \/ OpenBoth(layout, frameRate) /\ pc' = "Stream"
     \/ OpenFails(layout, frameRate) /\ pc' = "Reset"
  /\ UNCHANGED <<running, clientVars, loopVars, lastTimestamp>>
  /\ Report(IF pc' = "Stream" THEN "Streaming" ELSE "Connecting")

ResetConnectedSession ==
  /\ pc = "Reset"
  /\ CloseBoth
  /\ Disconnect
  /\ framesSinceCheck' = 0
  /\ cleanFrames' = 0
  /\ knownLayout' = EmptyLayout
  /\ aggregated' = FALSE
  /\ haveMessage' = FALSE
  /\ pc' = "Wait"
  /\ UNCHANGED <<running, publishedLayout, publishedRate, layoutChangeCount,
                 firstFrameFailed, frameTimeouts, lastTimestamp, historyVars>>
  /\ Report("Disconnected")

-----------------------------------------------------------------------------
(* The other threads: stop(), and the loss of the SDK's connection. *)
Stop ==
  /\ running
  /\ running' = FALSE
  /\ UNCHANGED <<pc, clientVars, streamVars, layoutVars, diagnosticVars,
                 loopVars, lastTimestamp, status, historyVars>>

LinkLost ==
  /\ link
  /\ link' = FALSE
  /\ UNCHANGED <<running, pc, connected, frameRate, streamVars, layoutVars,
                 diagnosticVars, loopVars, lastTimestamp, status, historyVars>>

FirstFrame ==
  \/ FirstFrameFails
  \/ DiscoveryFails
  \/ \E layout \in DiscoverableLayouts, rate \in NextRates :
       OpenSession(layout, rate) \/ OpenSessionFails(layout, rate)

LayoutCheck ==
  \/ CheckReadFails
  \/ CheckUnchanged
  \/ \E layout \in DiscoverableLayouts : Reopen(layout)

BridgeThread ==
  \/ BeginConnecting \/ ConnectSucceeds \/ ConnectFails \/ EndWait
  \/ AfterConnecting \/ Finish
  \/ FirstFrame
  \/ NextFrame \/ FrameTimesOut \/ FrameLost \/ ReadFrame
  \/ ReportOutletFailed \/ LayoutCheck \/ ResetConnectedSession

(* run() has returned: the only state in which nothing more happens. *)
Done == pc = "Stopped" /\ UNCHANGED vars

Next == BridgeThread \/ Stop \/ LinkLost \/ Done

Spec == Init /\ [][Next]_vars

-----------------------------------------------------------------------------
(***************************************************************************)
(* Fairness: run() always takes its next step, for its calls return and    *)
(* its waits end.  The strong conditions say that a server asked again and *)
(* again answers in the end: a connect succeeds, and a first frame with a  *)
(* readable layout arrives and its streams open.  Neither is enabled after *)
(* stop(), so they give StopLeadsToStopped nothing.                        *)
(***************************************************************************)
SessionOpens ==
  \E layout \in DiscoverableLayouts, rate \in NextRates :
    OpenSession(layout, rate)

FairSpec ==
  /\ Spec
  /\ WF_vars(BridgeThread)
  /\ SF_vars(ConnectSucceeds)
  /\ SF_vars(SessionOpens)

-----------------------------------------------------------------------------
(* In Broken a push has failed, and the pair of streams may be half open. *)
Broken == {"OutletFailed", "Reset"}
Session == {"Stream", "Reading", "Check"} \cup Broken
Locations == {"Top", "Dial", "DialWait", "Connected", "FirstFrame", "Wait",
              "Stopped"} \cup Session
States == {"Disconnected", "Connecting", "Streaming", "Stopped"}

MarkerLists == {layout.markers : layout \in Layouts}
SegmentLists == {layout.segments : layout \in Layouts}
Streams(lists) == {Closed} \cup {Initialized(items) : items \in lists}
KnownLayouts == Layouts \cup {EmptyLayout}

FlagsOK ==
  /\ running \in BOOLEAN
  /\ connected \in BOOLEAN
  /\ link \in BOOLEAN
  /\ firstFrameFailed \in BOOLEAN
  /\ aggregated \in BOOLEAN
  /\ haveMessage \in BOOLEAN
  /\ inOrder \in BOOLEAN

StreamsOK ==
  /\ markerStream \in Streams(MarkerLists)
  /\ segmentStream \in Streams(SegmentLists)
  /\ knownLayout \in KnownLayouts
  /\ publishedLayout \in Layouts \cup {NoLayout}

CountersOK ==
  /\ frameRate \in Nat
  /\ publishedRate \in Nat
  /\ layoutChangeCount \in Nat
  /\ frameTimeouts \in 0..(MaxFrameTimeouts - 1)
  /\ framesSinceCheck \in 0..(StatusInterval - 1)
  /\ cleanFrames \in 0..(StatusInterval - 1)
  /\ lastTimestamp \in TimestampState

Statuses == [state : States, layout : KnownLayouts, layoutChanges : Nat]
Histories ==
  [markerTime : TimestampState, segmentTime : TimestampState,
   openedLayout : Layouts \cup {NoLayout}, countAtOpen : Nat]
RecordsOK == status \in Statuses /\ history \in Histories

(* Every variable has a value of its type, the counters within their limits. *)
TypeOK ==
  pc \in Locations /\ FlagsOK /\ StreamsOK /\ CountersOK /\ RecordsOK

(***************************************************************************)
(* A stream exists only inside a connected session and carries the         *)
(* channels of the layout that frames are read with, so that no push fails *)
(* on its size.  The two streams come and go together: a half-open pair is *)
(* seen only on the way to resetConnectedSession, after a push failed.     *)
(***************************************************************************)
StreamFits(stream, items) ==
  stream.configured => /\ pc \in Session
                       /\ connected
                       /\ stream = Initialized(items)

StreamsFitSession ==
  /\ StreamFits(markerStream, knownLayout.markers)
  /\ StreamFits(segmentStream, knownLayout.segments)
  /\ pc \in Session \ Broken
       => markerStream.configured /\ segmentStream.configured

(***************************************************************************)
(* connect() finds the client disconnected, whatever ended the attempt     *)
(* before, so the SDK never answers ClientAlreadyConnected to a bridge     *)
(* that still holds a connection; and a stopped bridge holds no connection *)
(* either, even when stop() came while it was connecting.                  *)
(***************************************************************************)
ConnectionIsReleased ==
  /\ link => connected
  /\ pc \in {"Top", "Dial", "DialWait", "Wait"} => ~connected
  /\ pc = "Stopped" => ~link

(***************************************************************************)
(* What the window was last told is true: Streaming is for the layout in   *)
(* use with every layout change counted, and both streams are set up;      *)
(* Disconnected and Stopped mean that no stream is open.  One Streaming is *)
(* false: the diagnostics of a frame that a push failed for are reported   *)
(* before the failure is.  It stands only until that next report, for a    *)
(* pair that broke is never streamed to again, nor told of as Streaming.   *)
(***************************************************************************)
StatusIsTrue ==
  /\ status.state = "Streaming" =>
       /\ status.layout = knownLayout
       /\ status.layoutChanges = layoutChangeCount
       /\ \/ markerStream.configured /\ segmentStream.configured
          \/ pc = "OutletFailed"
  /\ status.state \in {"Disconnected", "Stopped"} =>
       markerStream = Closed /\ segmentStream = Closed

(***************************************************************************)
(* What holds of the bridge at any moment, whenever stop() comes and       *)
(* however a session ends: the counters stay within their limits, no       *)
(* connection outlives its session, and the status is true but for the one *)
(* report that StatusIsTrue names.                                         *)
(***************************************************************************)
BridgeSafe == TypeOK /\ ConnectionIsReleased /\ StatusIsTrue

(***************************************************************************)
(* Every sample sent is later than every sample sent before on either      *)
(* stream, over the life of the bridge, across reconnects and replaced     *)
(* streams: a recorder joins a reopened stream onto the old one.           *)
(***************************************************************************)
TimesIncrease == inOrder

(***************************************************************************)
(* A recorder cannot follow streams with different channels, so the change *)
(* count has grown whenever streams open with another layout than the last *)
(* ones had, also when the change happened during a reconnect or after an  *)
(* open that failed.                                                       *)
(***************************************************************************)
ChangesAreCounted ==
  [][history'.openedLayout # history.openedLayout
     /\ history.openedLayout # NoLayout
       => layoutChangeCount' > history.countAtOpen]_vars

(* After stop() the bridge thread ends, whatever Vicon does. *)
StopLeadsToStopped == ~running ~> pc = "Stopped"

(***************************************************************************)
(* While nobody stops it, a bridge that is not streaming comes to stream,  *)
(* under FairSpec, unless the connection is lost for ever again.           *)
(***************************************************************************)
KeepsReconnecting ==
  \/ []<><<LinkLost>>_vars
  \/ (running /\ pc \notin Session) ~> (pc \in Session \/ ~running)
=============================================================================
