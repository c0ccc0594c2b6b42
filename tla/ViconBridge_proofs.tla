-------------------------- MODULE ViconBridge_proofs --------------------------
(***************************************************************************)
(* Theorems about the Vicon bridge, for every set of layouts and rates and *)
(* every bound: its types, that streams and connection fit the session and *)
(* the status tells the truth, that timestamps increase and that layout    *)
(* changes are counted.                                                    *)
(***************************************************************************)
EXTENDS ViconBridge, TLAPS

(***************************************************************************)
(* A timestamp that enforceViconTimestamp accepts is finite and later than *)
(* the last one.                                                           *)
(***************************************************************************)
LEMMA EnforceIncreases ==
  ASSUME NEW candidate \in Times, NEW receipt \in Times,
         NEW last \in TimestampState,
         enforceViconTimestamp(candidate, receipt, last) # NotFinite
  PROVE  /\ enforceViconTimestamp(candidate, receipt, last) \in TimestampState
         /\ enforceViconTimestamp(candidate, receipt, last) > last
  BY MaxTimeAssumption
  DEF MaxTimeAssumption, enforceViconTimestamp, Times, TimestampState, Finite,
      NotFinite, NoTimestamp

(***************************************************************************)
(* What pushSample leaves of a stream: the stream itself when it           *)
(* succeeded, else possibly the closed stream.                             *)
(***************************************************************************)
LEMMA PushKeepsOrCloses ==
  ASSUME NEW stream, NEW items, NEW result \in PushResults(stream, items)
  PROVE  /\ result.stream = stream \/ result.stream = Closed
         /\ result.pushed => result.stream = stream
  BY SMT DEF PushResults

(* The clean reads counted by handleDiagnostics stay below the interval. *)
LEMMA ReadsCounted ==
  ASSUME cleanFrames \in 0..(StatusInterval - 1), ReadsClean \/ ReadsFailed
  PROVE  cleanFrames' \in 0..(StatusInterval - 1)
<1>1. StatusInterval \in Nat \ {0}
  BY BridgeAssumption DEF BridgeAssumption
<1>2. CASE ReadsClean
  BY <1>1, <1>2 DEF ReadsClean, diagnosticVars
<1>3. CASE ReadsFailed
  <2>1. cleanFrames' = 0
    BY <1>3, Zenon DEF ReadsFailed
  <2>2. QED
    BY <1>1, <2>1
<1>4. QED
  BY <1>2, <1>3

-----------------------------------------------------------------------------
(* No step leaves a flag that is neither TRUE nor FALSE. *)
LEMMA FlagsStep == FlagsOK /\ [Next]_vars => FlagsOK'
<1> SUFFICES ASSUME FlagsOK, [Next]_vars PROVE FlagsOK'
  OBVIOUS
<1> USE DEF FlagsOK, allButPc, clientVars, diagnosticVars, loopVars,
            historyVars
<1>1. CASE \/ BeginConnecting \/ ConnectSucceeds \/ ConnectFails \/ EndWait
           \/ AfterConnecting \/ Finish
  BY <1>1, Zenon DEF BeginConnecting, ConnectSucceeds, ConnectFails, EndWait,
                     AfterConnecting, Finish, Disconnect
<1>2. CASE FirstFrame
  BY <1>2, Zenon DEF FirstFrame, FirstFrameFails, DiscoveryFails, OpenSession,
                     OpenSessionFails, Disconnect, ReadsFailed, OpenBoth,
                     OpenFails, Publish
<1>3. CASE NextFrame \/ FrameTimesOut \/ FrameLost \/ ReportOutletFailed
           \/ ResetConnectedSession
  BY <1>3, Zenon DEF NextFrame, FrameTimesOut, FrameLost, ReportOutletFailed,
                     Disconnect, ResetConnectedSession
<1>4. CASE ReadFrame
  <2>1. PICK rate, timestamp :
           \/ FrameSkipped(rate, timestamp)
           \/ \E markers \in PushResults(markerStream, knownLayout.markers),
                 segments \in PushResults(segmentStream, knownLayout.segments) :
                SendFrame(rate, timestamp, markers, segments)
    BY <1>4, Zenon DEF ReadFrame
  <2>2. CASE FrameSkipped(rate, timestamp)
    BY <2>2, Zenon DEF FrameSkipped
  <2>3. ASSUME NEW markers, NEW segments,
               SendFrame(rate, timestamp, markers, segments)
        PROVE  FlagsOK'
    BY <2>3, Zenon DEF SendFrame, PushBoth, ReadsClean, ReadsFailed
  <2>4. QED
    BY <2>1, <2>2, <2>3, Zenon
<1>5. CASE LayoutCheck
  BY <1>5, Zenon DEF LayoutCheck, CheckReadFails, CheckUnchanged, Reopen,
                     ReadsFailed, OpenBoth, OpenFails, Publish
<1>6. CASE Stop \/ LinkLost \/ Done \/ UNCHANGED vars
  BY <1>6, Zenon DEF Stop, LinkLost, Done, vars
<1>7. QED
  BY <1>1, <1>2, <1>3, <1>4, <1>5, <1>6 DEF Next, BridgeThread

(***************************************************************************)
(* The streams and layouts are of their types after every step: a stream   *)
(* is closed or is open for the list of a layout that Vicon reported.      *)
(***************************************************************************)
LEMMA StreamsStep == StreamsOK /\ [Next]_vars => StreamsOK'
<1> SUFFICES ASSUME StreamsOK, [Next]_vars PROVE StreamsOK'
  OBVIOUS
<1> USE DEF StreamsOK, Streams, allButPc, streamVars, layoutVars
<1>1. CASE \/ BeginConnecting \/ ConnectSucceeds \/ ConnectFails \/ EndWait
           \/ AfterConnecting \/ Finish
  BY <1>1, Zenon DEF BeginConnecting, ConnectSucceeds, ConnectFails, EndWait,
                     AfterConnecting, Finish
<1>2. CASE FirstFrameFails \/ DiscoveryFails
  BY <1>2, Zenon DEF FirstFrameFails, DiscoveryFails
<1>3. ASSUME NEW layout \in DiscoverableLayouts, NEW rate,
             \/ OpenBoth(layout, rate)
             \/ OpenFails(layout, rate)
      PROVE  StreamsOK'
  BY <1>3, Zenon DEF OpenBoth, OpenFails, Publish, CloseBoth,
     DiscoverableLayouts, KnownLayouts, MarkerLists, SegmentLists
<1>4. CASE NextFrame \/ FrameTimesOut \/ FrameLost \/ ReportOutletFailed
  BY <1>4, Zenon DEF NextFrame, FrameTimesOut, FrameLost, ReportOutletFailed
<1>5. CASE ReadFrame
  <2>1. PICK rate, timestamp :
           \/ FrameSkipped(rate, timestamp)
           \/ \E markers \in PushResults(markerStream, knownLayout.markers),
                 segments \in PushResults(segmentStream, knownLayout.segments) :
                SendFrame(rate, timestamp, markers, segments)
    BY <1>5, Zenon DEF ReadFrame
  <2>2. CASE FrameSkipped(rate, timestamp)
    BY <2>2, Zenon DEF FrameSkipped
  <2>3. ASSUME NEW markers \in PushResults(markerStream, knownLayout.markers),
               NEW segments \in PushResults(segmentStream, knownLayout.segments),
               SendFrame(rate, timestamp, markers, segments)
        PROVE  StreamsOK'
    <3>1. /\ markerStream' = markerStream \/ markerStream' = Closed
          /\ segmentStream' = segmentStream \/ segmentStream' = Closed
      BY <2>3, PushKeepsOrCloses, Zenon DEF SendFrame, PushBoth
    <3>2. QED
      BY <2>3, <3>1, Zenon DEF SendFrame
  <2>4. QED
    BY <2>1, <2>2, <2>3, Zenon
<1>6. CASE CheckReadFails \/ CheckUnchanged \/ Stop \/ LinkLost
  BY <1>6, Zenon DEF CheckReadFails, CheckUnchanged, Stop, LinkLost
<1>7. CASE ResetConnectedSession
  BY <1>7, Zenon DEF ResetConnectedSession, CloseBoth, KnownLayouts
<1>8. CASE Done \/ UNCHANGED vars
  BY <1>8, Zenon DEF Done, vars
<1>9. QED
  BY <1>1, <1>2, <1>3, <1>4, <1>5, <1>6, <1>7, <1>8
  DEF Next, BridgeThread, FirstFrame, LayoutCheck, OpenSession,
      OpenSessionFails, Reopen

(***************************************************************************)
(* The counters of timeouts, of frames and of clean reads stay below their *)
(* limits over every step.                                                 *)
(***************************************************************************)
LEMMA CountersStep == CountersOK /\ [Next]_vars => CountersOK'
<1> SUFFICES ASSUME CountersOK, [Next]_vars PROVE CountersOK'
  OBVIOUS
<1> USE DEF CountersOK, allButPc, clientVars, layoutVars, diagnosticVars,
            loopVars
<1>a. StatusInterval \in Nat \ {0} /\ MaxFrameTimeouts \in Nat \ {0}
  BY BridgeAssumption DEF BridgeAssumption
<1>b. IrregularRate \in Nat /\ NextRates \subseteq Nat
  BY BridgeAssumption DEF BridgeAssumption, IrregularRate, NextRates
<1>1. CASE BeginConnecting \/ ConnectFails
  BY <1>1 DEF BeginConnecting, ConnectFails
<1>1a. CASE EndWait \/ AfterConnecting
  BY <1>1a DEF EndWait, AfterConnecting
<1>2. CASE ConnectSucceeds
  BY <1>2, <1>a, <1>b DEF ConnectSucceeds
<1>3. CASE Finish
  BY <1>3, <1>a, <1>b DEF Finish, Disconnect
<1>4. CASE FirstFrameFails
  BY <1>4, <1>b DEF FirstFrameFails, Disconnect
<1>4a. CASE DiscoveryFails
  BY <1>4a, <1>b, ReadsCounted DEF DiscoveryFails, Disconnect
<1>5. ASSUME NEW layout \in DiscoverableLayouts, NEW rate \in NextRates,
             OpenSession(layout, rate)
      PROVE  CountersOK'
  BY <1>5, <1>a, <1>b DEF OpenSession, OpenBoth, Publish, CountChange
<1>6. ASSUME NEW layout \in DiscoverableLayouts, NEW rate \in NextRates,
             OpenSessionFails(layout, rate)
      PROVE  CountersOK'
  BY <1>6, <1>a, <1>b DEF OpenSessionFails, OpenFails, Disconnect, Publish,
                          CountChange
<1>7. CASE NextFrame \/ FrameLost \/ ReportOutletFailed
  BY <1>7 DEF NextFrame, FrameLost, ReportOutletFailed
<1>8. CASE FrameTimesOut
  BY <1>8, <1>a, <1>b DEF FrameTimesOut, MayTimeOut
<1>9. CASE ReadFrame
  <2>1. PICK rate \in NextRates, candidate \in Times, receipt \in Times :
           LET timestamp ==
                 enforceViconTimestamp(candidate, receipt, lastTimestamp)
           IN  \/ FrameSkipped(rate, timestamp)
               \/ \E markers \in PushResults(markerStream,
                                             knownLayout.markers),
                     segments \in PushResults(segmentStream, knownLayout.segments) :
                    SendFrame(rate, timestamp, markers, segments)
    BY <1>9, Zenon DEF ReadFrame
  <2> DEFINE timestamp ==
        enforceViconTimestamp(candidate, receipt, lastTimestamp)
  <2>2. timestamp # NotFinite => timestamp \in TimestampState
    BY EnforceIncreases
  <2> HIDE DEF timestamp
  <2>3. CASE FrameSkipped(rate, timestamp)
    BY <2>3, <1>a, <1>b DEF FrameSkipped
  <2>4. ASSUME NEW markers, NEW segments,
               SendFrame(rate, timestamp, markers, segments)
        PROVE  CountersOK'
    <3>1. cleanFrames' \in 0..(StatusInterval - 1)
      BY <2>4, ReadsCounted DEF SendFrame
    <3>2. framesSinceCheck' \in 0..(StatusInterval - 1)
      BY <2>4, <1>a DEF SendFrame
    <3>3. QED
      BY <2>4, <3>1, <3>2, <1>a, <1>b, <2>2 DEF SendFrame, PushBoth
  <2>5. QED
    BY <2>1, <2>3, <2>4 DEF timestamp
<1>10. CASE CheckReadFails
  BY <1>10, ReadsCounted DEF CheckReadFails
<1>10a. CASE CheckUnchanged
  BY <1>10a DEF CheckUnchanged
<1>11. ASSUME NEW layout \in DiscoverableLayouts, Reopen(layout)
       PROVE  CountersOK'
  BY <1>11, <1>a, <1>b DEF Reopen, OpenBoth, OpenFails, Publish, CountChange
<1>12. CASE ResetConnectedSession
  BY <1>12, <1>a, <1>b DEF ResetConnectedSession, Disconnect
<1>13. CASE Stop \/ LinkLost
  BY <1>13 DEF Stop, LinkLost
<1>14. CASE Done \/ UNCHANGED vars
  BY <1>14 DEF Done, vars
<1>15. QED
  BY <1>1, <1>1a, <1>2, <1>3, <1>4, <1>4a, <1>5, <1>6, <1>7, <1>8, <1>9,
     <1>10, <1>10a, <1>11,
     <1>12, <1>13, <1>14
  DEF Next, BridgeThread, FirstFrame, LayoutCheck

(* Every step leaves the status or reports the state it ends in. *)
LEMMA StatusStep ==
  ASSUME [Next]_vars
  PROVE  UNCHANGED status \/ \E state \in States : Report(state)
<1> USE DEF States
<1>1. CASE \/ BeginConnecting \/ ConnectSucceeds \/ ConnectFails \/ EndWait
           \/ AfterConnecting \/ Finish
  BY <1>1, Zenon DEF BeginConnecting, ConnectSucceeds, ConnectFails, EndWait,
                     AfterConnecting, Finish
<1>2. CASE FirstFrame
  BY <1>2, Zenon DEF FirstFrame, FirstFrameFails, DiscoveryFails, OpenSession,
                     OpenSessionFails
<1>3. CASE \/ NextFrame \/ FrameTimesOut \/ FrameLost \/ ReportOutletFailed
           \/ ReadFrame \/ ResetConnectedSession
  BY <1>3, Zenon DEF NextFrame, FrameTimesOut, FrameLost, ReportOutletFailed,
                     ReadFrame, FrameSkipped, SendFrame, ResetConnectedSession
<1>4. CASE LayoutCheck
  BY <1>4, Zenon DEF LayoutCheck, CheckReadFails, CheckUnchanged, Reopen
<1>5. CASE Stop \/ LinkLost \/ Done \/ UNCHANGED vars
  BY <1>5, Zenon DEF Stop, LinkLost, Done, vars
<1>6. QED
  BY <1>1, <1>2, <1>3, <1>4, <1>5, Zenon DEF Next, BridgeThread

(* Only opening both streams and sending a frame change the history. *)
LEMMA HistoryStep ==
  ASSUME [Next]_vars
  PROVE  \/ UNCHANGED <<historyVars, lastTimestamp>>
         \/ \E layout \in Layouts : \E rate :
              OpenBoth(layout, rate) /\ UNCHANGED lastTimestamp
         \/ \E candidate, receipt \in Times :
              LET timestamp ==
                    enforceViconTimestamp(candidate, receipt, lastTimestamp)
              IN  /\ timestamp # NotFinite
                  /\ \E markers \in PushResults(markerStream,
                                                knownLayout.markers),
                        segments \in PushResults(segmentStream,
                                                 knownLayout.segments) :
                       PushBoth(markers, segments, timestamp)
<1> USE DEF allButPc
<1>1. CASE \/ BeginConnecting \/ ConnectSucceeds \/ ConnectFails \/ EndWait
           \/ AfterConnecting \/ Finish
  BY <1>1, Zenon DEF BeginConnecting, ConnectSucceeds, ConnectFails, EndWait,
                     AfterConnecting, Finish
<1>2. CASE FirstFrame
  BY <1>2, Zenon DEF FirstFrame, FirstFrameFails, DiscoveryFails, OpenSession,
                     OpenSessionFails, OpenFails, DiscoverableLayouts
<1>3. CASE \/ NextFrame \/ FrameTimesOut \/ FrameLost \/ ReportOutletFailed
           \/ ResetConnectedSession
  BY <1>3, Zenon DEF NextFrame, FrameTimesOut, FrameLost, ReportOutletFailed,
                     ResetConnectedSession
<1>6. CASE ReadFrame
  <2>1. PICK rate \in NextRates, candidate \in Times, receipt \in Times :
           LET timestamp ==
                 enforceViconTimestamp(candidate, receipt, lastTimestamp)
           IN  \/ FrameSkipped(rate, timestamp)
               \/ \E markers \in PushResults(markerStream,
                                             knownLayout.markers),
                     segments \in PushResults(segmentStream, knownLayout.segments) :
                    SendFrame(rate, timestamp, markers, segments)
    BY <1>6, Zenon DEF ReadFrame
  <2> QED BY <2>1, Zenon DEF FrameSkipped, SendFrame
<1>4. CASE LayoutCheck
  BY <1>4, Zenon DEF LayoutCheck, CheckReadFails, CheckUnchanged, Reopen,
                     OpenFails, DiscoverableLayouts
<1>5. CASE Stop \/ LinkLost \/ Done \/ UNCHANGED vars
  BY <1>5, Zenon DEF Stop, LinkLost, Done, vars
<1>7. QED
  BY <1>1, <1>2, <1>3, <1>4, <1>5, <1>6, Zenon DEF Next, BridgeThread

(* The status and the history are of their types after every step. *)
LEMMA RecordsStep ==
  TypeOK /\ [Next]_vars => RecordsOK'
<1> SUFFICES ASSUME TypeOK, [Next]_vars PROVE RecordsOK'
  OBVIOUS
<1>1. StreamsOK' /\ CountersOK' /\ CountersOK /\ StreamsOK /\ RecordsOK
  BY StreamsStep, CountersStep DEF TypeOK
<1>2. status' \in Statuses
  BY <1>1, StatusStep DEF Report, StreamsOK, CountersOK, RecordsOK, Statuses
<1>3. history' \in Histories
  <2>1. CASE UNCHANGED historyVars
    BY <2>1, <1>1 DEF RecordsOK, historyVars
  <2>2. ASSUME NEW layout \in Layouts, NEW rate, OpenBoth(layout, rate)
        PROVE  history' \in Histories
    <3>1. history' = Opened(layout, layoutChangeCount')
      BY <2>2, Zenon DEF OpenBoth
    <3>2. layoutChangeCount' \in Nat
      BY <1>1 DEF CountersOK
    <3>3. history' = [history EXCEPT !.openedLayout = layout,
                                     !.countAtOpen = layoutChangeCount']
      BY <3>1, Zenon DEF Opened
    <3>4. QED
      BY <3>2, <3>3, <1>1 DEF RecordsOK, Histories
  <2>3. ASSUME NEW candidate \in Times, NEW receipt \in Times,
               NEW timestamp,
               timestamp =
                 enforceViconTimestamp(candidate, receipt, lastTimestamp),
               timestamp # NotFinite,
               NEW markers, NEW segments,
               PushBoth(markers, segments, timestamp)
         PROVE  history' \in Histories
    <3>1. timestamp \in TimestampState
      BY <2>3, <1>1, EnforceIncreases DEF CountersOK
    <3>2. history' = Sent(markers.sent, segments.sent, timestamp)
      BY <2>3, Zenon DEF PushBoth
    <3>3. QED
      BY <3>1, <3>2, <1>1 DEF RecordsOK, Sent, Histories
  <2> QED
    BY HistoryStep, <2>1, <2>2, <2>3
<1> QED
  BY <1>2, <1>3 DEF RecordsOK

(* The bridge thread is always at one of its locations. *)
LEMMA LocationStep == pc \in Locations /\ [Next]_vars => pc' \in Locations
<1> SUFFICES ASSUME pc \in Locations, [Next]_vars PROVE pc' \in Locations
  OBVIOUS
<1> USE DEF Locations, Session, Broken
<1>1. CASE \/ BeginConnecting \/ ConnectSucceeds \/ ConnectFails \/ EndWait
           \/ AfterConnecting \/ Finish
  BY <1>1, Zenon DEF BeginConnecting, ConnectSucceeds, ConnectFails, EndWait,
                     AfterConnecting, Finish
<1>2. CASE FirstFrame
  BY <1>2, Zenon DEF FirstFrame, FirstFrameFails, DiscoveryFails, OpenSession,
                     OpenSessionFails
<1>3. CASE \/ NextFrame \/ FrameTimesOut \/ FrameLost \/ ReportOutletFailed
           \/ ReadFrame \/ ResetConnectedSession
  BY <1>3, Zenon DEF NextFrame, FrameTimesOut, FrameLost, ReportOutletFailed,
                     ReadFrame, FrameSkipped, SendFrame, ResetConnectedSession
<1>4. CASE LayoutCheck
  BY <1>4, Zenon DEF LayoutCheck, CheckReadFails, CheckUnchanged, Reopen
<1>5. CASE Stop \/ LinkLost \/ Done \/ UNCHANGED vars
  BY <1>5, Zenon DEF Stop, LinkLost, Done, vars
<1>6. QED
  BY <1>1, <1>2, <1>3, <1>4, <1>5, Zenon DEF Next, BridgeThread

(***************************************************************************)
(* The type invariant of the bridge.                                       *)
(***************************************************************************)
THEOREM TypeCorrect == Spec => []TypeOK
<1>1. Init => TypeOK
  <2> SUFFICES ASSUME Init PROVE TypeOK
    OBVIOUS
  <2>1. FlagsOK /\ pc \in Locations
    BY Zenon DEF Init, FlagsOK, Locations
  <2>2. StreamsOK
    BY Zenon DEF Init, StreamsOK, Streams, KnownLayouts
  <2>3. CountersOK
    BY BridgeAssumption DEF Init, CountersOK, BridgeAssumption, IrregularRate,
       TimestampState
  <2>4. status \in Statuses
    BY DEF Init, Statuses, States, KnownLayouts
  <2>5. history \in Histories
    BY DEF Init, Histories, TimestampState
  <2>6. QED
    BY <2>1, <2>2, <2>3, <2>4, <2>5 DEF TypeOK, RecordsOK
<1>2. TypeOK /\ [Next]_vars => TypeOK'
  BY FlagsStep, StreamsStep, CountersStep, RecordsStep, LocationStep
  DEF TypeOK
<1>3. QED
  BY <1>1, <1>2, PTL DEF Spec

-----------------------------------------------------------------------------
(***************************************************************************)
(* connect() always finds the client disconnected, over every step.        *)
(***************************************************************************)
LEMMA ConnectionStep ==
  ConnectionIsReleased /\ [Next]_vars => ConnectionIsReleased'
<1> SUFFICES ASSUME ConnectionIsReleased, [Next]_vars
             PROVE  ConnectionIsReleased'
  OBVIOUS
<1> USE DEF ConnectionIsReleased, allButPc, clientVars
<1>1. CASE BeginConnecting \/ ConnectSucceeds \/ ConnectFails \/ EndWait
  BY <1>1 DEF BeginConnecting, ConnectSucceeds, ConnectFails, EndWait
<1>2. CASE AfterConnecting \/ Finish
  BY <1>2 DEF AfterConnecting, Finish, Disconnect
<1>3. CASE FirstFrame
  BY <1>3 DEF FirstFrame, FirstFrameFails, DiscoveryFails, OpenSession,
                     OpenSessionFails, Disconnect
<1>4. CASE NextFrame \/ FrameTimesOut \/ FrameLost \/ ReportOutletFailed
           \/ ResetConnectedSession
  BY <1>4 DEF NextFrame, FrameTimesOut, FrameLost, ReportOutletFailed,
              Disconnect, ResetConnectedSession
<1>5. CASE ReadFrame
  BY <1>5 DEF ReadFrame, FrameSkipped, SendFrame
<1>6. CASE LayoutCheck
  BY <1>6 DEF LayoutCheck, CheckReadFails, CheckUnchanged, Reopen
<1>7. CASE Stop \/ LinkLost \/ Done \/ UNCHANGED vars
  BY <1>7 DEF Stop, LinkLost, Done, vars
<1>8. QED
  BY <1>1, <1>2, <1>3, <1>4, <1>5, <1>6, <1>7 DEF Next, BridgeThread

(* What Initialized and Closed say of a stream. *)
LEMMA StreamForms ==
  /\ ~Closed.configured
  /\ \A items : Initialized(items).configured
  BY SMT DEF Closed, Initialized

(***************************************************************************)
(* The streams fit the session over every step: they are opened for the    *)
(* layout that becomes the known one, and leave with the session.          *)
(***************************************************************************)
LEMMA StreamsFitStep ==
  ConnectionIsReleased /\ StreamsFitSession /\ [Next]_vars
    => StreamsFitSession'
<1> SUFFICES ASSUME ConnectionIsReleased, StreamsFitSession, [Next]_vars
             PROVE  StreamsFitSession'
  OBVIOUS
<1> USE StreamForms
    DEF StreamsFitSession, StreamFits, Session, Broken, allButPc, clientVars,
        streamVars, layoutVars
<1>1. CASE BeginConnecting \/ ConnectSucceeds \/ ConnectFails \/ EndWait
  BY <1>1 DEF BeginConnecting, ConnectSucceeds, ConnectFails, EndWait
<1>2. CASE AfterConnecting \/ Finish
  BY <1>2 DEF AfterConnecting, Finish
<1>3. CASE FirstFrameFails \/ DiscoveryFails
  BY <1>3 DEF FirstFrameFails, DiscoveryFails
<1>4. ASSUME NEW layout, NEW rate,
             OpenSession(layout, rate) \/ OpenSessionFails(layout, rate)
      PROVE  StreamsFitSession'
  BY <1>4 DEF OpenSession, OpenSessionFails, OpenBoth, OpenFails,
                     Publish, CloseBoth, ConnectionIsReleased
<1>5. CASE NextFrame \/ FrameTimesOut \/ FrameLost \/ ReportOutletFailed
           \/ ResetConnectedSession
  BY <1>5 DEF NextFrame, FrameTimesOut, FrameLost, ReportOutletFailed,
              CloseBoth, ResetConnectedSession
<1>6. CASE ReadFrame
  <2>1. PICK rate, timestamp :
           \/ FrameSkipped(rate, timestamp)
           \/ \E markers \in PushResults(markerStream, knownLayout.markers),
                 segments \in PushResults(segmentStream, knownLayout.segments) :
                SendFrame(rate, timestamp, markers, segments)
    BY <1>6, Zenon DEF ReadFrame
  <2>2. CASE FrameSkipped(rate, timestamp)
    BY <2>2 DEF FrameSkipped
  <2>3. ASSUME NEW markers \in PushResults(markerStream, knownLayout.markers),
               NEW segments \in PushResults(segmentStream, knownLayout.segments),
               SendFrame(rate, timestamp, markers, segments)
        PROVE  StreamsFitSession'
    <3>1. /\ pc = "Reading"
          /\ pc' \in Session
          /\ pc' \notin Broken => markers.pushed /\ segments.pushed
          /\ UNCHANGED <<connected, knownLayout>>
          /\ markerStream' = markers.stream
          /\ segmentStream' = segments.stream
      BY <2>3 DEF SendFrame, FrameSent, PushBoth
    <3>2. /\ markerStream' = markerStream \/ markerStream' = Closed
          /\ segmentStream' = segmentStream \/ segmentStream' = Closed
          /\ markers.pushed => markerStream' = markerStream
          /\ segments.pushed => segmentStream' = segmentStream
      BY <3>1, PushKeepsOrCloses
    <3>3. QED
      BY <3>1, <3>2
  <2>4. QED
    BY <2>1, <2>2, <2>3, Zenon
<1>7. CASE CheckReadFails \/ CheckUnchanged
  BY <1>7 DEF CheckReadFails, CheckUnchanged
<1>8. ASSUME NEW layout, Reopen(layout)
      PROVE  StreamsFitSession'
  BY <1>8 DEF Reopen, OpenBoth, OpenFails, Publish, CloseBoth
<1>9. CASE Stop \/ LinkLost \/ Done \/ UNCHANGED vars
  BY <1>9 DEF Stop, LinkLost, Done, vars
<1>10. QED
  BY <1>1, <1>2, <1>3, <1>4, <1>5, <1>6, <1>7, <1>8, <1>9
  DEF Next, BridgeThread, FirstFrame, LayoutCheck

(* A stream that is not configured is the closed stream. *)
LEMMA UnconfiguredIsClosed ==
  ASSUME NEW lists, NEW stream \in Streams(lists), ~stream.configured
  PROVE  stream = Closed
  BY StreamForms DEF Streams

(***************************************************************************)
(* The status stays true over every step: a step that closes a stream or   *)
(* changes the layout reports, except the push that fails, and the step    *)
(* after it does.                                                          *)
(***************************************************************************)
LEMMA StatusTrueStep ==
  StreamsOK /\ StreamsFitSession /\ StatusIsTrue /\ [Next]_vars
    => StatusIsTrue'
<1> SUFFICES ASSUME StreamsOK, StreamsFitSession, StatusIsTrue, [Next]_vars
             PROVE  StatusIsTrue'
  OBVIOUS
<1>c. pc \notin Session => markerStream = Closed /\ segmentStream = Closed
  BY UnconfiguredIsClosed DEF StreamsOK, StreamsFitSession, StreamFits
<1>r. \A state : Report(state) =>
        /\ status'.state = state
        /\ status'.layout = knownLayout'
        /\ status'.layoutChanges = layoutChangeCount'
  BY DEF Report
<1> USE StreamForms
    DEF StatusIsTrue, Session, Broken, allButPc, streamVars, layoutVars
<1>1. CASE BeginConnecting \/ ConnectSucceeds \/ ConnectFails \/ EndWait
  BY <1>1, <1>r DEF BeginConnecting, ConnectSucceeds, ConnectFails, EndWait
<1>2. CASE AfterConnecting \/ Finish
  BY <1>2, <1>c, <1>r DEF AfterConnecting, Finish, Session
<1>3. CASE FirstFrameFails \/ DiscoveryFails
  BY <1>3, <1>r DEF FirstFrameFails, DiscoveryFails
<1>4. ASSUME NEW layout, NEW rate,
             OpenSession(layout, rate) \/ OpenSessionFails(layout, rate)
      PROVE  StatusIsTrue'
  BY <1>4, <1>r DEF OpenSession, OpenSessionFails, OpenBoth
<1>5. CASE NextFrame \/ FrameTimesOut \/ FrameLost \/ ReportOutletFailed
           \/ ResetConnectedSession
  BY <1>5, <1>r DEF NextFrame, FrameTimesOut, FrameLost, ReportOutletFailed,
                    CloseBoth, ResetConnectedSession, StreamsFitSession,
                    Session
<1>6. CASE ReadFrame
  <2>1. PICK rate, timestamp :
           \/ FrameSkipped(rate, timestamp)
           \/ \E markers \in PushResults(markerStream, knownLayout.markers),
                 segments \in PushResults(segmentStream, knownLayout.segments) :
                SendFrame(rate, timestamp, markers, segments)
    BY <1>6, Zenon DEF ReadFrame
  <2>2. CASE FrameSkipped(rate, timestamp)
    BY <2>2, <1>r DEF FrameSkipped, StreamsFitSession, Session
  <2>3. ASSUME NEW markers \in PushResults(markerStream, knownLayout.markers),
               NEW segments \in PushResults(segmentStream, knownLayout.segments),
               SendFrame(rate, timestamp, markers, segments)
        PROVE  StatusIsTrue'
    <3>1. /\ pc = "Reading"
          /\ UNCHANGED <<knownLayout, layoutChangeCount>>
          /\ markerStream' = markers.stream
          /\ segmentStream' = segments.stream
          /\ pc' # "OutletFailed" => markers.pushed /\ segments.pushed
          /\ UNCHANGED status \/ Report("Streaming")
      BY <2>3 DEF SendFrame, FrameSent, PushBoth
    <3>2. /\ markers.pushed => markerStream' = markerStream
          /\ segments.pushed => segmentStream' = segmentStream
      BY <3>1, PushKeepsOrCloses
    <3>3. markerStream.configured /\ segmentStream.configured
      BY <3>1 DEF StreamsFitSession, Session
    <3>4. QED
      BY <3>1, <3>2, <3>3, <1>r
  <2>4. QED
    BY <2>1, <2>2, <2>3, Zenon
<1>7. CASE CheckReadFails \/ CheckUnchanged
  BY <1>7, <1>r DEF CheckReadFails, CheckUnchanged, StreamsFitSession, Session
<1>8. ASSUME NEW layout, Reopen(layout)
      PROVE  StatusIsTrue'
  BY <1>8, <1>r DEF Reopen, OpenBoth, OpenFails, Publish, CloseBoth
<1>9. CASE Stop \/ LinkLost \/ Done \/ UNCHANGED vars
  BY <1>9 DEF Stop, LinkLost, Done, vars
<1>10. QED
  BY <1>1, <1>2, <1>3, <1>4, <1>5, <1>6, <1>7, <1>8, <1>9
  DEF Next, BridgeThread, FirstFrame, LayoutCheck

(***************************************************************************)
(* The three safety invariants of a session, which are inductive together  *)
(* and with the type of the streams: streams fit the session because it is *)
(* connected, and the status is true, the report of a frame that was not   *)
(* sent apart, because they fit.                                           *)
(***************************************************************************)
THEOREM SessionSafe ==
  Spec => [](ConnectionIsReleased /\ StreamsFitSession /\ StatusIsTrue)
<1> DEFINE Safe == ConnectionIsReleased /\ StreamsFitSession /\ StatusIsTrue
<1>1. Init => Safe
  BY StreamForms DEF Init, ConnectionIsReleased, StreamsFitSession, StreamFits,
     StatusIsTrue, Session, Broken
<1>2. TypeOK /\ Safe /\ [Next]_vars => Safe'
  BY ConnectionStep, StreamsFitStep, StatusTrueStep DEF TypeOK
<1>3. QED
  BY <1>1, <1>2, TypeCorrect, PTL DEF Spec

(***************************************************************************)
(* What holds at any moment: counters within their limits, a connection    *)
(* released with its session, and a status that is true, except between    *)
(* the two reports of a frame whose push failed.                           *)
(***************************************************************************)
THEOREM BridgeStaysSafe == Spec => []BridgeSafe
<1>1. TypeOK /\ ConnectionIsReleased /\ StreamsFitSession /\ StatusIsTrue
        => BridgeSafe
  BY DEF BridgeSafe
<1> QED
  BY <1>1, TypeCorrect, SessionSafe, PTL

-----------------------------------------------------------------------------
(* The times sent so far are not after the last timestamp. *)
SentTimesBelow ==
  /\ history.markerTime <= lastTimestamp
  /\ history.segmentTime <= lastTimestamp

(***************************************************************************)
(* Samples leave both streams in the order of their timestamps, whatever   *)
(* Vicon reports and however often the streams are opened again.           *)
(***************************************************************************)
THEOREM TimesAlwaysIncrease == Spec => []TimesIncrease
<1> DEFINE Inv == TimesIncrease /\ SentTimesBelow
<1>1. Init => Inv
  BY DEF Init, TimesIncrease, SentTimesBelow, NoTimestamp
<1>2. TypeOK /\ Inv /\ [Next]_vars => Inv'
  <2> SUFFICES ASSUME TypeOK, Inv, [Next]_vars PROVE Inv'
    OBVIOUS
  <2>0. history \in Histories /\ lastTimestamp \in TimestampState
        /\ \A time \in TimestampState : time \in Int
    BY MaxTimeAssumption DEF TypeOK, RecordsOK, CountersOK, TimestampState,
       Finite, NoTimestamp, MaxTimeAssumption
  <2>1. CASE UNCHANGED <<historyVars, lastTimestamp>>
    BY <2>1 DEF TimesIncrease, SentTimesBelow, historyVars
  <2>2. ASSUME NEW layout, NEW rate, OpenBoth(layout, rate),
               UNCHANGED lastTimestamp
        PROVE  Inv'
    <3>1. inOrder' = inOrder /\ history' = Opened(layout, layoutChangeCount')
      BY <2>2, Zenon DEF OpenBoth
    <3>2. /\ history'.markerTime = history.markerTime
          /\ history'.segmentTime = history.segmentTime
      BY <3>1, <2>0 DEF Opened, Histories
    <3>3. QED
      BY <2>2, <3>1, <3>2 DEF TimesIncrease, SentTimesBelow
  <2>3. ASSUME NEW candidate \in Times, NEW receipt \in Times,
               NEW timestamp,
               timestamp =
                 enforceViconTimestamp(candidate, receipt, lastTimestamp),
               timestamp # NotFinite,
               NEW markers, NEW segments,
               PushBoth(markers, segments, timestamp)
        PROVE  Inv'
    <3>1. timestamp \in TimestampState /\ timestamp > lastTimestamp
      BY <2>0, <2>3, EnforceIncreases
    <3>2. /\ history.markerTime \in Int /\ history.segmentTime \in Int
          /\ lastTimestamp \in Int /\ timestamp \in Int
      BY <2>0, <3>1 DEF Histories
    <3>3. /\ timestamp > history.markerTime
          /\ timestamp > history.segmentTime
      BY <3>1, <3>2 DEF SentTimesBelow
    <3>4. TimesIncrease'
      BY <2>3, <3>3, Zenon DEF PushBoth, TimesIncrease
    <3>5. SentTimesBelow'
      <4>1. /\ history' = Sent(markers.sent, segments.sent, timestamp)
            /\ lastTimestamp' = timestamp
        BY <2>3, Zenon DEF PushBoth
      <4>2. /\ history'.markerTime \in {timestamp, history.markerTime}
            /\ history'.segmentTime \in {timestamp, history.segmentTime}
        BY <4>1, <2>0 DEF Sent, Histories
      <4>3. QED
        BY <4>1, <4>2, <3>2, <3>3 DEF SentTimesBelow
    <3>6. QED
      BY <3>4, <3>5
  <2>4. QED
    BY HistoryStep, <2>1, <2>2, <2>3
<1>3. QED
  BY <1>1, <1>2, TypeCorrect, PTL DEF Spec

-----------------------------------------------------------------------------
(***************************************************************************)
(* Once streams have been open, the count covers every layout published    *)
(* since: it is at least the count at that time, and above it while the    *)
(* published layout differs from theirs.                                   *)
(***************************************************************************)
CountCoversPublished ==
  history.openedLayout # NoLayout =>
    /\ publishedLayout # NoLayout
    /\ history.countAtOpen <= layoutChangeCount
    /\ publishedLayout # history.openedLayout
         => history.countAtOpen < layoutChangeCount

(***************************************************************************)
(* A published layout is counted before its streams open.                  *)
(***************************************************************************)
LEMMA PublishStep ==
  ASSUME [Next]_vars
  PROVE  \/ /\ UNCHANGED <<publishedLayout, layoutChangeCount>>
            /\ \/ UNCHANGED history
               \/ \E markers, segments, timestamp :
                    history' = Sent(markers, segments, timestamp)
         \/ \E layout \in Layouts : \E rate :
              \/ OpenBoth(layout, rate)
              \/ OpenFails(layout, rate)
<1> USE DEF allButPc, layoutVars, historyVars
<1>1. CASE \/ BeginConnecting \/ ConnectSucceeds \/ ConnectFails \/ EndWait
           \/ AfterConnecting \/ Finish
  BY <1>1, Zenon DEF BeginConnecting, ConnectSucceeds, ConnectFails, EndWait,
                     AfterConnecting, Finish
<1>2. CASE FirstFrame
  BY <1>2, Zenon DEF FirstFrame, FirstFrameFails, DiscoveryFails, OpenSession,
                     OpenSessionFails, DiscoverableLayouts
<1>3. CASE \/ NextFrame \/ FrameTimesOut \/ FrameLost \/ ReportOutletFailed
           \/ ResetConnectedSession
  BY <1>3, Zenon DEF NextFrame, FrameTimesOut, FrameLost, ReportOutletFailed,
                     ResetConnectedSession
<1>4. CASE ReadFrame
  <2>1. PICK rate, timestamp :
           \/ FrameSkipped(rate, timestamp)
           \/ \E markers, segments :
                SendFrame(rate, timestamp, markers, segments)
    BY <1>4, Zenon DEF ReadFrame
  <2>2. CASE FrameSkipped(rate, timestamp)
    BY <2>2, Zenon DEF FrameSkipped
  <2>3. ASSUME NEW markers, NEW segments,
               SendFrame(rate, timestamp, markers, segments)
        PROVE  /\ UNCHANGED <<publishedLayout, layoutChangeCount>>
               /\ history' = Sent(markers.sent, segments.sent, timestamp)
    BY <2>3, Zenon DEF SendFrame, PushBoth
  <2>4. QED
    BY <2>1, <2>2, <2>3, Zenon
<1>5. CASE LayoutCheck
  BY <1>5, Zenon DEF LayoutCheck, CheckReadFails, CheckUnchanged, Reopen,
                     DiscoverableLayouts
<1>6. CASE Stop \/ LinkLost \/ Done \/ UNCHANGED vars
  BY <1>6, Zenon DEF Stop, LinkLost, Done, vars
<1>7. QED
  BY <1>1, <1>2, <1>3, <1>4, <1>5, <1>6, Zenon DEF Next, BridgeThread

(***************************************************************************)
(* Over every step the count keeps covering the published layout, and      *)
(* streams that open with another layout find it grown.                    *)
(***************************************************************************)
LEMMA CountStep ==
  ASSUME TypeOK, CountCoversPublished, [Next]_vars
  PROVE  /\ CountCoversPublished'
         /\ \/ history'.openedLayout = history.openedLayout
            \/ history.openedLayout = NoLayout
            \/ layoutChangeCount' > history.countAtOpen
<1>1. /\ history \in Histories
      /\ layoutChangeCount \in Nat /\ history.countAtOpen \in Nat
      /\ \A layout \in Layouts : layout # NoLayout
  BY BridgeAssumption
  DEF TypeOK, RecordsOK, CountersOK, Histories, BridgeAssumption
<1>2. CASE /\ UNCHANGED <<publishedLayout, layoutChangeCount>>
           /\ \/ UNCHANGED history
              \/ \E markers, segments, timestamp :
                   history' = Sent(markers, segments, timestamp)
  <2>1. /\ history'.openedLayout = history.openedLayout
        /\ history'.countAtOpen = history.countAtOpen
    BY <1>1, <1>2 DEF Sent, Histories
  <2>2. QED
    BY <1>2, <2>1 DEF CountCoversPublished
<1>3. ASSUME NEW layout \in Layouts, NEW rate,
             OpenBoth(layout, rate) \/ OpenFails(layout, rate)
      PROVE  /\ publishedLayout' = layout
             /\ layoutChangeCount' = CountChange(layout)
             /\ \/ UNCHANGED history
                \/ history' = Opened(layout, layoutChangeCount')
  BY <1>3, Zenon DEF OpenBoth, OpenFails, Publish, historyVars
<1>4. ASSUME NEW layout \in Layouts,
             publishedLayout' = layout,
             layoutChangeCount' = CountChange(layout),
             UNCHANGED history
      PROVE  CountCoversPublished'
  BY <1>1, <1>4 DEF CountCoversPublished, CountChange
<1>5. ASSUME NEW layout \in Layouts,
             publishedLayout' = layout,
             layoutChangeCount' = CountChange(layout),
             history' = Opened(layout, layoutChangeCount')
      PROVE  /\ CountCoversPublished'
             /\ \/ history'.openedLayout = history.openedLayout
                \/ history.openedLayout = NoLayout
                \/ layoutChangeCount' > history.countAtOpen
  <2>1. /\ history'.openedLayout = layout
        /\ history'.countAtOpen = layoutChangeCount'
    BY <1>1, <1>5 DEF Opened, Histories
  <2>2. layoutChangeCount' \in Nat
    BY <1>1, <1>5 DEF CountChange
  <2>3. QED
    BY <1>1, <1>5, <2>1, <2>2 DEF CountCoversPublished, CountChange
<1>6. QED
  BY PublishStep, <1>2, <1>3, <1>4, <1>5

(***************************************************************************)
(* Streams never open with another layout than the last ones had unless    *)
(* the reported count has grown since those opened.                        *)
(***************************************************************************)
THEOREM ChangesAlwaysCounted == Spec => ChangesAreCounted
<1>1. Init => CountCoversPublished
  BY DEF Init, CountCoversPublished
<1>2. TypeOK /\ CountCoversPublished /\ [Next]_vars => CountCoversPublished'
  BY CountStep
<1>3. TypeOK /\ CountCoversPublished /\ [Next]_vars
        => [history'.openedLayout # history.openedLayout
            /\ history.openedLayout # NoLayout
              => layoutChangeCount' > history.countAtOpen]_vars
  BY CountStep
<1>4. QED
  BY <1>1, <1>2, <1>3, TypeCorrect, PTL DEF Spec, ChangesAreCounted
=============================================================================
