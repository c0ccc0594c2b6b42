---------------------------- MODULE GazePublisher ----------------------------
(***************************************************************************)
(* GazeLSLOutlet and GazePublisherWorker of the HoloLens app, with the     *)
(* provider they read from: the outlet's Update opens a stream and starts  *)
(* a thread for each tracker session, and stops them when the session      *)
(* changes, the reader keeps failing, or the stream fails.                 *)
(*                                                                         *)
(* Stop asks the thread to end and joins it for 500 ms; the main thread    *)
(* waits in "stopping" meanwhile.  The thread may be inside a call that    *)
(* takes longer.  Abstracted: the schedule of the thread, delivery states, *)
(* measured rates, warnings; the rate is always 90 Hz, as the provider     *)
(* selects no other.                                                       *)
(***************************************************************************)
EXTENDS GazeTracker

CONSTANT ProviderFailureLimit   \* providerFailureLimit: failures in a row

ASSUME LimitAssumption == ProviderFailureLimit \in Nat \ {0}

VARIABLES
  enabled,          \* enabled, until OnDestroy of the outlet
  outletSession,    \* sessionGeneration of the outlet, 0 if it has no worker
  streamOpen,       \* the LSL outlet exists
  thread,           \* the publisher's thread
  lastPushed        \* the last sample sent (observed by properties)

outletVars == <<enabled, outletSession, streamOpen>>
publisherVars == <<outletVars, thread, lastPushed>>
vars == <<trackerStateVars, publisherVars>>

NoSample == [session |-> 0, ticks |-> 0, stamp |-> 0]
NoThread == [at |-> "none", stop |-> FALSE, failures |-> 0, outcome |-> "fine",
             sample |-> NoSample]
Running(t) == t.at \in {"reading", "pushing"}

Init ==
  /\ TrackerInit
  /\ enabled = TRUE
  /\ outletSession = 0
  /\ streamOpen = FALSE
  /\ thread = NoThread
  /\ lastPushed = NoSample

(***************************************************************************)
(* GazePublisherWorker.WorkerLoop                                          *)
(***************************************************************************)
AtLoopTop == thread.at = "reading" /\ draining = 0

SeeStopSignal ==
  /\ AtLoopTop
  /\ thread.stop
  /\ thread' = [thread EXCEPT !.at = "ended"]
  /\ UNCHANGED <<trackerStateVars, outletVars, lastPushed>>

(* A reading taken inside provider.TryGetNextSample. *)
Read(reading) ==
  /\ thread.at = "reading"
  /\ draining > 0 \/ ~thread.stop
  /\ AcceptReading(reading)
  /\ UNCHANGED publisherVars

(* TryGetNextSample ends; sdkFails: the SDK threw, which TryGetNextSample  *)
(* throws on only if no sample waits.                                      *)
Receive(sdkFails) ==
  /\ thread.at = "reading"
  /\ draining > 0 \/ ~thread.stop
  /\ sdkFails => tracker # 0
  /\ ReturnSample
  /\ LET failures == thread.failures + 1
     IN  \/ /\ WaitingSamples # <<>>
            /\ thread' = [thread EXCEPT !.at = "pushing", !.failures = 0,
                                        !.sample = WaitingSamples[1]]
         \/ /\ WaitingSamples = <<>> /\ ~sdkFails
            /\ thread' = [thread EXCEPT !.failures = 0]
         \/ /\ WaitingSamples = <<>> /\ sdkFails
            /\ failures < ProviderFailureLimit
            /\ thread' = [thread EXCEPT !.failures = failures]
         \/ /\ WaitingSamples = <<>> /\ sdkFails
            /\ failures >= ProviderFailureLimit
            /\ MayRestart
            /\ thread' = [thread EXCEPT !.at = "ended", !.failures = failures,
                                        !.outcome = "provider"]
  /\ UNCHANGED <<outletVars, lastPushed>>

(* PublishSample: a sample without a positive time is dropped. *)
Publish ==
  /\ thread.at = "pushing"
  /\ thread' = [thread EXCEPT !.at = "reading", !.sample = NoSample]
  /\ lastPushed' = IF thread.sample.stamp > 0 THEN thread.sample ELSE lastPushed
  /\ UNCHANGED <<trackerStateVars, outletVars>>

PublishThrows ==
  /\ thread.at = "pushing"
  /\ thread.sample.stamp > 0
  /\ thread' = [thread EXCEPT !.at = "ended", !.outcome = "failed", !.sample = NoSample]
  /\ UNCHANGED <<trackerStateVars, outletVars, lastPushed>>

(***************************************************************************)
(* GazeLSLOutlet.  StopPublishing begins by setting the stop signal and    *)
(* ends when Join returns; why says what its caller goes on with.          *)
(***************************************************************************)
CanUpdate == MainIdle /\ enabled

BeginStop(why, session) ==
  /\ main' = [at |-> "stopping", why |-> why, session |-> session]
  /\ thread' = [thread EXCEPT !.stop = TRUE]

(* session is the one that Update read, 0 if the rate was not ready. *)
StartPublishing(session, opens_) ==
  IF opens_
  THEN /\ outletSession' = session
       /\ streamOpen' = TRUE
       /\ thread' = [NoThread EXCEPT !.at = "reading"]
       /\ UNCHANGED enabled
  ELSE /\ outletSession' = 0
       /\ streamOpen' = FALSE
       /\ thread' = NoThread
       /\ enabled' = FALSE

SessionReady == IF tracker = 0 THEN 0 ELSE sessionGeneration

StopsWhenLost ==                               \* mutant
  /\ CanUpdate
  /\ outletSession # 0
  /\ \/ thread.outcome # "fine" /\ BeginStop(thread.outcome, 0)
     \/ thread.outcome = "fine" /\ tracker = 0 /\ BeginStop("session", 0)
  /\ UNCHANGED <<watcherVars, trackerVars, queueVars, sdkVars, draining,
                 outletVars, lastPushed>>

UpdateStops ==
  /\ CanUpdate
  /\ outletSession # 0
  /\ \/ thread.outcome # "fine" /\ BeginStop(thread.outcome, 0)
     \/ /\ thread.outcome = "fine" /\ SessionReady # outletSession
        /\ BeginStop("session", SessionReady)
  /\ UNCHANGED <<watcherVars, trackerVars, queueVars, sdkVars, draining,
                 outletVars, lastPushed>>

UpdateStarts(opens_) ==
  /\ CanUpdate
  /\ outletSession = 0
  /\ SessionReady # 0
  /\ StartPublishing(SessionReady, opens_)
  /\ UNCHANGED <<trackerStateVars, lastPushed>>

ClosesAnyway ==                                \* mutant
  /\ main.at = "stopping"
  /\ Running(thread)
  /\ main' = Idle
  /\ streamOpen' = FALSE
  /\ UNCHANGED <<watcherVars, trackerVars, queueVars, sdkVars, draining,
                 enabled, outletSession, thread, lastPushed>>

(* Join gives up: worker and stream are kept, and Update tries again. *)
StopTimesOut ==
  /\ main.at = "stopping"
  /\ Running(thread)
  /\ main' = Idle
  /\ UNCHANGED <<watcherVars, trackerVars, queueVars, sdkVars, draining, publisherVars>>

ReleaseStream ==
  /\ outletSession' = 0
  /\ streamOpen' = FALSE
  /\ thread' = NoThread

Stopped(opens_) ==
  /\ LockFree
  /\ main.at = "stopping"
  /\ ~Running(thread)
  /\ main' = Idle
  /\ \/ main.why = "provider" /\ ReleaseStream /\ RestartTrackingSession
        /\ UNCHANGED enabled
     \/ /\ main.why # "provider"
        /\ UNCHANGED <<watcherVars, trackerVars, queueVars>>
        /\ \/ main.why = "failed" /\ ReleaseStream /\ enabled' = FALSE
           \/ main.why = "session" /\ main.session # 0
              /\ StartPublishing(main.session, opens_)
           \/ main.why = "session" /\ main.session = 0
              /\ ReleaseStream /\ UNCHANGED enabled
           \/ main.why = "destroy" /\ ReleaseStream /\ UNCHANGED enabled
  /\ UNCHANGED <<sdkVars, draining, lastPushed>>

(* OnDestroy of the outlet: Update runs no more. *)
DestroyOutlet ==
  /\ MainIdle
  /\ enabled
  /\ enabled' = FALSE
  /\ IF outletSession # 0 THEN BeginStop("destroy", 0) ELSE UNCHANGED <<main, thread>>
  /\ UNCHANGED <<watcherVars, trackerVars, queueVars, sdkVars, draining,
                 outletSession, streamOpen, lastPushed>>

WorkerStep ==
  \/ SeeStopSignal
  \/ \E reading \in Readings : Read(reading)
  \/ \E sdkFails \in BOOLEAN : Receive(sdkFails)
  \/ Publish
  \/ PublishThrows

OutletStep ==
  \/ UpdateStops
  \/ StopTimesOut
  \/ \E opens_ \in BOOLEAN : UpdateStarts(opens_) \/ Stopped(opens_)
  \/ DestroyOutlet

Next == WorkerStep \/ OutletStep \/ (TrackerNext /\ UNCHANGED publisherVars)

Spec == Init /\ [][Next]_vars

(***************************************************************************)
(* Fairness: Unity calls every Update again and again and the lock comes   *)
(* free for it again and again, and the calls of the publisher's thread    *)
(* return.  Nothing is assumed of the SDK or of OnDestroy.                 *)
(***************************************************************************)
Convert == (TakeRawReading \/ Located) /\ UNCHANGED publisherVars
FollowTracker ==
  UpdateStops \/ \E opens_ \in BOOLEAN : UpdateStarts(opens_) \/ Stopped(opens_)

FairSpec ==
  /\ Spec
  /\ WF_vars(WorkerStep)
  /\ SF_vars(Convert)
  /\ SF_vars(FollowTracker)

(***************************************************************************)
(* Properties                                                              *)
(***************************************************************************)
(* The types, with the shape of what main and the thread are doing. *)
TypeOK ==
  /\ TrackerTypeOK
  /\ main \in {Idle}
       \cup [at : {"converting"}, left : 1..MaxTransformsPerUpdate]
       \cup [at : {"locating"}, left : 0..MaxTransformsPerUpdate, raw : Entries]
       \cup [at : {"stopping"}, why : {"provider", "failed", "session", "destroy"},
             session : 0..MaxTrackers]
  /\ enabled \in BOOLEAN /\ streamOpen \in BOOLEAN
  /\ outletSession \in 0..MaxTrackers
  /\ thread \in [at : {"none", "reading", "pushing", "ended"}, stop : BOOLEAN,
                 failures : 0..ProviderFailureLimit,
                 outcome : {"fine", "provider", "failed"},
                 sample : Entries \cup {NoSample}]
  /\ lastPushed \in Entries \cup {NoSample}

(* A thread that may still send has its stream, and the outlet knows of    *)
(* it: nothing is disposed, and no second thread started, while the 500 ms *)
(* of Stop have passed and the thread is inside a call.                    *)
WorkerHasStream == Running(thread) => streamOpen /\ outletSession # 0

(* What holds of provider and publisher at any moment, whatever comes      *)
(* between two of their steps: queues within their bounds, an active       *)
(* tracker that is open, and a thread that has its stream.                 *)
PublisherSafe == TypeOK /\ ActiveTrackerIsOpen /\ WorkerHasStream

Later(s, t) == s.session > t.session \/ (s.session = t.session /\ s.ticks > t.ticks)

(* Over the whole life of the app samples leave in the order of their      *)
(* capture, none twice, and none of a session older than the one for which *)
(* its stream was opened.                                                  *)
StreamInOrder ==
  [][Publish /\ thread.sample.stamp > 0 =>
       /\ Later(lastPushed', lastPushed)
       /\ lastPushed'.session >= outletSession]_vars

(* Update brings up the stream of the tracker session there is, and takes *)
(* down the one there is no session for, whatever it interrupts and        *)
(* however often Stop gives up, unless publishing has ended for good.      *)
StreamFollowsTracker ==
  []<>(outletSession = SessionReady \/ ~enabled)
=============================================================================
