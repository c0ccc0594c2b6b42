----------------------------- MODULE GazeTracker -----------------------------
(***************************************************************************)
(* GazeDataProvider of the HoloLens app: it finds the eye tracker through  *)
(* a watcher, opens it, takes its readings on the publisher's thread, and  *)
(* turns them into samples on Unity's main thread.                         *)
(*                                                                         *)
(* Three kinds of threads meet here.  Unity's main thread runs Update,     *)
(* OnDestroy and what follows an await in StartWatcherAsync, one at a time *)
(* (main).  The eye tracking SDK raises its events, and goes on after      *)
(* OpenAsync, on threads of its own.  The publisher's thread takes         *)
(* readings and samples.  They share trackerGate, so an action is a region *)
(* between two awaits or two takings of the lock; draining says that the   *)
(* publisher holds the lock over several readings.                         *)
(*                                                                         *)
(* Watchers and trackers are numbered as they appear, 0 is null, and       *)
(* tracker stands for trackerNode and selectedFrameRate too, which are     *)
(* assigned together.  Abstracted: rays, calibration, counters, logging,   *)
(* and when the catch-up asks (an answer may be missing at any time).      *)
(***************************************************************************)
EXTENDS Integers, Sequences, FiniteSets

CONSTANTS
  MaxQueuedSamples,        \* of both queues
  MaxBacklogSpan,          \* MaxBacklogSpanSeconds, in ticks
  MaxReadingsPerAcquire,
  MaxTransformsPerUpdate,
  Readings,                \* the readings of a session: [ticks, clock], where
                           \* clock is what was done to it since the capture
  MaxWatchers,             \* bound: watchers created
  MaxTrackers              \* bound: trackers shown by the SDK

ASSUME GazeAssumption ==
  /\ MaxQueuedSamples \in Nat \ {0}
  /\ MaxBacklogSpan \in Nat
  /\ MaxReadingsPerAcquire \in Nat \ {0}
  /\ MaxTransformsPerUpdate \in Nat \ {0}
  /\ Readings \subseteq [ticks : Nat \ {0}, clock : {"steady", "forward", "back"}]
  /\ {MaxWatchers, MaxTrackers} \subseteq Nat

VARIABLES
  destroyed, restartInProgress,
  watcher, watcherGeneration,
  tracker, trackerLifecycleGeneration, sessionGeneration,
  lastTicks,               \* readingGate, 0 before the first reading
  pendingRawReadings, pendingSamples,
  draining,                \* readings taken in this call, the lock being held
  starts,                  \* the calls of StartWatcherAsync, where they wait
  opens,                   \* the calls of OnTrackerAdded that wait for OpenAsync
  main,                    \* what Unity's main thread is in the middle of
  attached,                \* SDK: watchers that have handlers
  shown,                   \* SDK: <<w, t>> if w has shown t and not yet removed it
  held,                    \* SDK: trackers being opened, or open
  lastWatcher, lastTracker \* the numbers given so far

watcherVars == <<destroyed, restartInProgress, watcher, watcherGeneration, starts,
                 attached, lastWatcher>>
trackerVars == <<tracker, trackerLifecycleGeneration, sessionGeneration, opens, held>>
queueVars == <<lastTicks, pendingRawReadings, pendingSamples>>
sdkVars == <<shown, lastTracker>>
trackerStateVars == <<watcherVars, trackerVars, queueVars, sdkVars, draining, main>>

Idle == [at |-> "idle"]
NotStarted == [at |-> "no", watcher |-> 0, token |-> 0]
Asking == [NotStarted EXCEPT !.at = "access"]

(* Start() of the component has run up to the request for access. *)
TrackerInit ==
  /\ destroyed = FALSE /\ restartInProgress = FALSE
  /\ watcher = 0 /\ watcherGeneration = 0
  /\ tracker = 0 /\ trackerLifecycleGeneration = 0 /\ sessionGeneration = 0
  /\ lastTicks = 0 /\ pendingRawReadings = <<>> /\ pendingSamples = <<>>
  /\ draining = 0
  /\ starts = [first |-> Asking, restart |-> NotStarted]
  /\ opens = {} /\ main = Idle
  /\ attached = {} /\ shown = {} /\ held = {}
  /\ lastWatcher = 0 /\ lastTracker = 0

LockFree == draining = 0
MainIdle == LockFree /\ main.at = "idle"

(***************************************************************************)
(* GazeBacklogPolicy, on queues of records with a stamp.                   *)
(***************************************************************************)
SpanExceedsLimit(queue, newest) == newest.stamp - Head(queue).stamp > MaxBacklogSpan

DropOldest(queue) ==
  IF Len(queue) < MaxQueuedSamples THEN queue
  ELSE SubSeq(queue, Len(queue) - MaxQueuedSamples + 2, Len(queue))

Enqueue(queue, item) ==
  LET rest == DropOldest(queue)
  IN  IF rest # <<>> /\ SpanExceedsLimit(rest, item) THEN <<item>>
      ELSE Append(rest, item)

CollapseIfOverSpan(queue) ==
  IF Len(queue) > 1 /\ SpanExceedsLimit(queue, queue[Len(queue)])
  THEN <<queue[Len(queue)]>> ELSE queue

(***************************************************************************)
(* Closing and restarting.                                                 *)
(***************************************************************************)
ResetReadingPipeline ==
  /\ lastTicks' = 0
  /\ pendingRawReadings' = <<>>
  /\ pendingSamples' = <<>>

ClearActiveTracker ==
  /\ tracker' = 0
  /\ ResetReadingPipeline

StopWatcherAndTracker ==
  /\ watcher' = 0
  /\ ClearActiveTracker
  /\ watcherGeneration' = watcherGeneration + 1
  /\ trackerLifecycleGeneration' = trackerLifecycleGeneration + 1
  /\ attached' = attached \ {watcher}
  /\ held' = held \ {tracker}
  /\ UNCHANGED <<sessionGeneration, opens, lastWatcher>>

(* Up to the await of StartWatcherAsync. *)
RestartTrackingSession ==
  IF destroyed \/ restartInProgress
  THEN UNCHANGED <<watcherVars, trackerVars, queueVars>>
  ELSE /\ restartInProgress' = TRUE
       /\ StopWatcherAndTracker
       /\ starts' = [starts EXCEPT !.restart = Asking]
       /\ UNCHANGED destroyed

(* A restart takes another watcher, and the bound counts them. *)
MayRestart == restartInProgress \/ destroyed \/ lastWatcher < MaxWatchers

(***************************************************************************)
(* StartWatcherAsync: which is "first" when Start calls it, "restart" when *)
(* RestartTrackingSession does.                                            *)
(***************************************************************************)
EndStart(which) ==
  /\ starts' = [starts EXCEPT ![which] = NotStarted]
  /\ restartInProgress' = (restartInProgress /\ which # "restart")

AccessAnswered(which, allowed) ==
  /\ MainIdle
  /\ starts[which].at = "access"
  /\ IF allowed /\ ~destroyed
     THEN /\ lastWatcher < MaxWatchers
          /\ lastWatcher' = lastWatcher + 1
          /\ watcher' = lastWatcher'
          /\ watcherGeneration' = watcherGeneration + 1
          /\ trackerLifecycleGeneration' = trackerLifecycleGeneration + 1
          /\ attached' = attached \cup {lastWatcher'}
          /\ starts' = [starts EXCEPT ![which] =
                          [at |-> "start", watcher |-> lastWatcher',
                           token |-> watcherGeneration']]
          /\ UNCHANGED restartInProgress
     ELSE /\ EndStart(which)
          /\ UNCHANGED <<watcher, watcherGeneration, trackerLifecycleGeneration,
                         attached, lastWatcher>>
  /\ UNCHANGED <<destroyed, tracker, sessionGeneration, opens, held, queueVars,
                 sdkVars, draining, main>>

IsCurrent(start) ==
  watcher = start.watcher /\ watcherGeneration = start.token

(* newWatcher.StartAsync() has returned, or thrown. *)
StartAnswered(which, started) ==
  /\ MainIdle
  /\ starts[which].at = "start"
  /\ EndStart(which)
  /\ IF ~started /\ IsCurrent(starts[which])
     THEN StopWatcherAndTracker
     ELSE /\ attached' = IF ~destroyed /\ IsCurrent(starts[which]) THEN attached
                         ELSE attached \ {starts[which].watcher}
          /\ UNCHANGED <<watcher, watcherGeneration, lastWatcher, trackerVars, queueVars>>
  /\ UNCHANGED <<destroyed, sdkVars, draining, main>>

(***************************************************************************)
(* The handlers, and what follows the await of OpenAsync.  The SDK calls   *)
(* them for a watcher that has handlers, or had them when the event was    *)
(* raised, so any watcher may call late.                                   *)
(***************************************************************************)
OnTrackerAdded(sender) ==
  /\ LockFree
  /\ lastTracker < MaxTrackers
  /\ lastTracker' = lastTracker + 1
  /\ shown' = shown \cup {<<sender, lastTracker'>>}
  /\ IF sender # watcher \/ destroyed
     THEN UNCHANGED <<opens, held>>
     ELSE /\ opens' = opens \cup
               {[tracker |-> lastTracker', sender |-> sender,
                 lifecycle |-> trackerLifecycleGeneration]}
          /\ held' = held \cup {lastTracker'}
  /\ UNCHANGED <<watcherVars, tracker, trackerLifecycleGeneration, sessionGeneration,
                 queueVars, draining, main>>

CanActivate(open) ==
  /\ ~destroyed
  /\ open.sender = watcher
  /\ open.lifecycle = trackerLifecycleGeneration

KeptOpen(open) == {}                           \* mutant

(* The tracker in use before, which is closed. *)
Previous(open) == {tracker} \ {open.tracker}

(* usable: it opened, offers 90 Hz, and has a position anchor. *)
OpenAnswered(open, usable) ==
  /\ LockFree
  /\ opens' = opens \ {open}
  /\ IF usable /\ CanActivate(open)
     THEN /\ tracker' = open.tracker
          /\ ResetReadingPipeline
          /\ sessionGeneration' = sessionGeneration + 1
          /\ held' = held \ Previous(open)
     ELSE /\ held' = held \ {open.tracker}
          /\ UNCHANGED <<tracker, sessionGeneration, queueVars>>
  /\ UNCHANGED <<watcherVars, trackerLifecycleGeneration, sdkVars, draining, main>>

OnTrackerRemoved(sender, removed) ==
  /\ LockFree
  /\ <<sender, removed>> \in shown
  /\ shown' = shown \ {<<sender, removed>>}
  /\ IF sender # watcher
     THEN UNCHANGED <<trackerVars, queueVars>>
     ELSE /\ trackerLifecycleGeneration' = trackerLifecycleGeneration + 1
          /\ IF tracker = removed THEN ClearActiveTracker
             ELSE UNCHANGED <<tracker, queueVars>>
          /\ held' = held \ {removed}
          /\ UNCHANGED <<sessionGeneration, opens>>
  /\ UNCHANGED <<watcherVars, lastTracker, draining, main>>

(***************************************************************************)
(* AcquireRawReadingLocked and TryGetNextSample, called by the publisher.  *)
(* AcceptReading is one reading of the catch-up; without a reading before  *)
(* it the call asks for the current time, once, and the age must be small. *)
(***************************************************************************)
(* GazeReadingGate.TryAccept *)
AcceptsRepeats(reading) == lastTicks = 0 \/ reading.ticks >= lastTicks    \* mutant

TryAccept(reading) == lastTicks = 0 \/ reading.ticks > lastTicks

(* queryLslTime - ageSeconds: far in the past after the clock was set forward. *)
StampOf(reading) == IF reading.clock = "forward" THEN 0 ELSE reading.ticks

AcceptReading(reading) ==
  /\ tracker # 0
  /\ draining < MaxReadingsPerAcquire
  /\ TryAccept(reading)
  /\ lastTicks = 0 => reading.clock = "steady"
  /\ lastTicks' = reading.ticks
  /\ draining' = IF lastTicks = 0 THEN MaxReadingsPerAcquire ELSE draining + 1
  /\ pendingRawReadings' =
       IF reading.clock = "back" THEN pendingRawReadings  \* IsPossibleCaptureAge
       ELSE Enqueue(pendingRawReadings,
                    [session |-> sessionGeneration, ticks |-> reading.ticks,
                     stamp |-> StampOf(reading)])
  /\ UNCHANGED <<watcherVars, trackerVars, sdkVars, pendingSamples, main>>

WaitingSamples == CollapseIfOverSpan(pendingSamples)

(* The end of TryGetNextSample: it returns WaitingSamples[1] if there is one. *)
ReturnSample ==
  /\ pendingSamples' = IF WaitingSamples = <<>> THEN <<>> ELSE Tail(WaitingSamples)
  /\ draining' = 0
  /\ UNCHANGED <<watcherVars, trackerVars, sdkVars, lastTicks, pendingRawReadings, main>>

(***************************************************************************)
(* TransformReadingsOnMainThread: a reading is taken out of the queue      *)
(* under the lock, located outside it, and its sample queued under it.  A  *)
(* sample carries the session and ticks of its reading to be observed; the *)
(* code keeps its stamp and rays only.                                     *)
(***************************************************************************)
GoOn(left) == IF left = 0 THEN Idle ELSE [at |-> "converting", left |-> left]

OfThisSession(raw) == raw.session = sessionGeneration

TakeRawReading ==
  /\ LockFree
  /\ \/ main.at = "idle" /\ ~destroyed
     \/ main.at = "converting"
  /\ LET left == IF main.at = "idle" THEN MaxTransformsPerUpdate ELSE main.left
         queue == CollapseIfOverSpan(pendingRawReadings)
     IN  IF queue = <<>>
         THEN main' = Idle /\ UNCHANGED pendingRawReadings
         ELSE /\ pendingRawReadings' = Tail(queue)
              /\ main' = IF OfThisSession(queue[1]) /\ tracker # 0
                         THEN [at |-> "locating", left |-> left - 1, raw |-> queue[1]]
                         ELSE GoOn(left - 1)
  /\ UNCHANGED <<watcherVars, trackerVars, sdkVars, lastTicks, pendingSamples, draining>>

(* The node was located, or not: the sample then says that it is invalid. *)
Located ==
  /\ LockFree
  /\ main.at = "locating"
  /\ main' = GoOn(main.left)
  /\ pendingSamples' = IF OfThisSession(main.raw)
                       THEN Enqueue(pendingSamples, main.raw) ELSE pendingSamples
  /\ UNCHANGED <<watcherVars, trackerVars, sdkVars, lastTicks, pendingRawReadings, draining>>

LocateThrows ==
  /\ LockFree
  /\ main.at = "locating"
  /\ MayRestart
  /\ main' = Idle
  /\ RestartTrackingSession
  /\ UNCHANGED <<sdkVars, draining>>

(* OnDestroy of the component. *)
DestroyProvider ==
  /\ MainIdle
  /\ ~destroyed
  /\ destroyed' = TRUE
  /\ StopWatcherAndTracker
  /\ UNCHANGED <<restartInProgress, starts, sdkVars, draining, main>>

(* What happens without the publisher. *)
TrackerNext ==
  \/ \E which \in {"first", "restart"}, good \in BOOLEAN :
       AccessAnswered(which, good) \/ StartAnswered(which, good)
  \/ \E w \in 1..lastWatcher :
       OnTrackerAdded(w) \/ \E t \in 1..lastTracker : OnTrackerRemoved(w, t)
  \/ \E open \in opens, usable \in BOOLEAN : OpenAnswered(open, usable)
  \/ TakeRawReading \/ Located \/ LocateThrows
  \/ DestroyProvider

(***************************************************************************)
(* Properties, checked and proved in the composition with the publisher.   *)
(***************************************************************************)
Entries == [session : 1..MaxTrackers, ticks : Nat \ {0}, stamp : Nat]

TrackerTypeOK ==
  /\ destroyed \in BOOLEAN /\ restartInProgress \in BOOLEAN
  /\ watcher \in 0..MaxWatchers /\ tracker \in 0..MaxTrackers
  /\ lastWatcher \in 0..MaxWatchers /\ lastTracker \in 0..MaxTrackers
  /\ watcherGeneration \in Nat /\ trackerLifecycleGeneration \in Nat
  /\ sessionGeneration \in 0..MaxTrackers
  /\ lastTicks \in Nat
  /\ draining \in 0..MaxReadingsPerAcquire
  /\ pendingRawReadings \in Seq(Entries) /\ Len(pendingRawReadings) <= MaxQueuedSamples
  /\ pendingSamples \in Seq(Entries) /\ Len(pendingSamples) <= MaxQueuedSamples
  /\ starts \in [{"first", "restart"} ->
                   [at : {"no", "access", "start"}, watcher : 0..MaxWatchers, token : Nat]]
  /\ opens \subseteq [tracker : 1..MaxTrackers, sender : 1..MaxWatchers, lifecycle : Nat]
  /\ attached \subseteq 1..MaxWatchers
  /\ shown \subseteq (1..MaxWatchers) \X (1..MaxTrackers)
  /\ held \subseteq 1..MaxTrackers

(* The readings of the active session on their way, the oldest first. *)
InConversion ==
  IF main.at = "locating" /\ main.raw.session = sessionGeneration
  THEN <<main.raw>> ELSE <<>>
OnTheWay == pendingSamples \o InConversion \o pendingRawReadings

(* Both queues hold readings of the last tracker session only, each one    *)
(* once and in the order of their capture, also while one of them is being *)
(* converted: nothing of an old session comes back into a new one, however *)
(* the removal of a tracker meets the conversion.                          *)
QueuesInOrder ==
  \A i \in 1..Len(OnTheWay) :
    /\ OnTheWay[i].session = sessionGeneration
    /\ i > 1 => OnTheWay[i - 1].ticks < OnTheWay[i].ticks

(* The lifecycle leaves nothing behind: the watcher in use is the only one *)
(* with handlers, every tracker that the SDK holds open is the active one  *)
(* or waits for its OpenAsync, and after OnDestroy there is none in use.   *)
NothingLeftOpen ==
  /\ attached \subseteq {watcher}
  /\ held \subseteq {tracker} \cup {open.tracker : open \in opens}
  /\ destroyed => watcher = 0 /\ tracker = 0

(* The active tracker is one that nobody has closed: a tracker removed or  *)
(* restarted while OpenAsync was waiting is never read.                    *)
ActiveTrackerIsOpen == tracker # 0 => tracker \in held
=============================================================================
