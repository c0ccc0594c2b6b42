------------------------- MODULE GazePublisher_proofs -------------------------
(***************************************************************************)
(* Theorems about the tracker and the publisher, for every bound: the      *)
(* lifecycle of watchers and trackers leaves nothing open, and the active  *)
(* tracker is one that nobody has closed.                                  *)
(*                                                                         *)
(* Neither is inductive alone.  That a new watcher replaces none needs     *)
(* that no call of StartWatcherAsync asks for access while a watcher is in *)
(* use, and this needs that the first call has nothing before it and that  *)
(* only one restart runs.  That a tracker activated is open needs that an  *)
(* OpenAsync whose generation is current has not been closed, and that no  *)
(* two of them are for the same tracker.                                   *)
(***************************************************************************)
EXTENDS GazePublisher, FiniteSetTheorems, SequenceTheorems, TLAPS

Start == [at : {"no", "access", "start"}, watcher : Nat, token : Nat]

Types ==
  /\ lastWatcher \in Nat /\ lastTracker \in Nat
  /\ watcher \in Nat /\ watcherGeneration \in Nat
  /\ tracker \in 0..lastTracker
  /\ trackerLifecycleGeneration \in Nat
  /\ starts \in [{"first", "restart"} -> Start]
  /\ opens \subseteq [tracker : 1..lastTracker, sender : Nat, lifecycle : Nat]

(* Before the first access is answered there is nothing. *)
FirstComesFirst ==
  starts["first"].at = "access" =>
    /\ lastWatcher = 0 /\ lastTracker = 0 /\ attached = {}
    /\ pendingRawReadings = <<>> /\ main = Idle /\ outletSession = 0
    /\ starts["restart"].at = "no"

(* A restart asks for access without a watcher, and only one runs. *)
OneRestart ==
  /\ starts["restart"].at = "access" => attached = {}
  /\ starts["restart"].at # "no" => restartInProgress

(* What OnTrackerAdded waits for. *)
OpensAreOwn ==
  /\ \A open \in opens :
       /\ open.tracker # tracker
       /\ open.lifecycle <= trackerLifecycleGeneration
       /\ open.lifecycle = trackerLifecycleGeneration => open.tracker \in held
  /\ \A open, other \in opens : open.tracker = other.tracker => open = other

Lifecycle ==
  /\ Types
  /\ FirstComesFirst
  /\ OneRestart
  /\ OpensAreOwn
  /\ NothingLeftOpen
  /\ ActiveTrackerIsOpen

(* At first nothing is in use. *)
LEMMA LifecycleInit == Init => Lifecycle
<1> SUFFICES ASSUME Init PROVE Lifecycle
  OBVIOUS
<1>1. starts = [first |-> Asking, restart |-> NotStarted]
  BY DEF Init, TrackerInit
<1>2. starts \in [{"first", "restart"} -> Start] /\ starts["restart"].at = "no"
  BY <1>1 DEF Start, Asking, NotStarted
<1>3. Types
  BY <1>2 DEF Init, TrackerInit, Types
<1>4. FirstComesFirst /\ OneRestart
  BY <1>2 DEF Init, TrackerInit, FirstComesFirst, OneRestart
<1>5. OpensAreOwn
  BY DEF Init, TrackerInit, OpensAreOwn
<1>6. NothingLeftOpen /\ ActiveTrackerIsOpen
  BY DEF Init, TrackerInit, NothingLeftOpen, ActiveTrackerIsOpen
<1> QED
  BY <1>3, <1>4, <1>5, <1>6 DEF Lifecycle

(***************************************************************************)
(* Steps that leave the lifecycle alone.                                   *)
(***************************************************************************)
lifecycleVars == <<watcherVars, trackerVars, lastTracker>>

(* Steps that leave watchers and trackers alone. *)
LEMMA LifecycleAlone ==
  ASSUME Lifecycle, UNCHANGED lifecycleVars, FirstComesFirst'
  PROVE  Lifecycle'
<1>1. Types'
  BY DEF Lifecycle, Types, lifecycleVars, watcherVars, trackerVars
<1>2. OneRestart'
  BY DEF Lifecycle, OneRestart, lifecycleVars, watcherVars, trackerVars
<1>3. OpensAreOwn'
  BY DEF Lifecycle, OpensAreOwn, lifecycleVars, watcherVars, trackerVars
<1>4. NothingLeftOpen' /\ ActiveTrackerIsOpen'
  BY DEF Lifecycle, NothingLeftOpen, ActiveTrackerIsOpen, lifecycleVars, watcherVars,
     trackerVars
<1> QED
  BY <1>1, <1>2, <1>3, <1>4 DEF Lifecycle

(* Before the first access is answered no tracker is in use. *)
LEMMA NoTrackerYet ==
  ASSUME Lifecycle, starts["first"].at = "access"
  PROVE  tracker = 0 /\ opens = {} /\ main.at = "idle"
BY DEF Lifecycle, Types, FirstComesFirst, Idle

(* The thread changes the queues only. *)
LEMMA WorkerStepLifecycle ==
  ASSUME Lifecycle, WorkerStep
  PROVE  Lifecycle'
<1>1. UNCHANGED lifecycleVars
  BY DEF WorkerStep, SeeStopSignal, Read, Receive, Publish, PublishThrows, AcceptReading,
     ReturnSample, trackerStateVars, sdkVars, lifecycleVars
<1>2. FirstComesFirst'
  <2> SUFFICES ASSUME starts["first"].at = "access" PROVE UNCHANGED <<pendingRawReadings, main, outletSession>>
    BY <1>1 DEF Lifecycle, FirstComesFirst, lifecycleVars, watcherVars
  <2> QED
    BY NoTrackerYet DEF WorkerStep, SeeStopSignal, Read, Receive, Publish, PublishThrows,
       AcceptReading, ReturnSample, trackerStateVars, queueVars, publisherVars, outletVars
<1> QED
  BY <1>1, <1>2, LifecycleAlone

(* So does the conversion. *)
LEMMA ConvertLifecycle ==
  ASSUME Lifecycle, TakeRawReading \/ Located, UNCHANGED publisherVars
  PROVE  Lifecycle'
<1>1. UNCHANGED lifecycleVars
  BY DEF TakeRawReading, Located, sdkVars, lifecycleVars
<1>2. FirstComesFirst'
  <2> SUFFICES ASSUME starts["first"].at = "access"
               PROVE  pendingRawReadings' = <<>> /\ main' = Idle /\ UNCHANGED outletSession
    BY <1>1 DEF Lifecycle, FirstComesFirst, lifecycleVars, watcherVars
  <2>1. pendingRawReadings = <<>> /\ main.at = "idle"
    BY NoTrackerYet DEF Lifecycle, FirstComesFirst
  <2>2. TakeRawReading
    BY <2>1 DEF Located
  <2>3. CollapseIfOverSpan(pendingRawReadings) = <<>>
    BY <2>1 DEF CollapseIfOverSpan
  <2> QED
    BY <2>1, <2>2, <2>3 DEF TakeRawReading, publisherVars, outletVars
<1> QED
  BY <1>1, <1>2, LifecycleAlone

(***************************************************************************)
(* Stopping and restarting.                                                *)
(***************************************************************************)
(* Stopping closes what is in use, and makes every open call stale. *)
LEMMA StopLifecycle ==
  ASSUME Lifecycle, StopWatcherAndTracker, UNCHANGED lastTracker,
         OneRestart', FirstComesFirst', starts' \in [{"first", "restart"} -> Start]
  PROVE  Lifecycle'
<1>1. Types'
  BY DEF Lifecycle, Types, StopWatcherAndTracker, ClearActiveTracker
<1>2. OpensAreOwn'
  <2>1. /\ opens' = opens /\ tracker' = 0
        /\ trackerLifecycleGeneration' = trackerLifecycleGeneration + 1
    BY DEF StopWatcherAndTracker, ClearActiveTracker
  <2>2. ASSUME NEW open \in opens'
        PROVE  /\ open.tracker # tracker'
               /\ open.lifecycle < trackerLifecycleGeneration'
    BY <2>1, <2>2 DEF Lifecycle, Types, OpensAreOwn
  <2>3. \A open, other \in opens' : open.tracker = other.tracker => open = other
    BY <2>1 DEF Lifecycle, OpensAreOwn
  <2> QED
    BY <1>1, <2>2, <2>3 DEF OpensAreOwn, Types
<1>3. NothingLeftOpen'
  BY DEF Lifecycle, NothingLeftOpen, StopWatcherAndTracker, ClearActiveTracker
<1>4. ActiveTrackerIsOpen'
  BY DEF ActiveTrackerIsOpen, StopWatcherAndTracker, ClearActiveTracker
<1> QED
  BY <1>1, <1>2, <1>3, <1>4 DEF Lifecycle

(* A restart does that and asks for access again. *)
LEMMA RestartLifecycle ==
  ASSUME Lifecycle, RestartTrackingSession, UNCHANGED lastTracker,
         starts["first"].at # "access"
  PROVE  Lifecycle'
<1>1. CASE destroyed \/ restartInProgress
  <2>1. UNCHANGED lifecycleVars
    BY <1>1 DEF RestartTrackingSession, lifecycleVars
  <2>2. FirstComesFirst'
    BY <2>1 DEF FirstComesFirst, lifecycleVars, watcherVars
  <2> QED
    BY <2>1, <2>2, LifecycleAlone
<1>2. CASE ~(destroyed \/ restartInProgress)
  <2>1. /\ restartInProgress' = TRUE
        /\ StopWatcherAndTracker
        /\ starts' = [starts EXCEPT !["restart"] = Asking]
    BY <1>2 DEF RestartTrackingSession
  <2>2. starts' \in [{"first", "restart"} -> Start] /\ starts'["first"] = starts["first"]
    BY <2>1 DEF Lifecycle, Types, Start, Asking, NotStarted
  <2>3. FirstComesFirst'
    BY <2>2 DEF FirstComesFirst
  <2>4. attached' = {}
    BY <2>1 DEF StopWatcherAndTracker, Lifecycle, NothingLeftOpen
  <2>5. OneRestart'
    BY <2>1, <2>4 DEF OneRestart
  <2> QED
    BY <2>1, <2>2, <2>3, <2>5, StopLifecycle
<1> QED
  BY <1>1, <1>2

(* A failed location restarts. *)
LEMMA LocateThrowsLifecycle ==
  ASSUME Lifecycle, LocateThrows
  PROVE  Lifecycle'
<1>1. starts["first"].at # "access"
  BY NoTrackerYet DEF LocateThrows
<1> QED
  BY <1>1, RestartLifecycle DEF LocateThrows, sdkVars

(* OnDestroy stops for good. *)
LEMMA DestroyLifecycle ==
  ASSUME Lifecycle, DestroyProvider, UNCHANGED publisherVars
  PROVE  Lifecycle'
<1>1. StopWatcherAndTracker /\ UNCHANGED <<restartInProgress, starts, lastTracker, main>>
  BY DEF DestroyProvider, sdkVars
<1>2. attached' = {}
  BY <1>1 DEF StopWatcherAndTracker, Lifecycle, NothingLeftOpen
<1>3. OneRestart'
  BY <1>1, <1>2 DEF Lifecycle, OneRestart
<1>4. FirstComesFirst'
  <2>1. pendingRawReadings' = <<>> /\ UNCHANGED <<lastWatcher, outletSession>>
    BY <1>1 DEF StopWatcherAndTracker, ClearActiveTracker, ResetReadingPipeline,
       publisherVars, outletVars
  <2> QED
    BY <1>1, <1>2, <2>1 DEF Lifecycle, FirstComesFirst
<1> QED
  BY <1>1, <1>3, <1>4, StopLifecycle DEF Lifecycle, Types

(***************************************************************************)
(* StartWatcherAsync after its two awaits.                                 *)
(***************************************************************************)
(* A call of StartWatcherAsync that ends. *)
LEMMA EndStartFacts ==
  ASSUME Lifecycle, NEW which \in {"first", "restart"}, EndStart(which)
  PROVE  /\ starts' \in [{"first", "restart"} -> Start]
         /\ starts'[which].at = "no"
         /\ \A other \in {"first", "restart"} \ {which} : starts'[other] = starts[other]
         /\ starts'["restart"].at # "no" => restartInProgress'
BY DEF Lifecycle, Types, Start, EndStart, NotStarted, OneRestart

(* A new watcher comes when the old one is gone. *)
LEMMA AccessLifecycle ==
  ASSUME Lifecycle, NEW which \in {"first", "restart"}, NEW allowed \in BOOLEAN,
         AccessAnswered(which, allowed), UNCHANGED publisherVars
  PROVE  Lifecycle'
<1>1. CASE allowed /\ ~destroyed
  <2>1. attached = {}
    BY DEF AccessAnswered, Lifecycle, FirstComesFirst, OneRestart
  <2>2. /\ lastWatcher' = lastWatcher + 1
        /\ watcher' = lastWatcher + 1
        /\ watcherGeneration' = watcherGeneration + 1
        /\ trackerLifecycleGeneration' = trackerLifecycleGeneration + 1
        /\ attached' = {lastWatcher + 1}
        /\ starts' = [starts EXCEPT ![which] =
                        [at |-> "start", watcher |-> lastWatcher + 1,
                         token |-> watcherGeneration + 1]]
        /\ UNCHANGED <<restartInProgress, destroyed, tracker, opens, held, lastTracker>>
    BY <1>1, <2>1 DEF AccessAnswered, sdkVars
  <2>3. Types'
    <3>1. starts' \in [{"first", "restart"} -> Start]
      BY <2>2 DEF Lifecycle, Types, Start
    <3> QED
      BY <2>2, <3>1 DEF Lifecycle, Types
  <2>4. starts'[which].at = "start" /\ \A other \in {"first", "restart"} \ {which} : starts'[other] = starts[other]
    BY <2>2 DEF Lifecycle, Types
  <2>5. which = "first" => starts["restart"].at = "no"
    BY DEF AccessAnswered, Lifecycle, FirstComesFirst
  <2>6. which = "restart" => starts["first"].at # "access"
    BY DEF AccessAnswered, Lifecycle, FirstComesFirst
  <2>7. FirstComesFirst'
    BY <2>4, <2>6 DEF FirstComesFirst
  <2>8. OneRestart'
    <3>1. starts'["restart"].at # "access"
      BY <2>4, <2>5
    <3>2. starts'["restart"].at # "no" => starts["restart"].at # "no"
      BY <2>4, <2>5 DEF AccessAnswered
    <3> QED
      BY <2>2, <3>1, <3>2 DEF Lifecycle, OneRestart
  <2>9. OpensAreOwn'
    <3>1. \A open \in opens' : /\ open.tracker # tracker'
                               /\ open.lifecycle < trackerLifecycleGeneration'
      BY <2>2 DEF Lifecycle, Types, OpensAreOwn
    <3>2. \A open, other \in opens' : open.tracker = other.tracker => open = other
      BY <2>2 DEF Lifecycle, OpensAreOwn
    <3> QED
      BY <2>3, <3>1, <3>2 DEF OpensAreOwn, Types
  <2>10. NothingLeftOpen' /\ ActiveTrackerIsOpen'
    BY <1>1, <2>2 DEF Lifecycle, NothingLeftOpen, ActiveTrackerIsOpen
  <2> QED
    BY <2>3, <2>7, <2>8, <2>9, <2>10 DEF Lifecycle
<1>2. CASE ~(allowed /\ ~destroyed)
  <2>1. EndStart(which) /\ UNCHANGED <<watcher, watcherGeneration, trackerLifecycleGeneration,
             attached, lastWatcher, destroyed, tracker, opens, held, lastTracker>>
    BY <1>2 DEF AccessAnswered, sdkVars
  <2>2. UNCHANGED <<pendingRawReadings, main, outletSession>>
    BY DEF AccessAnswered, queueVars, publisherVars, outletVars
  <2>3. Types'
    BY <2>1, EndStartFacts DEF Lifecycle, Types
  <2>4. FirstComesFirst'
    BY <2>1, <2>2, EndStartFacts DEF Lifecycle, FirstComesFirst
  <2>5. OneRestart'
    BY <2>1, EndStartFacts DEF Lifecycle, OneRestart
  <2>6. OpensAreOwn' /\ NothingLeftOpen' /\ ActiveTrackerIsOpen'
    BY <2>1 DEF Lifecycle, OpensAreOwn, NothingLeftOpen, ActiveTrackerIsOpen
  <2> QED
    BY <2>3, <2>4, <2>5, <2>6 DEF Lifecycle
<1> QED
  BY <1>1, <1>2

(* A watcher that did not start, or is no longer wanted, is stopped. *)
LEMMA StartLifecycle ==
  ASSUME Lifecycle, NEW which \in {"first", "restart"}, NEW started \in BOOLEAN,
         StartAnswered(which, started), UNCHANGED publisherVars
  PROVE  Lifecycle'
<1>1. EndStart(which) /\ starts[which].at = "start" /\ UNCHANGED <<destroyed, lastTracker, main>>
  BY DEF StartAnswered, sdkVars
<1>2. starts["first"].at # "access" => FirstComesFirst'
  BY <1>1, EndStartFacts DEF FirstComesFirst
<1>3. starts["first"].at = "access" => which = "restart" /\ starts["restart"].at = "no"
  BY <1>1 DEF Lifecycle, FirstComesFirst
<1>4. FirstComesFirst'
  BY <1>1, <1>2, <1>3
<1>5. CASE ~started /\ IsCurrent(starts[which])
  <2>1. StopWatcherAndTracker
    BY <1>5 DEF StartAnswered
  <2>2. attached' = {}
    BY <2>1 DEF StopWatcherAndTracker, Lifecycle, NothingLeftOpen
  <2>3. OneRestart'
    BY <1>1, <2>2, EndStartFacts DEF OneRestart
  <2> QED
    BY <1>1, <1>4, <2>1, <2>3, EndStartFacts, StopLifecycle
<1>6. CASE ~(~started /\ IsCurrent(starts[which]))
  <2>1. /\ attached' \subseteq attached
        /\ UNCHANGED <<watcher, watcherGeneration, lastWatcher, trackerVars>>
    BY <1>6 DEF StartAnswered
  <2>2. Types'
    BY <1>1, <2>1, EndStartFacts DEF Lifecycle, Types, trackerVars
  <2>3. OneRestart'
    BY <1>1, <2>1, EndStartFacts DEF Lifecycle, OneRestart
  <2>4. OpensAreOwn'
    BY <2>1 DEF Lifecycle, OpensAreOwn, trackerVars
  <2>5. NothingLeftOpen' /\ ActiveTrackerIsOpen'
    BY <1>1, <2>1 DEF Lifecycle, NothingLeftOpen, ActiveTrackerIsOpen, trackerVars
  <2> QED
    BY <1>4, <2>2, <2>3, <2>4, <2>5 DEF Lifecycle
<1> QED
  BY <1>5, <1>6

(***************************************************************************)
(* The handlers of the watcher, and OpenAsync.                             *)
(***************************************************************************)
(* A tracker shown is held while its OpenAsync waits. *)
LEMMA AddedLifecycle ==
  ASSUME Lifecycle, NEW sender \in 1..lastWatcher, OnTrackerAdded(sender),
         UNCHANGED publisherVars
  PROVE  Lifecycle'
<1>1. /\ lastTracker' = lastTracker + 1
      /\ UNCHANGED <<watcherVars, tracker, trackerLifecycleGeneration, pendingRawReadings, main>>
  BY DEF OnTrackerAdded, queueVars
<1>2. starts["first"].at # "access"
  BY DEF Lifecycle, Types, FirstComesFirst
<1>3. FirstComesFirst' /\ OneRestart'
  BY <1>1, <1>2 DEF Lifecycle, FirstComesFirst, OneRestart, watcherVars
<1>4. ActiveTrackerIsOpen'
  BY <1>1 DEF Lifecycle, ActiveTrackerIsOpen, OnTrackerAdded
<1>5. CASE UNCHANGED <<opens, held>>
  <2>1. Types'
    BY <1>1, <1>5 DEF Lifecycle, Types, watcherVars
  <2>2. OpensAreOwn' /\ NothingLeftOpen'
    BY <1>1, <1>5 DEF Lifecycle, OpensAreOwn, NothingLeftOpen, watcherVars
  <2> QED
    BY <1>3, <1>4, <2>1, <2>2 DEF Lifecycle
<1>6. CASE ~(sender # watcher \/ destroyed)
  <2> DEFINE new == [tracker |-> lastTracker + 1, sender |-> sender,
                     lifecycle |-> trackerLifecycleGeneration]
  <2>1. opens' = opens \cup {new} /\ held' = held \cup {lastTracker + 1}
    BY <1>1, <1>6 DEF OnTrackerAdded
  <2>2. Types'
    BY <1>1, <2>1 DEF Lifecycle, Types, watcherVars
  <2>3. \A open \in opens : open.tracker \in 1..lastTracker
    BY DEF Lifecycle, Types
  <2>4. new.tracker = lastTracker + 1 /\ new.lifecycle = trackerLifecycleGeneration
    OBVIOUS
  <2>5. OpensAreOwn'
    <3>1. ASSUME NEW open \in opens'
          PROVE  /\ open.tracker # tracker'
                 /\ open.lifecycle <= trackerLifecycleGeneration'
                 /\ open.lifecycle = trackerLifecycleGeneration' => open.tracker \in held'
      <4>1. CASE open \in opens
        BY <1>1, <2>1, <4>1 DEF Lifecycle, OpensAreOwn
      <4>2. CASE open = new
        BY <1>1, <2>1, <2>4, <4>2 DEF Lifecycle, Types
      <4> QED
        BY <2>1, <4>1, <4>2
    <3>2. ASSUME NEW open \in opens', NEW other \in opens', open.tracker = other.tracker
          PROVE  open = other
      <4>1. (open \in opens \/ open = new) /\ (other \in opens \/ other = new)
        BY <2>1
      <4>2. open \in opens /\ other = new => FALSE
        BY <2>3, <2>4, <3>2 DEF Lifecycle, Types
      <4>3. other \in opens /\ open = new => FALSE
        BY <2>3, <2>4, <3>2 DEF Lifecycle, Types
      <4> QED
        BY <3>2, <4>1, <4>2, <4>3 DEF Lifecycle, OpensAreOwn
    <3> QED
      BY <3>1, <3>2 DEF OpensAreOwn
  <2>6. NothingLeftOpen'
    BY <1>1, <2>1, <2>4 DEF Lifecycle, NothingLeftOpen, watcherVars
  <2> QED
    BY <1>3, <1>4, <2>2, <2>5, <2>6 DEF Lifecycle
<1> QED
  BY <1>5, <1>6 DEF OnTrackerAdded

(* It becomes the active one, or is closed. *)
LEMMA OpenLifecycle ==
  ASSUME Lifecycle, NEW open \in opens, NEW usable \in BOOLEAN,
         OpenAnswered(open, usable), UNCHANGED publisherVars
  PROVE  Lifecycle'
<1>1. /\ opens' = opens \ {open}
      /\ UNCHANGED <<watcherVars, trackerLifecycleGeneration, lastTracker, main>>
  BY DEF OpenAnswered, sdkVars
<1>2. open.tracker \in 1..lastTracker /\ open.tracker # tracker
  BY DEF Lifecycle, Types, OpensAreOwn
<1>3. FirstComesFirst'
  BY <1>1, NoTrackerYet DEF FirstComesFirst, watcherVars
<1>4. OneRestart'
  BY <1>1 DEF Lifecycle, OneRestart, watcherVars
<1>5. \A other \in opens' : other \in opens /\ other.tracker # open.tracker
  BY <1>1 DEF Lifecycle, OpensAreOwn
<1>6. CASE usable /\ CanActivate(open)
  <2>1. tracker' = open.tracker /\ held' = held \ {tracker}
    BY <1>2, <1>6 DEF OpenAnswered, Previous
  <2>2. Types'
    BY <1>1, <1>2, <2>1 DEF Lifecycle, Types, watcherVars
  <2>3. open.tracker \in held /\ ~destroyed
    BY <1>6 DEF CanActivate, Lifecycle, OpensAreOwn
  <2>4. OpensAreOwn'
    <3>1. ASSUME NEW other \in opens'
          PROVE  /\ other.tracker # tracker'
                 /\ other.lifecycle <= trackerLifecycleGeneration'
                 /\ other.lifecycle = trackerLifecycleGeneration' => other.tracker \in held'
      BY <1>1, <1>5, <2>1 DEF Lifecycle, OpensAreOwn
    <3> QED
      BY <1>5, <3>1 DEF Lifecycle, OpensAreOwn
  <2>5. NothingLeftOpen'
    <3>1. held' \subseteq {tracker'} \cup {other.tracker : other \in opens'}
      BY <1>1, <2>1 DEF Lifecycle, NothingLeftOpen
    <3> QED
      BY <1>1, <2>3, <3>1 DEF Lifecycle, NothingLeftOpen, watcherVars
  <2>6. ActiveTrackerIsOpen'
    BY <1>2, <2>1, <2>3 DEF ActiveTrackerIsOpen
  <2> QED
    BY <1>3, <1>4, <2>2, <2>4, <2>5, <2>6 DEF Lifecycle
<1>7. CASE ~(usable /\ CanActivate(open))
  <2>1. tracker' = tracker /\ held' = held \ {open.tracker}
    BY <1>7 DEF OpenAnswered
  <2>2. Types'
    BY <1>1, <2>1 DEF Lifecycle, Types, watcherVars
  <2>3. OpensAreOwn'
    <3>1. ASSUME NEW other \in opens'
          PROVE  /\ other.tracker # tracker'
                 /\ other.lifecycle <= trackerLifecycleGeneration'
                 /\ other.lifecycle = trackerLifecycleGeneration' => other.tracker \in held'
      BY <1>1, <1>5, <2>1 DEF Lifecycle, OpensAreOwn
    <3> QED
      BY <1>5, <3>1 DEF Lifecycle, OpensAreOwn
  <2>4. NothingLeftOpen'
    BY <1>1, <2>1 DEF Lifecycle, NothingLeftOpen, watcherVars
  <2>5. ActiveTrackerIsOpen'
    BY <1>2, <2>1 DEF Lifecycle, ActiveTrackerIsOpen
  <2> QED
    BY <1>3, <1>4, <2>2, <2>3, <2>4, <2>5 DEF Lifecycle
<1> QED
  BY <1>6, <1>7

(* A tracker removed is closed, also if its OpenAsync waits. *)
LEMMA RemovedLifecycle ==
  ASSUME Lifecycle, NEW sender \in 1..lastWatcher, NEW removed \in 1..lastTracker,
         OnTrackerRemoved(sender, removed), UNCHANGED publisherVars
  PROVE  Lifecycle'
<1>1. starts["first"].at # "access"
  BY DEF Lifecycle, Types, FirstComesFirst
<1>2. UNCHANGED <<watcherVars, lastTracker>>
  BY DEF OnTrackerRemoved
<1>3. FirstComesFirst' /\ OneRestart'
  BY <1>1, <1>2 DEF Lifecycle, FirstComesFirst, OneRestart, watcherVars
<1>4. CASE sender # watcher
  <2>1. UNCHANGED lifecycleVars
    BY <1>2, <1>4 DEF OnTrackerRemoved, lifecycleVars
  <2> QED
    BY <1>3, <2>1, LifecycleAlone
<1>5. CASE sender = watcher
  <2>1. /\ trackerLifecycleGeneration' = trackerLifecycleGeneration + 1
        /\ held' = held \ {removed} /\ opens' = opens
        /\ tracker' = IF tracker = removed THEN 0 ELSE tracker
    BY <1>5 DEF OnTrackerRemoved, ClearActiveTracker
  <2>2. Types'
    BY <1>2, <2>1 DEF Lifecycle, Types, watcherVars
  <2>3. OpensAreOwn'
    <3>1. \A open \in opens' : /\ open.tracker # tracker'
                               /\ open.lifecycle < trackerLifecycleGeneration'
      BY <2>1 DEF Lifecycle, Types, OpensAreOwn
    <3>2. \A open, other \in opens' : open.tracker = other.tracker => open = other
      BY <2>1 DEF Lifecycle, OpensAreOwn
    <3> QED
      BY <2>2, <3>1, <3>2 DEF OpensAreOwn, Types
  <2>4. NothingLeftOpen' /\ ActiveTrackerIsOpen'
    BY <1>2, <2>1 DEF Lifecycle, NothingLeftOpen, ActiveTrackerIsOpen, watcherVars
  <2> QED
    BY <1>3, <2>2, <2>3, <2>4 DEF Lifecycle
<1> QED
  BY <1>4, <1>5

(***************************************************************************)
(* GazeLSLOutlet, which restarts the tracker after its reader has failed.  *)
(***************************************************************************)
(* Of the outlet, only a reader that failed touches the lifecycle. *)
LEMMA OutletLifecycle ==
  ASSUME Lifecycle, OutletStep
  PROVE  Lifecycle'
<1>1. CASE \E opens_ \in BOOLEAN : Stopped(opens_)
  <2>1. starts["first"].at # "access"
    BY <1>1, NoTrackerYet DEF Stopped
  <2>2. CASE RestartTrackingSession
    BY <1>1, <2>1, <2>2, RestartLifecycle DEF Stopped, sdkVars
  <2>3. CASE UNCHANGED <<watcherVars, trackerVars, queueVars>>
    <3>1. UNCHANGED lifecycleVars
      BY <1>1, <2>3 DEF Stopped, sdkVars, lifecycleVars
    <3>2. FirstComesFirst'
      BY <2>1, <2>3 DEF FirstComesFirst, watcherVars
    <3> QED
      BY <3>1, <3>2, LifecycleAlone
  <2> QED
    BY <1>1, <2>2, <2>3 DEF Stopped
<1>2. CASE \/ UpdateStops \/ StopTimesOut \/ DestroyOutlet
            \/ \E opens_ \in BOOLEAN : UpdateStarts(opens_)
  <2>1. UNCHANGED lifecycleVars /\ UNCHANGED pendingRawReadings
    BY <1>2 DEF UpdateStops, StopTimesOut, DestroyOutlet, UpdateStarts, sdkVars, queueVars,
       trackerStateVars, lifecycleVars
  <2>2. FirstComesFirst'
    <3> SUFFICES ASSUME starts["first"].at = "access" PROVE main' = Idle /\ outletSession' = 0
      BY <2>1 DEF Lifecycle, FirstComesFirst, lifecycleVars, watcherVars
    <3>1. tracker = 0 /\ main = Idle /\ outletSession = 0
      BY NoTrackerYet DEF Lifecycle, FirstComesFirst
    <3>2. StopTimesOut \/ DestroyOutlet
      BY <1>2, <3>1 DEF UpdateStops, UpdateStarts, SessionReady
    <3> QED
      BY <3>1, <3>2 DEF StopTimesOut, DestroyOutlet, publisherVars, outletVars
  <2> QED
    BY <2>1, <2>2, LifecycleAlone
<1> QED
  BY <1>1, <1>2 DEF OutletStep

(* Together. *)
LEMMA LifecycleNext == Lifecycle /\ [Next]_vars => Lifecycle'
<1> SUFFICES ASSUME Lifecycle, [Next]_vars PROVE Lifecycle'
  OBVIOUS
<1>1. CASE WorkerStep
  BY <1>1, WorkerStepLifecycle
<1>2. CASE OutletStep
  BY <1>2, OutletLifecycle
<1>3. CASE TrackerNext /\ UNCHANGED publisherVars
  <2>1. CASE \E which \in {"first", "restart"}, good \in BOOLEAN :
               AccessAnswered(which, good) \/ StartAnswered(which, good)
    BY <1>3, <2>1, AccessLifecycle, StartLifecycle
  <2>2. CASE \E w \in 1..lastWatcher : OnTrackerAdded(w)
    BY <1>3, <2>2, AddedLifecycle
  <2>3. CASE \E w \in 1..lastWatcher, t \in 1..lastTracker : OnTrackerRemoved(w, t)
    BY <1>3, <2>3, RemovedLifecycle
  <2>4. CASE \E open \in opens, usable \in BOOLEAN : OpenAnswered(open, usable)
    BY <1>3, <2>4, OpenLifecycle
  <2>5. CASE TakeRawReading \/ Located
    BY <1>3, <2>5, ConvertLifecycle
  <2>6. CASE LocateThrows
    BY <2>6, LocateThrowsLifecycle
  <2>7. CASE DestroyProvider
    BY <1>3, <2>7, DestroyLifecycle
  <2> QED
    BY <1>3, <2>1, <2>2, <2>3, <2>4, <2>5, <2>6, <2>7 DEF TrackerNext
<1>4. CASE UNCHANGED vars
  <2>1. UNCHANGED lifecycleVars /\ UNCHANGED <<pendingRawReadings, main, outletSession>>
    BY <1>4 DEF vars, trackerStateVars, lifecycleVars, sdkVars, queueVars, publisherVars, outletVars
  <2>2. FirstComesFirst'
    BY <2>1 DEF Lifecycle, FirstComesFirst, lifecycleVars, watcherVars
  <2> QED
    BY <2>1, <2>2, LifecycleAlone
<1> QED
  BY <1>1, <1>2, <1>3, <1>4 DEF Next

(* Whatever the SDK answers and in whichever order, no watcher but the one *)
(* in use has handlers, and every tracker held open is the active one or   *)
(* waits for its OpenAsync; after OnDestroy nothing is in use.             *)
THEOREM NothingStaysOpen == Spec => []NothingLeftOpen
<1>1. Lifecycle => NothingLeftOpen
  BY DEF Lifecycle
<1> QED
  BY LifecycleInit, LifecycleNext, <1>1, PTL DEF Spec

(* A tracker that was removed, or whose watcher was restarted, while its   *)
(* OpenAsync was waiting does not become the active one.                   *)
THEOREM ActiveStaysOpen == Spec => []ActiveTrackerIsOpen
<1>1. Lifecycle => ActiveTrackerIsOpen
  BY DEF Lifecycle
<1> QED
  BY LifecycleInit, LifecycleNext, <1>1, PTL DEF Spec

(***************************************************************************)
(* The publisher's thread and its stream.                                  *)
(***************************************************************************)
StreamInv == DOMAIN thread = DOMAIN NoThread /\ WorkerHasStream

(* The thread does not touch its stream. *)
LEMMA WorkerKeepsStream ==
  ASSUME StreamInv, WorkerStep
  PROVE  StreamInv'
<1>1. UNCHANGED outletVars
  BY DEF WorkerStep, SeeStopSignal, Read, Receive, Publish, PublishThrows, publisherVars
<1>2. CASE thread' = thread
  BY <1>1, <1>2 DEF StreamInv, WorkerHasStream, Running, outletVars
<1>3. CASE thread' # thread
  <2>1. Running(thread)
    BY <1>3 DEF WorkerStep, SeeStopSignal, AtLoopTop, Read, Receive, Publish, PublishThrows,
       Running, publisherVars
  <2>2. DOMAIN thread' = DOMAIN thread
    BY <1>3 DEF WorkerStep, SeeStopSignal, Read, Receive, Publish, PublishThrows, publisherVars
  <2> QED
    BY <1>1, <2>1, <2>2 DEF StreamInv, WorkerHasStream, outletVars
<1> QED
  BY <1>2, <1>3

(* Asking it to stop does not either. *)
LEMMA BeginStopKeepsStream ==
  ASSUME StreamInv, NEW why, NEW session, BeginStop(why, session),
         UNCHANGED <<streamOpen, outletSession>>
  PROVE  StreamInv'
BY DEF StreamInv, WorkerHasStream, BeginStop, NoThread, Running

(* A thread starts with an open stream. *)
LEMMA StartsWithStream ==
  ASSUME NEW session, NEW opens_, session # 0, StartPublishing(session, opens_)
  PROVE  StreamInv'
BY DEF StreamInv, WorkerHasStream, StartPublishing, NoThread, Running

(* A stream is released with no thread left. *)
LEMMA ReleasesAfterThread ==
  ASSUME ReleaseStream
  PROVE  StreamInv'
BY DEF StreamInv, WorkerHasStream, ReleaseStream, NoThread, Running

(* The steps of the outlet. *)
LEMMA OutletKeepsStream ==
  ASSUME StreamInv, OutletStep
  PROVE  StreamInv'
<1>1. CASE UpdateStops
  BY <1>1, BeginStopKeepsStream DEF UpdateStops, outletVars
<1>2. CASE StopTimesOut
  BY <1>2 DEF StopTimesOut, StreamInv, WorkerHasStream, Running, publisherVars, outletVars
<1>3. CASE \E opens_ \in BOOLEAN : UpdateStarts(opens_)
  BY <1>3, StartsWithStream DEF UpdateStarts
<1>4. CASE \E opens_ \in BOOLEAN : Stopped(opens_)
  BY <1>4, StartsWithStream, ReleasesAfterThread DEF Stopped
<1>5. CASE DestroyOutlet
  <2>1. CASE outletSession # 0
    BY <1>5, <2>1, BeginStopKeepsStream DEF DestroyOutlet
  <2>2. CASE outletSession = 0
    BY <1>5, <2>2 DEF DestroyOutlet, StreamInv, WorkerHasStream, Running
  <2> QED
    BY <2>1, <2>2
<1> QED
  BY <1>1, <1>2, <1>3, <1>4, <1>5 DEF OutletStep

(* The stream of a running thread is open, and the outlet knows of it: a   *)
(* Stop that gives up after 500 ms keeps both, and no thread is started    *)
(* beside one that runs.                                                   *)
THEOREM WorkerKeepsItsStream == Spec => []WorkerHasStream
<1>1. Init => StreamInv
  BY DEF Init, StreamInv, WorkerHasStream, NoThread, Running
<1>2. StreamInv /\ [Next]_vars => StreamInv'
  <2>1. ASSUME StreamInv, UNCHANGED publisherVars PROVE StreamInv'
    BY <2>1 DEF StreamInv, WorkerHasStream, Running, publisherVars, outletVars
  <2> QED
    BY <2>1, WorkerKeepsStream, OutletKeepsStream DEF Next, vars
<1>3. StreamInv => WorkerHasStream
  BY DEF StreamInv
<1> QED
  BY <1>1, <1>2, <1>3, PTL DEF Spec

(***************************************************************************)
(* The two queues of gaze readings and what leaves them, for every bound   *)
(* on the queues, on the batches and on the readings.                      *)
(***************************************************************************)

Item == [session : Nat, ticks : Nat \ {0}, stamp : Nat]

(* The fields of an item of a queue. *)
LEMMA ItemAt ==
  ASSUME NEW q \in Seq(Item), NEW i \in 1..Len(q)
  PROVE  q[i] \in Item /\ q[i].session \in Nat /\ q[i].ticks \in Nat
<1>1. q[i] \in Item
  OBVIOUS
<1> QED
  BY <1>1 DEF Item

(***************************************************************************)
(* What the operations of GazeBacklogPolicy keep of a queue: a suffix.     *)
(***************************************************************************)
Rising(q) == \A i, j \in 1..Len(q) : i < j => q[i].ticks < q[j].ticks
Among(s, q) == \A i \in 1..Len(s) : \E j \in 1..Len(q) : s[i] = q[j]

(* A suffix of a queue keeps its order. *)
LEMMA SuffixFacts ==
  ASSUME NEW q \in Seq(Item), NEW k \in 1..Len(q) + 1
  PROVE  /\ SubSeq(q, k, Len(q)) \in Seq(Item)
         /\ Len(SubSeq(q, k, Len(q))) = Len(q) - k + 1
         /\ \A i \in 1..Len(q) - k + 1 : SubSeq(q, k, Len(q))[i] = q[k + i - 1]
         /\ Among(SubSeq(q, k, Len(q)), q)
         /\ Rising(q) => Rising(SubSeq(q, k, Len(q)))
<1> DEFINE s == SubSeq(q, k, Len(q))
<1>1. /\ s \in Seq(Item) /\ Len(s) = Len(q) - k + 1
      /\ \A i \in 1..Len(q) - k + 1 : s[i] = q[k + i - 1]
  OBVIOUS
<1> HIDE DEF s
<1>2. Among(s, q)
  <2> SUFFICES ASSUME NEW i \in 1..Len(s) PROVE \E j \in 1..Len(q) : s[i] = q[j]
    BY DEF Among
  <2>1. k + i - 1 \in 1..Len(q) /\ s[i] = q[k + i - 1]
    BY <1>1
  <2> QED
    BY <2>1
<1>3. ASSUME Rising(q) PROVE Rising(s)
  <2> SUFFICES ASSUME NEW i \in 1..Len(s), NEW j \in 1..Len(s), i < j
               PROVE  s[i].ticks < s[j].ticks
    BY DEF Rising
  <2>1. /\ k + i - 1 \in 1..Len(q) /\ k + j - 1 \in 1..Len(q) /\ k + i - 1 < k + j - 1
        /\ s[i] = q[k + i - 1] /\ s[j] = q[k + j - 1]
    BY <1>1
  <2> QED
    BY <1>3, <2>1 DEF Rising
<1> QED
  BY <1>1, <1>2, <1>3 DEF s

(* Collapsing keeps the whole queue or the newest item.                    *)
LEMMA CollapseFacts ==
  ASSUME NEW q \in Seq(Item)
  PROVE  /\ CollapseIfOverSpan(q) \in Seq(Item)
         /\ Among(CollapseIfOverSpan(q), q)
         /\ Rising(q) => Rising(CollapseIfOverSpan(q))
         /\ q = <<>> => CollapseIfOverSpan(q) = <<>>
<1>1. CASE CollapseIfOverSpan(q) = q
  BY <1>1 DEF Among
<1>2. CASE CollapseIfOverSpan(q) = <<q[Len(q)]>> /\ Len(q) > 1
  <2>1. /\ <<q[Len(q)]>> \in Seq(Item) /\ Len(<<q[Len(q)]>>) = 1
        /\ <<q[Len(q)]>>[1] = q[Len(q)] /\ Len(q) \in 1..Len(q)
    BY <1>2
  <2> QED
    BY <1>2, <2>1 DEF Among, Rising
<1> QED
  BY <1>1, <1>2 DEF CollapseIfOverSpan

(* Enqueueing drops items at the front only, and adds one at the end.      *)
LEMMA EnqueueFacts ==
  ASSUME NEW q \in Seq(Item), NEW item \in Item
  PROVE  \E s \in Seq(Item) :
           /\ Enqueue(q, item) = Append(s, item)
           /\ Among(s, q)
           /\ Rising(q) => Rising(s)
<1> DEFINE d == DropOldest(q)
<1>1. d \in Seq(Item) /\ Among(d, q) /\ (Rising(q) => Rising(d))
  <2>1. CASE Len(q) < MaxQueuedSamples
    BY <2>1 DEF DropOldest, Among
  <2>2. CASE ~(Len(q) < MaxQueuedSamples)
    <3>1. Len(q) - MaxQueuedSamples + 2 \in 1..Len(q) + 1
      BY <2>2, GazeAssumption DEF GazeAssumption
    <3> QED
      BY <2>2, <3>1, SuffixFacts DEF DropOldest
  <2> QED
    BY <2>1, <2>2
<1> HIDE DEF d
<1>2. CASE Enqueue(q, item) = Append(d, item)
  BY <1>1, <1>2
<1>3. CASE Enqueue(q, item) = <<item>>
  <2>1. <<>> \in Seq(Item) /\ Append(<<>>, item) = <<item>> /\ Among(<<>>, q) /\ Rising(<<>>)
    BY DEF Among, Rising
  <2> QED
    BY <1>3, <2>1
<1> QED
  BY <1>2, <1>3 DEF Enqueue, d

(* An item later than all others may go to the end. *)
LEMMA AppendRising ==
  ASSUME NEW s \in Seq(Item), NEW item \in Item, Rising(s),
         \A i \in 1..Len(s) : s[i].ticks < item.ticks
  PROVE  Append(s, item) \in Seq(Item) /\ Rising(Append(s, item))
BY DEF Rising

(* What is left when the first item is taken comes after it. *)
LEMMA TailFacts ==
  ASSUME NEW q \in Seq(Item), q # <<>>, Rising(q)
  PROVE  /\ q[1] \in Item /\ Tail(q) \in Seq(Item) /\ Rising(Tail(q)) /\ Among(Tail(q), q)
         /\ \A i \in 1..Len(Tail(q)) : q[1].ticks < Tail(q)[i].ticks
<1>1. /\ Len(q) > 0 /\ q[1] \in Item /\ Tail(q) \in Seq(Item) /\ Len(Tail(q)) = Len(q) - 1
      /\ \A i \in 1..Len(Tail(q)) : Tail(q)[i] = q[i + 1] /\ i + 1 \in 1..Len(q)
  OBVIOUS
<1> QED
  BY <1>1 DEF Rising, Among

(***************************************************************************)
(* The inductive invariant.  That the order is kept across the reading     *)
(* that is being converted outside the lock needs that it is of the        *)
(* current session or an earlier one, and that new readings are later than *)
(* all there are needs lastTicks as their upper bound, as long as there is *)
(* a tracker; without one no reading is taken.                             *)
(***************************************************************************)
Own(q) == \A i \in 1..Len(q) : q[i].session = sessionGeneration
Below(q, r) == \A i \in 1..Len(q), j \in 1..Len(r) : q[i].ticks < r[j].ticks
NotAfterLast(q) == \A i \in 1..Len(q) : q[i].ticks <= lastTicks

QueueTypes ==
  /\ sessionGeneration \in Nat /\ lastTicks \in Nat
  /\ pendingRawReadings \in Seq(Item)
  /\ pendingSamples \in Seq(Item)
  /\ main.at = "locating" => main.raw \in Item /\ main.raw.session <= sessionGeneration

QueueOrder ==
  /\ Rising(pendingSamples) /\ Rising(pendingRawReadings)
  /\ Own(pendingSamples) /\ Own(pendingRawReadings)
  /\ Below(pendingSamples, pendingRawReadings)
  /\ Below(pendingSamples, InConversion)
  /\ Below(InConversion, pendingRawReadings)

QueueBounds ==
  /\ tracker = 0 => pendingRawReadings = <<>>
  /\ tracker # 0 => /\ NotAfterLast(pendingSamples)
                    /\ NotAfterLast(InConversion)
                    /\ NotAfterLast(pendingRawReadings)

QueueInv == QueueTypes /\ QueueOrder /\ QueueBounds

(* InConversion is a queue of at most one reading of the active session. *)
LEMMA InConversionFacts ==
  ASSUME QueueTypes
  PROVE  /\ InConversion \in Seq(Item) /\ Rising(InConversion) /\ Own(InConversion)
         /\ InConversion # <<>> => /\ InConversion = <<main.raw>> /\ main.at = "locating"
                                   /\ main.raw.session = sessionGeneration
BY DEF InConversion, QueueTypes, Rising, Own

(* The queues are empty at first. *)
LEMMA QueueInit == Init => QueueInv
<1> SUFFICES ASSUME Init PROVE QueueInv
  OBVIOUS
<1>1. /\ pendingRawReadings = <<>> /\ pendingSamples = <<>> /\ sessionGeneration = 0
      /\ lastTicks = 0 /\ tracker = 0 /\ main.at = "idle"
  BY DEF Init, TrackerInit, Idle
<1>2. InConversion = <<>>
  BY <1>1 DEF InConversion
<1> QED
  BY <1>1, <1>2 DEF QueueInv, QueueTypes, QueueOrder, QueueBounds, Rising, Own, Below,
     NotAfterLast

(* Steps that leave the queues alone, and the reading in conversion too or *)
(* give it up.                                                             *)
LEMMA QueuesAlone ==
  ASSUME QueueInv, UNCHANGED <<queueVars, tracker, sessionGeneration>>,
         main' = main \/ main'.at # "locating"
  PROVE  QueueInv'
<1>1. CASE main' = main
  <2>1. InConversion' = InConversion
    BY <1>1 DEF InConversion
  <2> QED
    BY <1>1, <2>1 DEF QueueInv, QueueTypes, QueueOrder, QueueBounds, Rising, Own, Below,
       NotAfterLast, queueVars
<1>2. CASE main'.at # "locating"
  <2>1. InConversion' = <<>>
    BY <1>2 DEF InConversion
  <2>2. QueueTypes'
    BY <1>2 DEF QueueInv, QueueTypes, queueVars
  <2>3. QueueOrder'
    BY <2>1 DEF QueueInv, QueueOrder, Rising, Own, Below, queueVars
  <2>4. QueueBounds'
    BY <2>1 DEF QueueInv, QueueBounds, NotAfterLast, queueVars
  <2> QED
    BY <2>2, <2>3, <2>4 DEF QueueInv
<1> QED
  BY <1>1, <1>2

(* Steps that empty both: the tracker is cleared, or another one becomes   *)
(* active with a session of its own.                                       *)
LEMMA QueuesReset ==
  ASSUME QueueInv, ResetReadingPipeline, main' = main \/ main'.at # "locating",
         \/ tracker' = 0 /\ sessionGeneration' = sessionGeneration
         \/ sessionGeneration' = sessionGeneration + 1
  PROVE  QueueInv'
<1>1. /\ lastTicks' = 0 /\ pendingRawReadings' = <<>> /\ pendingSamples' = <<>>
      /\ sessionGeneration' \in Nat /\ sessionGeneration <= sessionGeneration'
  BY DEF ResetReadingPipeline, QueueInv, QueueTypes
<1>2. QueueTypes'
  <2>1. main'.at = "locating" => main'.raw \in Item /\ main'.raw.session <= sessionGeneration'
    <3>1. CASE main' = main
      BY <1>1, <3>1 DEF QueueInv, QueueTypes, Item
    <3> QED
      BY <3>1
  <2>2. <<>> \in Seq(Item)
    OBVIOUS
  <2> QED
    BY <1>1, <2>1, <2>2 DEF QueueTypes
<1>3. QueueOrder'
  BY <1>1 DEF QueueOrder, Rising, Own, Below
<1>4. tracker' # 0 => InConversion' = <<>>
  BY DEF InConversion, QueueInv, QueueTypes
<1>5. QueueBounds'
  BY <1>1, <1>4 DEF QueueBounds, NotAfterLast
<1> QED
  BY <1>2, <1>3, <1>5 DEF QueueInv

(* A reading taken from the SDK is later than every one on its way.        *)
LEMMA QueuesAccept ==
  ASSUME QueueInv, NEW reading \in Readings, AcceptReading(reading)
  PROVE  QueueInv'
<1>1. /\ reading.ticks \in Nat \ {0} /\ lastTicks < reading.ticks /\ lastTicks' = reading.ticks
      /\ tracker # 0 /\ tracker' = tracker
      /\ UNCHANGED <<sessionGeneration, pendingSamples, main>>
  BY GazeAssumption DEF GazeAssumption, AcceptReading, TryAccept, trackerVars, QueueInv, QueueTypes
<1>2. InConversion' = InConversion
  BY <1>1 DEF InConversion
<1>3. ASSUME NEW q \in Seq(Item), NotAfterLast(q) 
             PROVE  \A i \in 1..Len(q) : q[i].ticks < reading.ticks /\ q[i].ticks <= lastTicks'
  <2> TAKE i \in 1..Len(q)
  <2>1. q[i].ticks \in Nat /\ q[i].ticks <= lastTicks
    BY <1>3, ItemAt DEF NotAfterLast
  <2> QED
    BY <1>1, <2>1 DEF QueueInv, QueueTypes
<1>4. /\ NotAfterLast(pendingSamples)' /\ NotAfterLast(InConversion)'
  <2>1. /\ pendingSamples \in Seq(Item) /\ NotAfterLast(pendingSamples)
        /\ InConversion \in Seq(Item) /\ NotAfterLast(InConversion)
    BY <1>1, InConversionFacts DEF QueueInv, QueueTypes, QueueBounds
  <2> QED
    BY <1>1, <1>2, <1>3, <2>1 DEF NotAfterLast
<1>5. CASE pendingRawReadings' = pendingRawReadings
  <2>1. NotAfterLast(pendingRawReadings)'
    <3>1. pendingRawReadings \in Seq(Item) /\ NotAfterLast(pendingRawReadings)
      BY <1>1 DEF QueueInv, QueueTypes, QueueBounds
    <3> QED
      BY <1>3, <1>5, <3>1 DEF NotAfterLast
  <2>2. QueueOrder'
    BY <1>1, <1>2, <1>5 DEF QueueInv, QueueOrder, Rising, Own, Below
  <2>3. QueueTypes'
    BY <1>1, <1>5 DEF QueueInv, QueueTypes
  <2>4. QueueBounds'
    BY <1>1, <1>4, <2>1 DEF QueueBounds
  <2> QED
    BY <2>2, <2>3, <2>4 DEF QueueInv
<1>6. CASE pendingRawReadings' = Enqueue(pendingRawReadings,
             [session |-> sessionGeneration, ticks |-> reading.ticks, stamp |-> StampOf(reading)])
  <2> DEFINE item == [session |-> sessionGeneration, ticks |-> reading.ticks, stamp |-> StampOf(reading)]
  <2>1. item \in Item /\ item.session = sessionGeneration /\ item.ticks = reading.ticks
    BY <1>1 DEF Item, StampOf, QueueInv, QueueTypes
  <2> HIDE DEF item
  <2>2. PICK s \in Seq(Item) : /\ pendingRawReadings' = Append(s, item)
                               /\ Among(s, pendingRawReadings) /\ Rising(s)
    BY <1>6, <2>1, EnqueueFacts DEF item, QueueInv, QueueTypes, QueueOrder
  <2>3. \A i \in 1..Len(s) : /\ s[i].session = sessionGeneration /\ s[i].ticks < item.ticks
                             /\ s[i].ticks <= reading.ticks
    <3>1. /\ pendingRawReadings \in Seq(Item) /\ NotAfterLast(pendingRawReadings)
          /\ Own(pendingRawReadings)
      BY <1>1 DEF QueueInv, QueueTypes, QueueOrder, QueueBounds
    <3>2. \A j \in 1..Len(pendingRawReadings) :
            pendingRawReadings[j].ticks < reading.ticks /\ pendingRawReadings[j].ticks <= reading.ticks
      BY <1>1, <1>3, <3>1
    <3> QED
      BY <2>1, <2>2, <3>1, <3>2 DEF Among, Own
  <2>4. /\ pendingRawReadings' \in Seq(Item) /\ Rising(pendingRawReadings')
        /\ Len(pendingRawReadings') = Len(s) + 1
        /\ \A i \in 1..Len(s) : pendingRawReadings'[i] = s[i]
        /\ pendingRawReadings'[Len(s) + 1] = item
    BY <2>1, <2>2, <2>3, AppendRising
  <2>5. Own(pendingRawReadings)' /\ NotAfterLast(pendingRawReadings)'
    BY <1>1, <2>1, <2>3, <2>4 DEF Own, NotAfterLast
  <2>6. ASSUME NEW q \in Seq(Item), Below(q, pendingRawReadings), NotAfterLast(q)
        PROVE  Below(q, pendingRawReadings')
    <3> SUFFICES ASSUME NEW i \in 1..Len(q), NEW j \in 1..Len(s) + 1
                 PROVE  q[i].ticks < pendingRawReadings'[j].ticks
      BY <2>4 DEF Below
    <3>1. CASE j \in 1..Len(s)
      BY <2>2, <2>4, <2>6, <3>1 DEF Among, Below
    <3>2. CASE j = Len(s) + 1
      BY <1>3, <2>1, <2>4, <2>6, <3>2
    <3> QED
      BY <3>1, <3>2
  <2>7. Below(pendingSamples, pendingRawReadings') /\ Below(InConversion, pendingRawReadings')
    BY <1>1, <2>6, InConversionFacts DEF QueueInv, QueueTypes, QueueOrder, QueueBounds
  <2>8. QueueOrder'
    BY <1>1, <1>2, <2>4, <2>5, <2>7 DEF QueueInv, QueueOrder, Rising, Own, Below
  <2>9. QueueTypes' /\ QueueBounds'
    BY <1>1, <1>4, <2>4, <2>5 DEF QueueInv, QueueTypes, QueueBounds
  <2> QED
    BY <2>8, <2>9 DEF QueueInv
<1> QED
  BY <1>5, <1>6 DEF AcceptReading

(* TryGetNextSample takes the first of what is left of the samples.        *)
LEMMA WaitingFacts ==
  ASSUME QueueInv
  PROVE  /\ WaitingSamples \in Seq(Item) /\ Rising(WaitingSamples)
         /\ Among(WaitingSamples, pendingSamples)
BY CollapseFacts DEF WaitingSamples, QueueInv, QueueTypes, QueueOrder

(* A queue whose items are among those of another inherits its relations.  *)
LEMMA AmongInherits ==
  ASSUME NEW s \in Seq(Item), NEW q \in Seq(Item), Among(s, q)
  PROVE  /\ Own(q) => Own(s)
         /\ NotAfterLast(q) => NotAfterLast(s)
         /\ \A r \in Seq(Item) : (Below(q, r) => Below(s, r)) /\ (Below(r, q) => Below(r, s))
BY DEF Among, Own, NotAfterLast, Below

(* TryGetNextSample leaves the queues in order. *)
LEMMA QueuesReturn ==
  ASSUME QueueInv, ReturnSample
  PROVE  QueueInv'
<1>1. UNCHANGED <<tracker, sessionGeneration, lastTicks, pendingRawReadings, main>>
  BY DEF ReturnSample, trackerVars
<1>2. InConversion' = InConversion /\ InConversion \in Seq(Item)
  BY <1>1, InConversionFacts DEF InConversion, QueueInv
<1>3. /\ pendingSamples' \in Seq(Item) /\ Rising(pendingSamples')
      /\ Among(pendingSamples', pendingSamples)
  <2>1. CASE WaitingSamples = <<>>
    <3>1. pendingSamples' = <<>> /\ <<>> \in Seq(Item) /\ Len(<<>>) = 0
      BY <2>1 DEF ReturnSample
    <3> QED
      BY <3>1 DEF Rising, Among
  <2>2. CASE WaitingSamples # <<>>
    <3>1. /\ pendingSamples' = Tail(WaitingSamples)
          /\ Tail(WaitingSamples) \in Seq(Item) /\ Rising(Tail(WaitingSamples))
          /\ Among(Tail(WaitingSamples), WaitingSamples)
      BY <2>2, WaitingFacts, TailFacts DEF ReturnSample
    <3> QED
      BY <3>1, WaitingFacts DEF Among
  <2> QED
    BY <2>1, <2>2
<1>4. /\ Own(pendingSamples') /\ Below(pendingSamples', pendingRawReadings)
      /\ Below(pendingSamples', InConversion)
      /\ tracker # 0 => NotAfterLast(pendingSamples')
  BY <1>2, <1>3, AmongInherits DEF QueueInv, QueueTypes, QueueOrder, QueueBounds
<1>5. QueueTypes'
  BY <1>1, <1>3 DEF QueueInv, QueueTypes
<1>6. QueueOrder'
  BY <1>1, <1>2, <1>3, <1>4 DEF QueueInv, QueueOrder, Rising, Own, Below
<1>7. QueueBounds'
  BY <1>1, <1>2, <1>4 DEF QueueInv, QueueBounds, NotAfterLast
<1> QED
  BY <1>5, <1>6, <1>7 DEF QueueInv

(***************************************************************************)
(* The conversion on the main thread.                                      *)
(***************************************************************************)
(* Taking a raw reading for conversion leaves them in order. *)
LEMMA QueuesTake ==
  ASSUME QueueInv, TakeRawReading
  PROVE  QueueInv'
<1> DEFINE queue == CollapseIfOverSpan(pendingRawReadings)
<1>1. /\ UNCHANGED <<tracker, sessionGeneration, lastTicks, pendingSamples>>
      /\ main.at # "locating" /\ InConversion = <<>>
  BY DEF TakeRawReading, trackerVars, InConversion
<1>2. queue \in Seq(Item) /\ Among(queue, pendingRawReadings) /\ Rising(queue)
  BY CollapseFacts DEF QueueInv, QueueTypes, QueueOrder
<1>3. CASE queue = <<>>
  <2>1. UNCHANGED pendingRawReadings /\ main' = Idle
    BY <1>3 DEF TakeRawReading
  <2> QED
    BY <1>1, <2>1, QueuesAlone DEF Idle, queueVars
<1>4. CASE queue # <<>>
  <2>1. /\ pendingRawReadings' = Tail(queue)
        /\ main'.at = "locating" => main'.raw = queue[1] /\ OfThisSession(queue[1])
    BY <1>4 DEF TakeRawReading, GoOn, Idle
  <2> HIDE DEF queue
  <2>2. /\ queue[1] \in Item /\ Tail(queue) \in Seq(Item) /\ Rising(Tail(queue))
        /\ Among(Tail(queue), queue)
        /\ \A i \in 1..Len(Tail(queue)) : queue[1].ticks < Tail(queue)[i].ticks
    BY <1>2, <1>4, TailFacts
  <2>3. Among(Tail(queue), pendingRawReadings)
    BY <1>2, <2>2 DEF Among
  <2>4. /\ <<queue[1]>> \in Seq(Item) /\ Len(<<queue[1]>>) = 1 /\ <<queue[1]>>[1] = queue[1]
        /\ Among(<<queue[1]>>, pendingRawReadings)
    BY <1>2, <1>4, <2>2 DEF Among
  <2>5. InConversion' = <<>> \/ InConversion' = <<queue[1]>>
    BY <2>1 DEF InConversion
  <2>6. \A s \in {Tail(queue), <<queue[1]>>} :
          /\ Own(s) /\ Below(pendingSamples, s)
          /\ tracker # 0 => NotAfterLast(s)
    BY <2>2, <2>3, <2>4, AmongInherits DEF QueueInv, QueueTypes, QueueOrder, QueueBounds
  <2>7. QueueTypes'
    BY <1>1, <2>1, <2>2, <2>4, <2>6 DEF QueueInv, QueueTypes, OfThisSession, Item
  <2>8. Below(InConversion', Tail(queue)) /\ Below(pendingSamples, InConversion')
    <3>1. CASE InConversion' = <<>>
      BY <3>1 DEF Below
    <3>2. CASE InConversion' = <<queue[1]>>
      <4>1. Below(<<queue[1]>>, Tail(queue))
        BY <2>2, <2>4 DEF Below
      <4>2. Below(pendingSamples, <<queue[1]>>)
        BY <2>6
      <4> QED
        BY <3>2, <4>1, <4>2
    <3> QED
      BY <2>5, <3>1, <3>2
  <2>9. QueueOrder'
    BY <1>1, <2>1, <2>2, <2>6, <2>8 DEF QueueInv, QueueOrder, Rising, Own, Below
  <2>10. QueueBounds'
    <3>1. tracker # 0 => NotAfterLast(InConversion')
      BY <2>5, <2>6 DEF NotAfterLast
    <3>2. tracker = 0 => Tail(queue) = <<>>
      <4>1. ASSUME tracker = 0 PROVE FALSE
        <5>1. pendingRawReadings = <<>>
          BY <4>1 DEF QueueInv, QueueBounds
        <5> QED
          BY <1>4, <5>1, CollapseFacts DEF queue, QueueInv, QueueTypes
      <4> QED
        BY <4>1
    <3> QED
      BY <1>1, <2>1, <2>6, <3>1, <3>2 DEF QueueInv, QueueBounds, NotAfterLast
  <2> QED
    BY <2>7, <2>9, <2>10 DEF QueueInv
<1> QED
  BY <1>3, <1>4

(* So does the sample made of it, whose session is compared once more. *)
LEMMA QueuesLocated ==
  ASSUME QueueInv, Located
  PROVE  QueueInv'
<1>1. /\ UNCHANGED <<tracker, sessionGeneration, lastTicks, pendingRawReadings>>
      /\ main.at = "locating" /\ main'.at # "locating"
  BY DEF Located, trackerVars, GoOn, Idle
<1>2. CASE ~OfThisSession(main.raw)
  <2>1. UNCHANGED pendingSamples
    BY <1>2 DEF Located
  <2> QED
    BY <1>1, <2>1, QueuesAlone DEF queueVars
<1>3. CASE OfThisSession(main.raw)
  <2> DEFINE item == main.raw
  <2>1. /\ item \in Item /\ item.session = sessionGeneration /\ InConversion = <<item>>
        /\ Len(<<item>>) = 1 /\ <<item>>[1] = item
    BY <1>1, <1>3 DEF QueueInv, QueueTypes, OfThisSession, InConversion
  <2>2. pendingSamples' = Enqueue(pendingSamples, item)
    BY <1>3 DEF Located
  <2> HIDE DEF item
  <2>3. PICK s \in Seq(Item) : /\ pendingSamples' = Append(s, item)
                               /\ Among(s, pendingSamples) /\ Rising(s)
    BY <2>1, <2>2, EnqueueFacts DEF QueueInv, QueueTypes, QueueOrder
  <2>4. /\ Own(s) /\ Below(s, pendingRawReadings) /\ Below(s, <<item>>)
        /\ tracker # 0 => NotAfterLast(s)
    <3>1. <<item>> \in Seq(Item)
      BY <2>1
    <3> QED
      BY <2>1, <2>3, <3>1, AmongInherits DEF QueueInv, QueueTypes, QueueOrder, QueueBounds
  <2>5. \A i \in 1..Len(s) : s[i].ticks < item.ticks
    BY <2>1, <2>4 DEF Below
  <2>6. /\ pendingSamples' \in Seq(Item) /\ Rising(pendingSamples')
        /\ Len(pendingSamples') = Len(s) + 1
        /\ \A i \in 1..Len(s) : pendingSamples'[i] = s[i]
        /\ pendingSamples'[Len(s) + 1] = item
    BY <2>1, <2>3, <2>5, AppendRising
  <2>7. InConversion' = <<>>
    BY <1>1 DEF InConversion
  <2>8. \A j \in 1..Len(pendingRawReadings) : item.ticks < pendingRawReadings[j].ticks
    BY <2>1 DEF QueueInv, QueueOrder, Below
  <2>9. tracker # 0 => item.ticks <= lastTicks
    BY <2>1 DEF QueueInv, QueueBounds, NotAfterLast
  <2>10. \A i \in 1..Len(pendingSamples') :
           pendingSamples'[i] = item \/ \E k \in 1..Len(s) : pendingSamples'[i] = s[k]
    BY <2>6
  <2>11. Own(pendingSamples') /\ Below(pendingSamples', pendingRawReadings)
    BY <2>1, <2>4, <2>8, <2>10 DEF Own, Below
  <2>12. tracker # 0 => NotAfterLast(pendingSamples')
    BY <2>4, <2>9, <2>10 DEF NotAfterLast
  <2>13. QueueTypes'
    BY <1>1, <2>6 DEF QueueInv, QueueTypes
  <2>14. QueueOrder'
    BY <1>1, <2>6, <2>7, <2>11 DEF QueueInv, QueueOrder, Rising, Own, Below
  <2>15. QueueBounds'
    BY <1>1, <2>7, <2>12 DEF QueueInv, QueueBounds, NotAfterLast
  <2> QED
    BY <2>13, <2>14, <2>15 DEF QueueInv
<1> QED
  BY <1>2, <1>3

(***************************************************************************)
(* Every step of the system is one of these to the queues.                 *)
(***************************************************************************)
LeavesQueues ==
  /\ UNCHANGED <<queueVars, tracker, sessionGeneration>>
  /\ main' = main \/ main'.at # "locating"

EmptiesQueues ==
  /\ ResetReadingPipeline
  /\ main' = main \/ main'.at # "locating"
  /\ \/ tracker' = 0 /\ sessionGeneration' = sessionGeneration
     \/ sessionGeneration' = sessionGeneration + 1

QueueStep ==
  \/ LeavesQueues \/ EmptiesQueues
  \/ \E reading \in Readings : AcceptReading(reading)
  \/ ReturnSample \/ TakeRawReading \/ Located

(* Stopping the watcher and the tracker empties both, and so does a        *)
(* restart, if it is not refused.                                          *)
LEMMA StopEmpties ==
  ASSUME main' = main \/ main'.at # "locating"
  PROVE  /\ StopWatcherAndTracker => EmptiesQueues
         /\ RestartTrackingSession => LeavesQueues \/ EmptiesQueues
BY DEF StopWatcherAndTracker, ClearActiveTracker, RestartTrackingSession, LeavesQueues,
   EmptiesQueues, trackerVars

(* The steps of the provider. *)
LEMMA TrackerQueueStep == TrackerNext => QueueStep
<1>1. ASSUME NEW which \in {"first", "restart"}, NEW good \in BOOLEAN,
             AccessAnswered(which, good)
      PROVE  LeavesQueues
  BY <1>1 DEF AccessAnswered, LeavesQueues
<1>2. ASSUME NEW which \in {"first", "restart"}, NEW good \in BOOLEAN,
             StartAnswered(which, good)
      PROVE  LeavesQueues \/ EmptiesQueues
  BY <1>2, StopEmpties DEF StartAnswered, trackerVars, LeavesQueues
<1>3. ASSUME NEW w \in 1..lastWatcher, OnTrackerAdded(w) PROVE LeavesQueues
  BY <1>3 DEF OnTrackerAdded, LeavesQueues
<1>4. ASSUME NEW w \in 1..lastWatcher, NEW t \in 1..lastTracker, OnTrackerRemoved(w, t)
      PROVE  LeavesQueues \/ EmptiesQueues
  BY <1>4 DEF OnTrackerRemoved, ClearActiveTracker, trackerVars, LeavesQueues, EmptiesQueues
<1>5. ASSUME NEW open \in opens, NEW usable \in BOOLEAN, OpenAnswered(open, usable)
      PROVE  LeavesQueues \/ EmptiesQueues
  BY <1>5 DEF OpenAnswered, LeavesQueues, EmptiesQueues
<1>6. CASE LocateThrows
  BY <1>6, StopEmpties DEF LocateThrows, Idle, QueueStep
<1>7. CASE DestroyProvider
  BY <1>7, StopEmpties DEF DestroyProvider, QueueStep
<1> QED
  BY <1>1, <1>2, <1>3, <1>4, <1>5, <1>6, <1>7 DEF TrackerNext, QueueStep

(* The steps of the thread. *)
LEMMA WorkerQueueStep == WorkerStep => QueueStep
<1>1. CASE SeeStopSignal \/ Publish \/ PublishThrows
  BY <1>1 DEF SeeStopSignal, Publish, PublishThrows, trackerStateVars, trackerVars,
     QueueStep, LeavesQueues
<1>2. CASE \E reading \in Readings : Read(reading)
  BY <1>2 DEF Read, QueueStep
<1>3. CASE \E sdkFails \in BOOLEAN : Receive(sdkFails)
  BY <1>3 DEF Receive, QueueStep
<1> QED
  BY <1>1, <1>2, <1>3 DEF WorkerStep

(* The steps of the outlet. *)
LEMMA OutletQueueStep == OutletStep => QueueStep
<1>1. CASE UpdateStops \/ StopTimesOut \/ DestroyOutlet
  BY <1>1 DEF UpdateStops, StopTimesOut, DestroyOutlet, BeginStop, trackerVars, Idle,
     QueueStep, LeavesQueues
<1>2. CASE \E opens_ \in BOOLEAN : UpdateStarts(opens_)
  BY <1>2 DEF UpdateStarts, trackerStateVars, trackerVars, QueueStep, LeavesQueues
<1>3. CASE \E opens_ \in BOOLEAN : Stopped(opens_)
  <2>1. main'.at # "locating"
    BY <1>3 DEF Stopped, Idle
  <2>2. RestartTrackingSession \/ UNCHANGED <<watcherVars, trackerVars, queueVars>>
    BY <1>3 DEF Stopped
  <2> QED
    BY <2>1, <2>2, StopEmpties DEF trackerVars, LeavesQueues, QueueStep
<1> QED
  BY <1>1, <1>2, <1>3 DEF OutletStep

(* Together. *)
LEMMA EveryQueueStep == [Next]_vars => QueueStep
<1>1. UNCHANGED vars => QueueStep
  BY DEF vars, trackerStateVars, trackerVars, LeavesQueues, QueueStep
<1> QED
  BY <1>1, TrackerQueueStep, WorkerQueueStep, OutletQueueStep DEF Next

(* So the queues stay in order. *)
LEMMA QueueNext == QueueInv /\ [Next]_vars => QueueInv'
BY EveryQueueStep, QueuesAlone, QueuesReset, QueuesAccept, QueuesReturn, QueuesTake,
   QueuesLocated DEF QueueStep, LeavesQueues, EmptiesQueues

(* Rising queues, one below the other, form a rising queue.                *)
LEMMA ConcatFacts ==
  ASSUME NEW q \in Seq(Item), NEW r \in Seq(Item), Rising(q), Rising(r), Below(q, r),
         Own(q), Own(r)
  PROVE  q \o r \in Seq(Item) /\ Rising(q \o r) /\ Own(q \o r)
<1> DEFINE c == q \o r
<1>1. /\ c \in Seq(Item) /\ Len(c) = Len(q) + Len(r)
      /\ \A i \in 1..Len(c) : c[i] = IF i <= Len(q) THEN q[i] ELSE r[i - Len(q)]
  OBVIOUS
<1>2. Len(q) \in Nat /\ Len(r) \in Nat
  OBVIOUS
<1> HIDE DEF c
<1>3. ASSUME NEW i \in 1..Len(c), i <= Len(q)
      PROVE  i \in 1..Len(q) /\ c[i] = q[i]
  BY <1>1, <1>2, <1>3
<1>4. ASSUME NEW i \in 1..Len(c), Len(q) < i
      PROVE  i - Len(q) \in 1..Len(r) /\ c[i] = r[i - Len(q)]
  BY <1>1, <1>2, <1>4
<1>5. Own(c)
  <2> SUFFICES ASSUME NEW i \in 1..Len(c) PROVE c[i].session = sessionGeneration
    BY DEF Own
  <2>1. CASE i <= Len(q)
    BY <1>3, <2>1 DEF Own
  <2>2. CASE Len(q) < i
    BY <1>4, <2>2 DEF Own
  <2> QED
    BY <1>2, <2>1, <2>2
<1>6. Rising(c)
  <2> SUFFICES ASSUME NEW i \in 1..Len(c), NEW j \in 1..Len(c), i < j
               PROVE  c[i].ticks < c[j].ticks
    BY DEF Rising
  <2>1. CASE j <= Len(q)
    <3>1. i \in 1..Len(q) /\ j \in 1..Len(q) /\ c[i] = q[i] /\ c[j] = q[j]
      <4>1. i <= Len(q)
        BY <1>2, <2>1
      <4> QED
        BY <1>3, <2>1, <4>1
    <3> QED
      BY <3>1 DEF Rising
  <2>2. CASE i <= Len(q) /\ Len(q) < j
    <3>1. /\ i \in 1..Len(q) /\ j - Len(q) \in 1..Len(r)
          /\ c[i] = q[i] /\ c[j] = r[j - Len(q)]
      BY <1>3, <1>4, <2>2
    <3> QED
      BY <3>1 DEF Below
  <2>3. CASE Len(q) < i
    <3>1. /\ i - Len(q) \in 1..Len(r) /\ c[i] = r[i - Len(q)]
      BY <1>4, <2>3
    <3>2. /\ j - Len(q) \in 1..Len(r) /\ c[j] = r[j - Len(q)]
      <4>1. Len(q) < j
        BY <1>2, <2>3
      <4> QED
        BY <1>4, <4>1
    <3>3. i - Len(q) < j - Len(q)
      BY <1>2
    <3> QED
      BY <3>1, <3>2, <3>3 DEF Rising
  <2> QED
    BY <1>2, <2>1, <2>2, <2>3
<1> QED
  BY <1>1, <1>5, <1>6 DEF c

(* Two queues below a third one are below it when they are joined. *)
LEMMA ConcatBelow ==
  ASSUME NEW p \in Seq(Item), NEW q \in Seq(Item), NEW r \in Seq(Item), Below(p, r), Below(q, r)
  PROVE  Below(p \o q, r)
<1> DEFINE c == p \o q
<1>1. /\ Len(c) = Len(p) + Len(q)
      /\ \A i \in 1..Len(c) : c[i] = IF i <= Len(p) THEN p[i] ELSE q[i - Len(p)]
  OBVIOUS
<1> HIDE DEF c
<1> SUFFICES ASSUME NEW i \in 1..Len(c), NEW j \in 1..Len(r)
             PROVE  c[i].ticks < r[j].ticks
  BY DEF Below, c
<1>2. CASE i <= Len(p)
  <2>1. i \in 1..Len(p) /\ c[i] = p[i]
    BY <1>1, <1>2
  <2> QED
    BY <2>1 DEF Below
<1>3. CASE Len(p) < i
  <2>1. i - Len(p) \in 1..Len(q) /\ c[i] = q[i - Len(p)]
    BY <1>1, <1>3
  <2> QED
    BY <2>1 DEF Below
<1> QED
  BY <1>1, <1>2, <1>3

(* Nothing of an old tracker session is in the queues, and what is there   *)
(* is in the order of its capture, whatever the SDK, the publisher and     *)
(* Unity do to each other.                                                 *)
THEOREM QueuesStayInOrder == Spec => []QueuesInOrder
<1>1. QueueInv => QueuesInOrder
  <2> SUFFICES ASSUME QueueInv PROVE QueuesInOrder
    OBVIOUS
  <2>1. /\ pendingSamples \in Seq(Item) /\ pendingRawReadings \in Seq(Item)
        /\ InConversion \in Seq(Item) /\ Rising(InConversion) /\ Own(InConversion)
    BY InConversionFacts DEF QueueInv, QueueTypes
  <2>2. QueueOrder
    BY DEF QueueInv
  <2> DEFINE front == pendingSamples \o InConversion
  <2>3. front \in Seq(Item) /\ Rising(front) /\ Own(front)
    BY <2>1, <2>2, ConcatFacts DEF QueueOrder
  <2>4. Below(front, pendingRawReadings)
    BY <2>1, <2>2, ConcatBelow DEF QueueOrder
  <2>5. /\ front \o pendingRawReadings \in Seq(Item)
        /\ Rising(front \o pendingRawReadings) /\ Own(front \o pendingRawReadings)
    BY <2>1, <2>2, <2>3, <2>4, ConcatFacts DEF QueueOrder
  <2>6. OnTheWay = front \o pendingRawReadings
    BY <2>1 DEF OnTheWay
  <2> HIDE DEF front
  <2>7. ASSUME NEW i \in 1..Len(OnTheWay), i > 1
        PROVE  OnTheWay[i - 1].ticks < OnTheWay[i].ticks
    <3>1. Len(OnTheWay) \in Nat
      BY <2>5, <2>6
    <3>2. i - 1 \in 1..Len(OnTheWay) /\ i - 1 < i
      BY <2>7, <3>1
    <3> QED
      BY <2>5, <2>6, <3>2 DEF Rising
  <2> QED
    BY <2>5, <2>6, <2>7 DEF QueuesInOrder, Own
<1> QED
  BY <1>1, QueueInit, QueueNext, PTL DEF Spec

(***************************************************************************)
(* What has been sent, or is about to be, comes before all that is on its  *)
(* way: Past is the set of samples of which this can be said.  It only     *)
(* grows, since what is on its way was so before, or is later than         *)
(* lastTicks, or belongs to a new session.                                 *)
(***************************************************************************)
Sent == [session : Nat, ticks : Nat, stamp : Nat]
Items(q) == {q[i] : i \in 1..Len(q)}
Ahead == Items(pendingSamples) \cup Items(InConversion) \cup Items(pendingRawReadings)

Past ==
  {s \in Sent :
    /\ s.session <= sessionGeneration
    /\ s.session = sessionGeneration =>
         /\ \A a \in Ahead : s.ticks < a.ticks
         /\ tracker # 0 => s.ticks <= lastTicks}

Advances ==
  \/ sessionGeneration' = sessionGeneration + 1
  \/ /\ sessionGeneration' = sessionGeneration
     /\ tracker' # 0 => tracker # 0 /\ lastTicks <= lastTicks'
     /\ \A a \in Ahead' :
          a \in Ahead \/ (tracker # 0 /\ a.ticks \in Nat /\ lastTicks < a.ticks)

(* Everything ahead is an item of the active session. *)
LEMMA AheadItems ==
  ASSUME QueueInv
  PROVE  \A a \in Ahead : a \in Item /\ a.session = sessionGeneration
BY InConversionFacts DEF QueueInv, QueueTypes, QueueOrder, Ahead, Items, Own

(* Past keeps what it has. *)
LEMMA PastGrows ==
  ASSUME QueueInv, QueueInv', Advances
  PROVE  Past \subseteq Past'
<1>1. sessionGeneration \in Nat /\ lastTicks \in Nat /\ lastTicks' \in Nat
  BY DEF QueueInv, QueueTypes
<1> SUFFICES ASSUME NEW s \in Past PROVE s \in Past'
  OBVIOUS
<1>3. /\ s \in Sent /\ s.session \in Nat /\ s.ticks \in Nat
      /\ s.session <= sessionGeneration
      /\ s.session = sessionGeneration =>
           /\ \A a \in Ahead : s.ticks < a.ticks
           /\ tracker # 0 => s.ticks <= lastTicks
  BY DEF Past, Sent
<1> QED
  BY <1>1, <1>3 DEF Past, Advances

(* Steps that leave the queues alone add nothing to them. *)
LEMMA LeavesAdvances ==
  ASSUME QueueInv, LeavesQueues
  PROVE  Advances
<1>1. InConversion' = InConversion \/ InConversion' = <<>>
  BY DEF LeavesQueues, InConversion
<1>2. Items(<<>>) = {}
  BY DEF Items
<1>3. Ahead' \subseteq Ahead
  BY <1>1, <1>2 DEF Ahead, LeavesQueues, queueVars, Items
<1>4. lastTicks <= lastTicks
  BY DEF QueueInv, QueueTypes
<1> QED
  BY <1>3, <1>4 DEF Advances, LeavesQueues, queueVars

(* Steps that empty them keep a reading in conversion at most. *)
LEMMA EmptiesAdvances ==
  ASSUME QueueInv, EmptiesQueues
  PROVE  Advances
<1>1. CASE sessionGeneration' = sessionGeneration + 1
  BY <1>1 DEF Advances
<1>2. CASE tracker' = 0 /\ sessionGeneration' = sessionGeneration
  <2>1. InConversion' = InConversion \/ InConversion' = <<>>
    BY <1>2 DEF EmptiesQueues, InConversion
  <2>2. Items(<<>>) = {}
    BY DEF Items
  <2>3. Ahead' \subseteq Ahead
    BY <2>1, <2>2 DEF Ahead, EmptiesQueues, ResetReadingPipeline, Items
  <2> QED
    BY <1>2, <2>3 DEF Advances
<1> QED
  BY <1>1, <1>2 DEF EmptiesQueues

(* A reading accepted is later than lastTicks. *)
LEMMA AcceptAdvances ==
  ASSUME QueueInv, NEW reading \in Readings, AcceptReading(reading)
  PROVE  Advances
<1>1. /\ reading.ticks \in Nat \ {0} /\ lastTicks < reading.ticks /\ lastTicks' = reading.ticks
      /\ lastTicks \in Nat /\ sessionGeneration \in Nat /\ pendingRawReadings \in Seq(Item)
      /\ tracker # 0 /\ tracker' = tracker
      /\ UNCHANGED <<sessionGeneration, pendingSamples, main>>
  BY GazeAssumption DEF GazeAssumption, AcceptReading, TryAccept, trackerVars, QueueInv, QueueTypes
<1>2. InConversion' = InConversion
  BY <1>1 DEF InConversion
<1>3. \A a \in Items(pendingRawReadings') : a \in Items(pendingRawReadings) \/ a.ticks = reading.ticks
  <2> DEFINE item == [session |-> sessionGeneration, ticks |-> reading.ticks, stamp |-> StampOf(reading)]
  <2>1. item \in Item /\ item.ticks = reading.ticks
    BY <1>1 DEF Item, StampOf
  <2>2. \/ pendingRawReadings' = pendingRawReadings
        \/ pendingRawReadings' = Enqueue(pendingRawReadings, item)
    BY DEF AcceptReading
  <2> HIDE DEF item
  <2>3. CASE pendingRawReadings' = Enqueue(pendingRawReadings, item)
    <3>1. PICK s \in Seq(Item) : /\ pendingRawReadings' = Append(s, item)
                                 /\ Among(s, pendingRawReadings)
      BY <1>1, <2>1, <2>3, EnqueueFacts
    <3>2. \A i \in 1..Len(Append(s, item)) :
            Append(s, item)[i] = item \/ \E k \in 1..Len(s) : Append(s, item)[i] = s[k]
      BY <2>1
    <3> QED
      BY <2>1, <3>1, <3>2 DEF Among, Items
  <2> QED
    BY <2>2, <2>3 DEF Items
<1>4. \A a \in Ahead' : a \in Ahead \/ a.ticks = reading.ticks
  BY <1>1, <1>2, <1>3 DEF Ahead, Items
<1> QED
  BY <1>1, <1>4 DEF Advances

(* The publisher takes a sample away. *)
LEMMA ReturnAdvances ==
  ASSUME QueueInv, ReturnSample
  PROVE  Advances
<1>1. /\ UNCHANGED <<tracker, sessionGeneration, lastTicks, pendingRawReadings, main>>
      /\ lastTicks \in Nat
  BY DEF ReturnSample, trackerVars, QueueInv, QueueTypes
<1>2. InConversion' = InConversion
  BY <1>1 DEF InConversion
<1>3. Items(pendingSamples') \subseteq Items(pendingSamples)
  <2>1. CASE WaitingSamples = <<>>
    BY <2>1 DEF ReturnSample, Items
  <2>2. CASE WaitingSamples # <<>>
    <3>1. pendingSamples' = Tail(WaitingSamples) /\ Among(Tail(WaitingSamples), WaitingSamples)
      BY <2>2, WaitingFacts, TailFacts DEF ReturnSample
    <3> QED
      BY <3>1, WaitingFacts DEF Among, Items
  <2> QED
    BY <2>1, <2>2
<1>4. Ahead' \subseteq Ahead
  BY <1>1, <1>2, <1>3 DEF Ahead
<1>5. lastTicks <= lastTicks
  BY <1>1
<1> QED
  BY <1>1, <1>4, <1>5 DEF Advances

(* A raw reading becomes the one in conversion. *)
LEMMA TakeAdvances ==
  ASSUME QueueInv, TakeRawReading
  PROVE  Advances
<1> DEFINE queue == CollapseIfOverSpan(pendingRawReadings)
<1>1. /\ UNCHANGED <<tracker, sessionGeneration, lastTicks, pendingSamples>>
      /\ lastTicks \in Nat /\ pendingRawReadings \in Seq(Item)
      /\ main.at # "locating"
  BY DEF TakeRawReading, trackerVars, QueueInv, QueueTypes
<1>2. queue \in Seq(Item) /\ Among(queue, pendingRawReadings) /\ Rising(queue)
  BY CollapseFacts DEF QueueInv, QueueTypes, QueueOrder
<1>3. Items(<<>>) = {}
  BY DEF Items
<1>4. CASE queue = <<>>
  BY <1>1, <1>3, <1>4 DEF TakeRawReading, Idle, InConversion, Advances, Ahead, Items
<1>5. CASE queue # <<>>
  <2>1. /\ pendingRawReadings' = Tail(queue)
        /\ main'.at = "locating" => main'.raw = queue[1]
    BY <1>5 DEF TakeRawReading, GoOn, Idle
  <2> HIDE DEF queue
  <2>2. Among(Tail(queue), queue) /\ queue[1] \in Items(queue)
    BY <1>2, <1>5, TailFacts DEF Items
  <2>3. Items(pendingRawReadings') \subseteq Items(pendingRawReadings)
    BY <1>2, <2>1, <2>2 DEF Among, Items
  <2>4. Items(InConversion') \subseteq Items(pendingRawReadings)
    <3>1. InConversion' = <<>> \/ InConversion' = <<queue[1]>>
      BY <2>1 DEF InConversion
    <3>2. Items(<<queue[1]>>) = {queue[1]}
      BY DEF Items
    <3>3. queue[1] \in Items(pendingRawReadings)
      BY <1>2, <2>2 DEF Among, Items
    <3> QED
      BY <1>3, <3>1, <3>2, <3>3
  <2>5. Items(pendingSamples') = Items(pendingSamples)
    BY <1>1 DEF Items
  <2> QED
    BY <1>1, <2>3, <2>4, <2>5 DEF Advances, Ahead
<1> QED
  BY <1>4, <1>5

(* The one in conversion becomes a sample. *)
LEMMA LocatedAdvances ==
  ASSUME QueueInv, Located
  PROVE  Advances
<1>1. /\ UNCHANGED <<tracker, sessionGeneration, lastTicks, pendingRawReadings>>
      /\ lastTicks \in Nat /\ pendingSamples \in Seq(Item)
      /\ main.at = "locating" /\ main.raw \in Item /\ InConversion' = <<>>
  BY DEF Located, trackerVars, GoOn, Idle, QueueInv, QueueTypes, InConversion
<1>2. Items(<<>>) = {}
  BY DEF Items
<1>3. Items(pendingSamples') \subseteq Items(pendingSamples) \cup Items(InConversion)
  <2>1. CASE ~OfThisSession(main.raw)
    BY <2>1 DEF Located, Items
  <2>2. CASE OfThisSession(main.raw)
    <3>1. pendingSamples' = Enqueue(pendingSamples, main.raw) /\ InConversion = <<main.raw>>
      BY <1>1, <2>2 DEF Located, OfThisSession, InConversion
    <3>2. PICK s \in Seq(Item) : /\ pendingSamples' = Append(s, main.raw)
                                 /\ Among(s, pendingSamples)
      BY <1>1, <3>1, EnqueueFacts
    <3>3. \A i \in 1..Len(Append(s, main.raw)) :
            \/ Append(s, main.raw)[i] = main.raw
            \/ \E k \in 1..Len(s) : Append(s, main.raw)[i] = s[k]
      BY <1>1
    <3>4. main.raw \in Items(<<main.raw>>)
      BY DEF Items
    <3> QED
      BY <3>1, <3>2, <3>3, <3>4 DEF Among, Items
  <2> QED
    BY <2>1, <2>2
<1>4. Ahead' \subseteq Ahead
  BY <1>1, <1>2, <1>3 DEF Ahead, Items
<1> QED
  BY <1>1, <1>4 DEF Advances

(* Every step. *)
LEMMA PastNext ==
  ASSUME QueueInv, [Next]_vars
  PROVE  Past \subseteq Past' /\ sessionGeneration' \in Nat /\ sessionGeneration <= sessionGeneration'
<1>1. QueueInv' /\ Advances
  BY QueueNext, EveryQueueStep, LeavesAdvances, EmptiesAdvances, AcceptAdvances,
     ReturnAdvances, TakeAdvances, LocatedAdvances DEF QueueStep
<1> QED
  BY <1>1, PastGrows DEF QueueInv, QueueTypes, Advances


(***************************************************************************)
(* What leaves.                                                            *)
(***************************************************************************)
SentInv ==
  /\ DOMAIN thread = DOMAIN NoThread
  /\ lastPushed \in Past
  /\ outletSession \in Nat /\ outletSession <= sessionGeneration
  /\ main.at = "stopping" => main.session \in Nat /\ main.session <= sessionGeneration
  /\ thread.at = "pushing" =>
       /\ thread.sample \in Past
       /\ Later(thread.sample, lastPushed)
       /\ thread.sample.session >= outletSession

(* The sample that the publisher receives is later than the last one sent. *)
LEMMA ReceiveKeepsOrder ==
  ASSUME QueueInv, SentInv, QueueInv', NEW sdkFails \in BOOLEAN, Receive(sdkFails)
  PROVE  SentInv'
<1>1. /\ UNCHANGED <<outletVars, lastPushed, sessionGeneration, main, tracker, lastTicks,
                     pendingRawReadings>>
      /\ ReturnSample
  BY DEF Receive, ReturnSample, trackerVars
<1>2. lastPushed' \in Past' /\ Past \subseteq Past'
  BY <1>1, ReturnAdvances, PastGrows DEF SentInv
<1>3. /\ DOMAIN thread' = DOMAIN NoThread
      /\ thread'.at = "pushing" => /\ WaitingSamples # <<>>
                                   /\ thread'.sample = WaitingSamples[1]
  BY DEF Receive, SentInv, NoThread
<1>4. ASSUME thread'.at = "pushing"
      PROVE  /\ thread'.sample \in Past' /\ Later(thread'.sample, lastPushed)
             /\ thread'.sample.session >= outletSession
  <2> DEFINE item == WaitingSamples[1]
  <2>1. /\ item \in Item /\ Tail(WaitingSamples) \in Seq(Item)
        /\ 1 \in 1..Len(WaitingSamples)
        /\ \A i \in 1..Len(Tail(WaitingSamples)) : item.ticks < Tail(WaitingSamples)[i].ticks
    BY <1>3, <1>4, WaitingFacts, TailFacts
  <2>2. pendingSamples' = Tail(WaitingSamples)
    BY <1>3, <1>4 DEF ReturnSample, Receive
  <2>3. PICK j \in 1..Len(pendingSamples) : item = pendingSamples[j]
    BY <2>1, WaitingFacts DEF Among
  <2> HIDE DEF item
  <2>4. item.session = sessionGeneration /\ item \in Ahead
    BY <2>3 DEF QueueInv, QueueOrder, Own, Ahead, Items
  <2>5. Later(item, lastPushed)
    <3>1. /\ lastPushed.session \in Nat /\ lastPushed.ticks \in Nat
          /\ lastPushed.session <= sessionGeneration
          /\ lastPushed.session = sessionGeneration => lastPushed.ticks < item.ticks
      BY <2>4 DEF SentInv, Past, Sent
    <3>2. item.session \in Nat /\ item.ticks \in Nat
      BY <2>1 DEF Item
    <3> QED
      BY <2>4, <3>1, <3>2 DEF Later
  <2>6. \A a \in Ahead' : item.ticks < a.ticks
    <3>1. InConversion' = InConversion
      BY <1>1 DEF InConversion
    <3>2. \A a \in Items(pendingSamples') : item.ticks < a.ticks
      BY <2>1, <2>2 DEF Items
    <3>3. \A a \in Items(InConversion) \cup Items(pendingRawReadings) : item.ticks < a.ticks
      BY <2>3 DEF QueueInv, QueueOrder, Below, Items
    <3> QED
      BY <1>1, <3>1, <3>2, <3>3 DEF Ahead
  <2>7. tracker # 0 => item.ticks <= lastTicks
    BY <2>3 DEF QueueInv, QueueBounds, NotAfterLast
  <2>8. item \in Past'
    BY <1>1, <2>1, <2>4, <2>6, <2>7 DEF Past, Item, Sent, QueueInv, QueueTypes
  <2> QED
    BY <1>3, <1>4, <2>4, <2>5, <2>8 DEF SentInv, item
<1> QED
  BY <1>1, <1>2, <1>3, <1>4 DEF SentInv, outletVars

(* The other steps of the thread. *)
LEMMA WorkerKeepsOrder ==
  ASSUME QueueInv, SentInv, QueueInv', [Next]_vars, WorkerStep
  PROVE  SentInv'
<1>1. /\ Past \subseteq Past' /\ sessionGeneration' = sessionGeneration
      /\ UNCHANGED <<outletSession, main>>
  BY PastNext DEF WorkerStep, SeeStopSignal, Read, Receive, Publish, PublishThrows,
     outletVars, publisherVars, trackerStateVars, trackerVars, AcceptReading, ReturnSample
<1>2. CASE Publish
  <2>1. /\ lastPushed' = thread.sample \/ lastPushed' = lastPushed
        /\ thread.sample \in Past
    BY <1>2 DEF Publish, SentInv
  <2>2. DOMAIN thread' = DOMAIN NoThread /\ thread'.at # "pushing"
    BY <1>2 DEF Publish, SentInv, NoThread
  <2> QED
    BY <1>1, <2>1, <2>2 DEF SentInv
<1>3. CASE SeeStopSignal \/ PublishThrows
  <2>1. DOMAIN thread' = DOMAIN NoThread /\ thread'.at # "pushing" /\ lastPushed' = lastPushed
    BY <1>3 DEF SeeStopSignal, PublishThrows, SentInv, NoThread
  <2> QED
    BY <1>1, <2>1 DEF SentInv
<1>4. CASE \E reading \in Readings : Read(reading)
  <2>1. thread' = thread /\ lastPushed' = lastPushed
    BY <1>4 DEF Read, publisherVars
  <2> QED
    BY <1>1, <2>1 DEF SentInv
<1> QED
  BY <1>2, <1>3, <1>4, ReceiveKeepsOrder DEF WorkerStep

(* The outlet starts a thread for a session that there is, or was.         *)
LEMMA OutletKeepsOrder ==
  ASSUME QueueInv, SentInv, [Next]_vars, OutletStep
  PROVE  SentInv'
<1>1. /\ Past \subseteq Past' /\ lastPushed' = lastPushed
      /\ sessionGeneration \in Nat /\ sessionGeneration' = sessionGeneration
  BY PastNext DEF QueueInv, QueueTypes, OutletStep, UpdateStops, UpdateStarts, StopTimesOut,
     Stopped, DestroyOutlet, RestartTrackingSession, StopWatcherAndTracker, trackerVars,
     trackerStateVars, publisherVars
<1>2. CASE \E opens_ \in BOOLEAN : UpdateStarts(opens_)
  <2>1. /\ outletSession' = SessionReady \/ outletSession' = 0
        /\ DOMAIN thread' = DOMAIN NoThread /\ thread'.at # "pushing" /\ main' = main
    BY <1>2 DEF UpdateStarts, StartPublishing, NoThread, trackerStateVars
  <2> QED
    BY <1>1, <2>1 DEF SentInv, SessionReady
<1>3. CASE \E opens_ \in BOOLEAN : Stopped(opens_)
  <2>1. /\ outletSession' = main.session \/ outletSession' = 0
        /\ DOMAIN thread' = DOMAIN NoThread /\ thread'.at # "pushing"
        /\ main.at = "stopping" /\ main'.at # "stopping"
    BY <1>3 DEF Stopped, StartPublishing, ReleaseStream, NoThread, Idle
  <2> QED
    BY <1>1, <2>1 DEF SentInv
<1>4. CASE UpdateStops \/ StopTimesOut \/ DestroyOutlet
  <2>1. /\ outletSession' = outletSession
        /\ DOMAIN thread' = DOMAIN NoThread
        /\ thread'.at = thread.at /\ thread'.sample = thread.sample
    BY <1>4 DEF UpdateStops, StopTimesOut, DestroyOutlet, BeginStop, SentInv, NoThread,
       outletVars, publisherVars
  <2>2. main'.at = "stopping" => \/ main' = main
                                 \/ main'.session \in {0, SessionReady}
    BY <1>4 DEF UpdateStops, StopTimesOut, DestroyOutlet, BeginStop, Idle
  <2> QED
    BY <1>1, <2>1, <2>2 DEF SentInv, SessionReady
<1> QED
  BY <1>2, <1>3, <1>4 DEF OutletStep

(* The provider only adds sessions. *)
LEMMA TrackerKeepsOrder ==
  ASSUME QueueInv, SentInv, [Next]_vars, TrackerNext, UNCHANGED publisherVars
  PROVE  SentInv'
<1>1. /\ Past \subseteq Past' /\ sessionGeneration' \in Nat /\ sessionGeneration \in Nat
      /\ sessionGeneration <= sessionGeneration'
      /\ UNCHANGED <<thread, lastPushed, outletSession>>
  BY PastNext DEF QueueInv, QueueTypes, publisherVars, outletVars
<1>2. main' = main \/ main'.at # "stopping"
  <2>1. ASSUME NEW which \in {"first", "restart"}, NEW good \in BOOLEAN,
               AccessAnswered(which, good) \/ StartAnswered(which, good)
        PROVE  main' = main
    BY <2>1 DEF AccessAnswered, StartAnswered
  <2>2. ASSUME NEW w \in 1..lastWatcher, NEW t \in 1..lastTracker,
               OnTrackerRemoved(w, t)
        PROVE  main' = main
    BY <2>2 DEF OnTrackerRemoved
  <2>3. ASSUME NEW w \in 1..lastWatcher, OnTrackerAdded(w) PROVE main' = main
    BY <2>3 DEF OnTrackerAdded
  <2>4. ASSUME NEW open \in opens, NEW usable \in BOOLEAN, OpenAnswered(open, usable)
        PROVE  main' = main
    BY <2>4 DEF OpenAnswered
  <2>5. ASSUME TakeRawReading \/ Located \/ LocateThrows \/ DestroyProvider
        PROVE  main' = main \/ main'.at # "stopping"
    BY <2>5 DEF TakeRawReading, Located, LocateThrows, DestroyProvider, GoOn, Idle
  <2> QED
    BY <2>1, <2>2, <2>3, <2>4, <2>5 DEF TrackerNext
<1> QED
  BY <1>1, <1>2 DEF SentInv

(* Together, from the initial state. *)
LEMMA SentInit == Init => SentInv
<1> SUFFICES ASSUME Init PROVE SentInv
  OBVIOUS
<1>1. QueueInv
  BY QueueInit
<1>2. /\ lastPushed = NoSample /\ thread = NoThread /\ outletSession = 0
      /\ main.at = "idle" /\ sessionGeneration = 0 /\ tracker = 0
  BY DEF Init, TrackerInit, Idle
<1>3. \A a \in Ahead : 0 < a.ticks
  BY <1>1, AheadItems DEF Item
<1>4. lastPushed \in Past
  BY <1>2, <1>3 DEF Past, Sent, NoSample
<1> QED
  BY <1>2, <1>4 DEF SentInv, NoThread

(* SentInv is kept by every step, next to QueueInv. *)
LEMMA SentNext == QueueInv /\ SentInv /\ [Next]_vars => SentInv'
<1> SUFFICES ASSUME QueueInv, SentInv, [Next]_vars PROVE SentInv'
  OBVIOUS
<1>1. CASE UNCHANGED vars
  <2>1. /\ Past \subseteq Past'
        /\ UNCHANGED <<thread, lastPushed, outletSession, sessionGeneration, main>>
    BY <1>1, PastNext DEF vars, trackerStateVars, trackerVars, publisherVars, outletVars
  <2> QED
    BY <2>1 DEF SentInv
<1> QED
  BY <1>1, QueueNext, WorkerKeepsOrder, OutletKeepsOrder, TrackerKeepsOrder DEF Next

(* Samples leave in the order of their capture over the whole life of the  *)
(* app, none twice, and none of a session older than that of its stream.   *)
THEOREM SamplesLeaveInOrder == Spec => StreamInOrder
<1>1. SentInv => (Publish /\ thread.sample.stamp > 0 =>
                    /\ Later(lastPushed', lastPushed)
                    /\ lastPushed'.session >= outletSession)
  BY DEF SentInv, Publish
<1> QED
  BY <1>1, QueueInit, QueueNext, SentInit, SentNext, PTL DEF Spec, StreamInOrder

(***************************************************************************)
(* The bounds.  Every number is one that was given; each session of the    *)
(* publisher had a tracker shown to it, and so has each call that waits    *)
(* for OpenAsync, which may become the next one; a reading on its way is   *)
(* therefore of a session there was.                                       *)
(***************************************************************************)
Numbers ==
  /\ lastWatcher \in 0..MaxWatchers /\ lastTracker \in 0..MaxTrackers
  /\ watcher \in 0..lastWatcher
  /\ attached \subseteq 1..lastWatcher
  /\ shown \subseteq (1..lastWatcher) \X (1..lastTracker)
  /\ held \subseteq 1..lastTracker
  /\ \A open \in opens : open.sender \in 1..lastWatcher
  /\ \A which \in {"first", "restart"} : starts[which].watcher \in 0..lastWatcher

OneSessionEach ==
  /\ IsFiniteSet(opens)
  /\ sessionGeneration \in Nat
  /\ sessionGeneration + Cardinality(opens) <= lastTracker
  /\ tracker # 0 => sessionGeneration > 0

(* A step that gives no number. *)
GivesNone ==
  /\ UNCHANGED <<lastWatcher, lastTracker>>
  /\ watcher' \in {0, watcher} /\ attached' \subseteq attached
  /\ shown' \subseteq shown /\ held' \subseteq held /\ opens' \subseteq opens
  /\ \A which \in {"first", "restart"} :
       starts'[which].watcher \in {0, starts[which].watcher}

(* It leaves the numbers as they are. *)
LEMMA NumbersGiven ==
  ASSUME Numbers, GivesNone
  PROVE  Numbers'
BY GazeAssumption DEF GazeAssumption, Numbers, GivesNone

(* Stopping and restarting give none. *)
LEMMA StopGivesNone ==
  ASSUME Lifecycle, UNCHANGED <<lastTracker, shown>>,
         StopWatcherAndTracker,
         \A which \in {"first", "restart"} :
           starts'[which].watcher \in {0, starts[which].watcher}
  PROVE  GivesNone
BY DEF GivesNone, StopWatcherAndTracker, ClearActiveTracker

LEMMA RestartGivesNone ==
  ASSUME Lifecycle, UNCHANGED sdkVars, RestartTrackingSession
  PROVE  GivesNone
<1>1. CASE destroyed \/ restartInProgress
  BY <1>1 DEF RestartTrackingSession, watcherVars, trackerVars, sdkVars, GivesNone
<1>2. CASE ~(destroyed \/ restartInProgress)
  <2>1. StopWatcherAndTracker /\ starts' = [starts EXCEPT !["restart"] = Asking]
    BY <1>2 DEF RestartTrackingSession
  <2>2. \A which \in {"first", "restart"} :
          starts'[which].watcher \in {0, starts[which].watcher}
    BY <2>1 DEF Lifecycle, Types, Start, Asking, NotStarted
  <2> QED
    BY <2>1, <2>2, StopGivesNone DEF sdkVars
<1> QED
  BY <1>1, <1>2

(* So do the steps that leave watchers and trackers alone. *)
LEMMA AloneGivesNone ==
  ASSUME UNCHANGED <<watcherVars, trackerVars, sdkVars>>
  PROVE  GivesNone
BY DEF watcherVars, trackerVars, sdkVars, GivesNone

(* A new watcher has the next number. *)
LEMMA AccessNumbers ==
  ASSUME Lifecycle, Numbers, NEW which \in {"first", "restart"}, NEW allowed \in BOOLEAN,
         AccessAnswered(which, allowed)
  PROVE  Numbers'
<1>1. UNCHANGED <<opens, held, shown, lastTracker>>
  BY DEF AccessAnswered, sdkVars
<1>2. CASE allowed /\ ~destroyed
  <2>1. /\ lastWatcher < MaxWatchers
        /\ lastWatcher' = lastWatcher + 1 /\ watcher' = lastWatcher + 1
        /\ attached' = attached \cup {lastWatcher + 1}
        /\ starts' = [starts EXCEPT ![which] =
                        [at |-> "start", watcher |-> lastWatcher + 1,
                         token |-> watcherGeneration']]
    BY <1>2 DEF AccessAnswered
  <2>2. \A other \in {"first", "restart"} : starts'[other].watcher \in 0..lastWatcher'
    BY <2>1 DEF Lifecycle, Types, Numbers
  <2>3. /\ lastWatcher' \in 0..MaxWatchers /\ watcher' \in 0..lastWatcher'
        /\ 1..lastWatcher \subseteq 1..lastWatcher' /\ lastWatcher + 1 \in 1..lastWatcher'
    BY <2>1, GazeAssumption DEF GazeAssumption, Numbers
  <2> QED
    BY <1>1, <2>1, <2>2, <2>3 DEF Numbers
<1>3. CASE ~(allowed /\ ~destroyed)
  <2>1. EndStart(which) /\ UNCHANGED <<watcher, attached, lastWatcher>>
    BY <1>3 DEF AccessAnswered
  <2>2. GivesNone
    BY <1>1, <2>1 DEF GivesNone, EndStart, NotStarted, Lifecycle, Types
  <2> QED
    BY <2>2, NumbersGiven
<1> QED
  BY <1>2, <1>3

(* A call that ends gives none. *)
LEMMA StartNumbers ==
  ASSUME Lifecycle, Numbers, NEW which \in {"first", "restart"}, NEW started \in BOOLEAN,
         StartAnswered(which, started)
  PROVE  Numbers'
<1>1. EndStart(which) /\ UNCHANGED <<shown, lastTracker>>
  BY DEF StartAnswered, sdkVars
<1>2. \A other \in {"first", "restart"} :
        starts'[other].watcher \in {0, starts[other].watcher}
  BY <1>1 DEF EndStart, NotStarted, Lifecycle, Types
<1>3. CASE ~started /\ IsCurrent(starts[which])
  BY <1>1, <1>2, <1>3, StopGivesNone, NumbersGiven DEF StartAnswered
<1>4. CASE ~(~started /\ IsCurrent(starts[which]))
  <2>1. attached' \subseteq attached /\ UNCHANGED <<watcher, lastWatcher, opens, held>>
    BY <1>4 DEF StartAnswered, trackerVars
  <2>2. GivesNone
    BY <1>1, <1>2, <2>1 DEF GivesNone
  <2> QED
    BY <2>2, NumbersGiven
<1> QED
  BY <1>3, <1>4

(* A tracker shown has the next number. *)
LEMMA AddedNumbers ==
  ASSUME Numbers, NEW sender \in 1..lastWatcher, OnTrackerAdded(sender)
  PROVE  Numbers'
<1>1. /\ lastTracker < MaxTrackers /\ lastTracker' = lastTracker + 1
      /\ shown' = shown \cup {<<sender, lastTracker + 1>>}
      /\ UNCHANGED <<lastWatcher, watcher, attached, starts>>
  BY DEF OnTrackerAdded, watcherVars
<1>2. /\ lastTracker' \in 0..MaxTrackers /\ lastTracker + 1 \in 1..lastTracker'
      /\ 1..lastTracker \subseteq 1..lastTracker'
  BY <1>1, GazeAssumption DEF GazeAssumption, Numbers
<1>3. shown' \subseteq (1..lastWatcher') \X (1..lastTracker')
  BY <1>1, <1>2 DEF Numbers
<1>4. held' \subseteq held \cup {lastTracker + 1} /\ \A open \in opens' \ opens : open.sender = sender
  BY <1>1 DEF OnTrackerAdded
<1> QED
  BY <1>1, <1>2, <1>3, <1>4 DEF Numbers

(* Numbers hold after every step. *)
LEMMA NumbersNext == Lifecycle /\ Numbers /\ [Next]_vars => Numbers'
<1> SUFFICES ASSUME Lifecycle, Numbers, [Next]_vars PROVE Numbers'
  OBVIOUS
<1>1. CASE UNCHANGED vars
  BY <1>1, AloneGivesNone, NumbersGiven DEF vars, trackerStateVars
<1>2. CASE WorkerStep
  <2>1. UNCHANGED <<watcherVars, trackerVars, sdkVars>>
    BY <1>2 DEF WorkerStep, SeeStopSignal, Read, Receive, Publish, PublishThrows,
       AcceptReading, ReturnSample, trackerStateVars
  <2> QED
    BY <2>1, AloneGivesNone, NumbersGiven
<1>3. CASE OutletStep
  <2>1. UNCHANGED <<watcherVars, trackerVars, sdkVars>>
        \/ (RestartTrackingSession /\ UNCHANGED sdkVars)
    BY <1>3 DEF OutletStep, UpdateStops, UpdateStarts, StopTimesOut, Stopped, DestroyOutlet,
       trackerStateVars
  <2> QED
    BY <2>1, AloneGivesNone, RestartGivesNone, NumbersGiven
<1>4. CASE TrackerNext
  <2>1. ASSUME NEW w \in 1..lastWatcher, NEW t \in 1..lastTracker, OnTrackerRemoved(w, t)
        PROVE  Numbers'
    <3>1. GivesNone
      BY <2>1 DEF OnTrackerRemoved, GivesNone, watcherVars, trackerVars
    <3> QED
      BY <3>1, NumbersGiven
  <2>2. ASSUME NEW open \in opens, NEW usable \in BOOLEAN, OpenAnswered(open, usable)
        PROVE  Numbers'
    <3>1. GivesNone
      BY <2>2 DEF OpenAnswered, GivesNone, watcherVars, sdkVars
    <3> QED
      BY <3>1, NumbersGiven
  <2>3. CASE TakeRawReading \/ Located
    BY <2>3, AloneGivesNone, NumbersGiven DEF TakeRawReading, Located
  <2>4. CASE LocateThrows
    BY <2>4, RestartGivesNone, NumbersGiven DEF LocateThrows
  <2>5. CASE DestroyProvider
    <3>1. GivesNone
      BY <2>5, StopGivesNone DEF DestroyProvider, sdkVars
    <3> QED
      BY <3>1, NumbersGiven
  <2> QED
    BY <1>4, <2>1, <2>2, <2>3, <2>4, <2>5, AccessNumbers, StartNumbers, AddedNumbers
    DEF TrackerNext
<1> QED
  BY <1>1, <1>2, <1>3, <1>4 DEF Next

(* A step without a new session and without a new call of OpenAsync.       *)
LEMMA SameSessions ==
  ASSUME OneSessionEach, UNCHANGED <<opens, sessionGeneration, lastTracker>>,
         tracker' \in {0, tracker}
  PROVE  OneSessionEach'
BY DEF OneSessionEach

(* Stopping and restarting are such steps. *)
LEMMA StopKeepsSessions ==
  ASSUME OneSessionEach, UNCHANGED lastTracker,
         StopWatcherAndTracker \/ RestartTrackingSession
  PROVE  OneSessionEach'
BY SameSessions DEF RestartTrackingSession, StopWatcherAndTracker, ClearActiveTracker,
   trackerVars

(* The tracker shown is a new one, so it adds one call at most. *)
LEMMA AddedSessions ==
  ASSUME Lifecycle, OneSessionEach, NEW sender \in 1..lastWatcher, OnTrackerAdded(sender)
  PROVE  OneSessionEach'
<1>1. lastTracker \in Nat /\ lastTracker' = lastTracker + 1 /\ UNCHANGED <<tracker, sessionGeneration>>
  BY DEF OnTrackerAdded, Lifecycle, Types
<1>2. CASE opens' = opens
  <2>1. Cardinality(opens) \in Nat
    BY FS_CardinalityType DEF OneSessionEach
  <2> QED
    BY <1>1, <1>2, <2>1 DEF OneSessionEach
<1>3. CASE opens' # opens
  <2> DEFINE open == [tracker |-> lastTracker', sender |-> sender,
                      lifecycle |-> trackerLifecycleGeneration]
  <2>1. opens' = opens \cup {open}
    BY <1>3 DEF OnTrackerAdded
  <2>2. open \notin opens
    BY <1>1 DEF Lifecycle, Types
  <2> HIDE DEF open
  <2>3. /\ IsFiniteSet(opens') /\ Cardinality(opens) \in Nat
        /\ Cardinality(opens') = Cardinality(opens) + 1
    BY <2>1, <2>2, FS_AddElement, FS_CardinalityType DEF OneSessionEach
  <2> QED
    BY <1>1, <2>3 DEF OneSessionEach
<1> QED
  BY <1>2, <1>3

(* A call that is answered makes room for the session it may begin. *)
LEMMA OpenSessions ==
  ASSUME Lifecycle, OneSessionEach, NEW open \in opens, NEW usable \in BOOLEAN,
         OpenAnswered(open, usable)
  PROVE  OneSessionEach'
<1>1. lastTracker \in Nat /\ UNCHANGED lastTracker /\ opens' = opens \ {open}
  BY DEF OpenAnswered, sdkVars, Lifecycle, Types
<1>2. /\ IsFiniteSet(opens') /\ Cardinality(opens) \in Nat
      /\ Cardinality(opens') = Cardinality(opens) - 1
  BY <1>1, FS_RemoveElement, FS_CardinalityType DEF OneSessionEach
<1>3. \/ sessionGeneration' = sessionGeneration + 1
      \/ UNCHANGED <<sessionGeneration, tracker>>
  BY DEF OpenAnswered
<1> QED
  BY <1>1, <1>2, <1>3 DEF OneSessionEach

(* So there are never more sessions than trackers. *)
LEMMA SessionsNext == Lifecycle /\ OneSessionEach /\ [Next]_vars => OneSessionEach'
<1> SUFFICES ASSUME Lifecycle, OneSessionEach, [Next]_vars PROVE OneSessionEach'
  OBVIOUS
<1>1. CASE UNCHANGED vars
  BY <1>1, SameSessions DEF vars, trackerStateVars, trackerVars, sdkVars
<1>2. CASE WorkerStep
  <2>1. UNCHANGED <<trackerVars, sdkVars>>
    BY <1>2 DEF WorkerStep, SeeStopSignal, Read, Receive, Publish, PublishThrows,
       AcceptReading, ReturnSample, trackerStateVars
  <2> QED
    BY <2>1, SameSessions DEF trackerVars, sdkVars
<1>3. CASE OutletStep
  <2>1. UNCHANGED <<trackerVars, sdkVars>> \/ (RestartTrackingSession /\ UNCHANGED sdkVars)
    BY <1>3 DEF OutletStep, UpdateStops, UpdateStarts, StopTimesOut, Stopped, DestroyOutlet,
       trackerStateVars
  <2> QED
    BY <2>1, SameSessions, StopKeepsSessions DEF trackerVars, sdkVars
<1>4. CASE TrackerNext
  <2>1. ASSUME NEW which \in {"first", "restart"}, NEW good \in BOOLEAN,
               AccessAnswered(which, good)
        PROVE  OneSessionEach'
    BY <2>1, SameSessions DEF AccessAnswered, sdkVars
  <2>2. ASSUME NEW which \in {"first", "restart"}, NEW good \in BOOLEAN,
               StartAnswered(which, good)
        PROVE  OneSessionEach'
    BY <2>2, SameSessions, StopKeepsSessions DEF StartAnswered, trackerVars, sdkVars
  <2>3. ASSUME NEW w \in 1..lastWatcher, NEW t \in 1..lastTracker, OnTrackerRemoved(w, t)
        PROVE  OneSessionEach'
    BY <2>3, SameSessions DEF OnTrackerRemoved, ClearActiveTracker, trackerVars
  <2>4. CASE TakeRawReading \/ Located
    BY <2>4, SameSessions DEF TakeRawReading, Located, trackerVars, sdkVars
  <2>5. CASE LocateThrows \/ DestroyProvider
    BY <2>5, StopKeepsSessions DEF LocateThrows, DestroyProvider, sdkVars
  <2> QED
    BY <1>4, <2>1, <2>2, <2>3, <2>4, <2>5, AddedSessions, OpenSessions DEF TrackerNext
<1> QED
  BY <1>1, <1>2, <1>3, <1>4 DEF Next

(* A reading of a session that there was is an entry within the bounds. *)
LEMMA EntriesAre ==
  ASSUME QueueInv, Numbers, OneSessionEach
  PROVE  /\ sessionGeneration \in 0..MaxTrackers
         /\ \A item \in Item : item.session \in 1..sessionGeneration => item \in Entries
<1>1. Cardinality(opens) \in Nat
  BY FS_CardinalityType DEF OneSessionEach
<1>2. sessionGeneration \in 0..MaxTrackers
  BY <1>1, GazeAssumption DEF GazeAssumption, OneSessionEach, Numbers
<1>3. ASSUME NEW item \in Item, item.session \in 1..sessionGeneration PROVE item \in Entries
  <2>1. item.session \in 1..MaxTrackers
    BY <1>2, <1>3, GazeAssumption DEF GazeAssumption
  <2> QED
    BY <2>1 DEF Item, Entries
<1> QED
  BY <1>2, <1>3

(***************************************************************************)
(* The queues stay within MaxQueuedSamples.                                *)
(***************************************************************************)
LEMMA LengthFacts ==
  ASSUME NEW q \in Seq(Item)
  PROVE  /\ CollapseIfOverSpan(q) \in Seq(Item) /\ Len(CollapseIfOverSpan(q)) <= Len(q)
         /\ \A item \in Item : Len(q) <= MaxQueuedSamples =>
              Enqueue(q, item) \in Seq(Item) /\ Len(Enqueue(q, item)) <= MaxQueuedSamples
<1>1. /\ CollapseIfOverSpan(q) \in Seq(Item) /\ Len(CollapseIfOverSpan(q)) <= Len(q)
  <2>1. CASE CollapseIfOverSpan(q) = q
    BY <2>1
  <2>2. CASE CollapseIfOverSpan(q) = <<q[Len(q)]>> /\ Len(q) > 1
    BY <2>2, CollapseFacts
  <2> QED
    BY <2>1, <2>2 DEF CollapseIfOverSpan
<1>2. ASSUME NEW item \in Item, Len(q) <= MaxQueuedSamples
      PROVE  Enqueue(q, item) \in Seq(Item) /\ Len(Enqueue(q, item)) <= MaxQueuedSamples
  <2>1. DropOldest(q) \in Seq(Item) /\ Len(DropOldest(q)) < MaxQueuedSamples
    <3>1. CASE Len(q) < MaxQueuedSamples
      BY <3>1 DEF DropOldest
    <3>2. CASE ~(Len(q) < MaxQueuedSamples)
      <4>1. Len(q) - MaxQueuedSamples + 2 = 2 /\ 2 \in 1..Len(q) + 1 /\ Len(q) \in Nat
        BY <1>2, <3>2, GazeAssumption DEF GazeAssumption
      <4>2. SubSeq(q, 2, Len(q)) \in Seq(Item) /\ Len(SubSeq(q, 2, Len(q))) = Len(q) - 2 + 1
        BY <4>1, SuffixFacts
      <4>3. DropOldest(q) = SubSeq(q, 2, Len(q))
        BY <3>2, <4>1 DEF DropOldest
      <4> QED
        BY <1>2, <4>1, <4>2, <4>3, GazeAssumption DEF GazeAssumption
    <3> QED
      BY <3>1, <3>2
  <2>2. Enqueue(q, item) \in {<<item>>, Append(DropOldest(q), item)}
    BY DEF Enqueue
  <2> DEFINE rest == DropOldest(q)
  <2>3. /\ <<item>> \in Seq(Item) /\ Len(<<item>>) = 1
        /\ rest \in Seq(Item) => /\ Append(rest, item) \in Seq(Item)
                                 /\ Len(Append(rest, item)) = Len(rest) + 1
    OBVIOUS
  <2> HIDE DEF rest
  <2>4. Len(rest) + 1 <= MaxQueuedSamples /\ 1 <= MaxQueuedSamples
    BY <2>1, GazeAssumption DEF GazeAssumption, rest
  <2> QED
    BY <2>1, <2>2, <2>3, <2>4 DEF rest
<1> QED
  BY <1>1, <1>2

QueueLengths ==
  Len(pendingRawReadings) <= MaxQueuedSamples /\ Len(pendingSamples) <= MaxQueuedSamples

(* Whatever the order of the steps. *)
LEMMA LengthsNext == QueueInv /\ QueueLengths /\ [Next]_vars => QueueLengths'
<1> SUFFICES ASSUME QueueInv, QueueLengths, [Next]_vars PROVE QueueLengths'
  OBVIOUS
<1> USE DEF QueueLengths
<1>1. pendingRawReadings \in Seq(Item) /\ pendingSamples \in Seq(Item)
  BY DEF QueueInv, QueueTypes
<1>2. CASE LeavesQueues
  BY <1>2 DEF LeavesQueues, queueVars
<1>3. CASE EmptiesQueues
  BY <1>3, GazeAssumption DEF GazeAssumption, EmptiesQueues, ResetReadingPipeline
<1>4. ASSUME NEW reading \in Readings, AcceptReading(reading) PROVE QueueLengths'
  <2> DEFINE item == [session |-> sessionGeneration, ticks |-> reading.ticks,
                      stamp |-> StampOf(reading)]
  <2>1. item \in Item
    BY GazeAssumption DEF GazeAssumption, Item, StampOf, QueueInv, QueueTypes
  <2>2. /\ pendingSamples' = pendingSamples
        /\ pendingRawReadings' \in {pendingRawReadings, Enqueue(pendingRawReadings, item)}
    BY <1>4 DEF AcceptReading
  <2> HIDE DEF item
  <2> QED
    BY <1>1, <2>1, <2>2, LengthFacts
<1>5. CASE ReturnSample
  <2>1. WaitingSamples \in Seq(Item) /\ Len(WaitingSamples) <= Len(pendingSamples)
    BY <1>1, LengthFacts DEF WaitingSamples
  <2>2. /\ pendingSamples' = IF WaitingSamples = <<>> THEN <<>> ELSE Tail(WaitingSamples)
        /\ pendingRawReadings' = pendingRawReadings
    BY <1>5 DEF ReturnSample
  <2> QED
    BY <1>1, <2>1, <2>2, GazeAssumption DEF GazeAssumption
<1>6. CASE TakeRawReading
  <2> DEFINE queue == CollapseIfOverSpan(pendingRawReadings)
  <2>1. queue \in Seq(Item) /\ Len(queue) <= Len(pendingRawReadings)
    BY <1>1, LengthFacts
  <2>2. /\ pendingSamples' = pendingSamples
        /\ \/ pendingRawReadings' = pendingRawReadings
           \/ queue # <<>> /\ pendingRawReadings' = Tail(queue)
    BY <1>6 DEF TakeRawReading
  <2> HIDE DEF queue
  <2> QED
    BY <1>1, <2>1, <2>2, GazeAssumption DEF GazeAssumption
<1>7. CASE Located
  BY <1>1, <1>7, LengthFacts DEF Located, QueueInv, QueueTypes
<1> QED
  BY <1>2, <1>3, <1>4, <1>5, <1>6, <1>7, EveryQueueStep DEF QueueStep

(***************************************************************************)
(* What the main thread, the publisher's thread and the outlet are doing.  *)
(* The reader that keeps failing has ended when its failures reach the     *)
(* limit, so a running thread has fewer.                                   *)
(***************************************************************************)
Sample == Entries \cup {NoSample}

Mains ==
  {Idle}
  \cup [at : {"converting"}, left : 1..MaxTransformsPerUpdate]
  \cup [at : {"locating"}, left : 0..MaxTransformsPerUpdate, raw : Entries]
  \cup [at : {"stopping"}, why : {"provider", "failed", "session", "destroy"},
        session : 0..MaxTrackers]

Threads ==
  [at : {"none", "reading", "pushing", "ended"}, stop : BOOLEAN,
   failures : 0..ProviderFailureLimit, outcome : {"fine", "provider", "failed"},
   sample : Sample]

Flags ==
  /\ destroyed \in BOOLEAN /\ restartInProgress \in BOOLEAN
  /\ enabled \in BOOLEAN /\ streamOpen \in BOOLEAN
  /\ draining \in 0..MaxReadingsPerAcquire
  /\ outletSession \in 0..MaxTrackers
  /\ lastPushed \in Sample

Doing ==
  /\ Flags
  /\ main \in Mains
  /\ thread \in Threads
  /\ Running(thread) => thread.failures < ProviderFailureLimit

(* A sample that waits is of a session there was, also when its tracker is *)
(* gone.                                                                   *)
Begun == pendingSamples # <<>> => sessionGeneration > 0

(* What the steps need to know of the rest. *)
Around == Lifecycle /\ QueueInv /\ Numbers /\ OneSessionEach /\ Begun

(* The readings that leave the queues are entries. *)
LEMMA LeavingAreEntries ==
  ASSUME Around
  PROVE  /\ WaitingSamples # <<>> => WaitingSamples[1] \in Entries
         /\ CollapseIfOverSpan(pendingRawReadings) # <<>> =>
              CollapseIfOverSpan(pendingRawReadings)[1] \in Entries
         /\ SessionReady \in 0..MaxTrackers
<1>1. SessionReady \in 0..MaxTrackers
  BY EntriesAre, GazeAssumption DEF GazeAssumption, Around, SessionReady
<1>2. ASSUME NEW q \in Seq(Item), NEW s \in Seq(Item), Own(q), Among(s, q), s # <<>>,
             q # <<>> => sessionGeneration > 0
      PROVE  s[1] \in Entries
  <2>1. 1 \in 1..Len(s) /\ s[1] \in Item
    BY <1>2
  <2>2. PICK j \in 1..Len(q) : s[1] = q[j]
    BY <1>2, <2>1 DEF Among
  <2>3. s[1].session = sessionGeneration /\ sessionGeneration > 0
    BY <1>2, <2>2 DEF Own
  <2>4. s[1].session \in 1..sessionGeneration
    BY <2>3 DEF Around, QueueInv, QueueTypes
  <2> QED
    BY <2>1, <2>4, EntriesAre DEF Around
<1>3. ASSUME WaitingSamples # <<>> PROVE WaitingSamples[1] \in Entries
  BY <1>2, <1>3, WaitingFacts DEF Around, Begun, QueueInv, QueueTypes, QueueOrder
<1>4. ASSUME CollapseIfOverSpan(pendingRawReadings) # <<>>
      PROVE  CollapseIfOverSpan(pendingRawReadings)[1] \in Entries
  <2>1. pendingRawReadings # <<>> => sessionGeneration > 0
    BY DEF Around, QueueInv, QueueBounds, OneSessionEach
  <2> QED
    BY <1>2, <1>4, <2>1, CollapseFacts DEF Around, QueueInv, QueueTypes, QueueOrder
<1> QED
  BY <1>1, <1>3, <1>4

(* A sample comes to wait from a conversion that names its session. *)
LEMMA BegunNext == Around /\ Doing /\ [Next]_vars => Begun'
<1> SUFFICES ASSUME Around, Doing, [Next]_vars PROVE Begun'
  OBVIOUS
<1>1. /\ pendingSamples \in Seq(Item) /\ sessionGeneration \in Nat /\ Begun /\ QueueInv
  BY DEF Around, QueueInv, QueueTypes
<1>2. CASE LeavesQueues
  BY <1>1, <1>2 DEF LeavesQueues, queueVars, Begun
<1>3. CASE EmptiesQueues
  BY <1>3 DEF EmptiesQueues, ResetReadingPipeline, Begun
<1>4. ASSUME NEW reading \in Readings, AcceptReading(reading) PROVE Begun'
  BY <1>1, <1>4 DEF AcceptReading, trackerVars, Begun
<1>5. CASE ReturnSample
  <2>1. /\ pendingSamples' = IF WaitingSamples = <<>> THEN <<>> ELSE Tail(WaitingSamples)
        /\ sessionGeneration' = sessionGeneration
    BY <1>5 DEF ReturnSample, trackerVars
  <2>2. pendingSamples = <<>> => WaitingSamples = <<>>
    BY <1>1, CollapseFacts DEF WaitingSamples
  <2> QED
    BY <1>1, <2>1, <2>2 DEF Begun
<1>6. CASE TakeRawReading
  BY <1>1, <1>6 DEF TakeRawReading, trackerVars, Begun
<1>7. CASE Located
  <2>1. sessionGeneration' = sessionGeneration /\ main.raw.session \in 1..MaxTrackers
    BY <1>7 DEF Located, trackerVars, Doing, Mains, Idle, Entries
  <2>2. pendingSamples' = pendingSamples \/ main.raw.session = sessionGeneration
    BY <1>7 DEF Located, OfThisSession
  <2> QED
    BY <1>1, <2>1, <2>2 DEF Begun
<1> QED
  BY <1>2, <1>3, <1>4, <1>5, <1>6, <1>7, EveryQueueStep DEF QueueStep

(* Steps of the publisher's thread. *)
LEMMA WorkerDoing ==
  ASSUME Around, Doing, WorkerStep
  PROVE  Doing'
<1>1. UNCHANGED <<destroyed, restartInProgress, enabled, streamOpen, outletSession, main>>
  BY DEF WorkerStep, SeeStopSignal, Read, Receive, Publish, PublishThrows, AcceptReading,
     ReturnSample, trackerStateVars, watcherVars, publisherVars, outletVars
<1>2. ASSUME UNCHANGED draining, lastPushed' \in Sample, thread' \in Threads,
             Running(thread)' => thread'.failures < ProviderFailureLimit
      PROVE  Doing'
  BY <1>1, <1>2 DEF Doing, Flags
<1>3. CASE SeeStopSignal
  <2>1. UNCHANGED <<draining, lastPushed>> /\ thread' = [thread EXCEPT !.at = "ended"]
    BY <1>3 DEF SeeStopSignal, trackerStateVars
  <2> QED
    BY <1>2, <2>1 DEF Doing, Flags, Threads, Running
<1>4. ASSUME NEW reading \in Readings, Read(reading) PROVE Doing'
  <2>1. UNCHANGED <<thread, lastPushed>> /\ draining' \in 0..MaxReadingsPerAcquire
    BY <1>4, GazeAssumption DEF GazeAssumption, Read, AcceptReading, publisherVars, Doing, Flags
  <2> QED
    BY <1>1, <2>1 DEF Doing, Flags, Running
<1>5. ASSUME NEW sdkFails \in BOOLEAN, Receive(sdkFails) PROVE Doing'
  <2>1. draining' = 0 /\ lastPushed' = lastPushed /\ Running(thread)
    BY <1>5 DEF Receive, ReturnSample, Running
  <2>2. thread.failures \in 0..ProviderFailureLimit - 1
    BY <2>1, LimitAssumption DEF LimitAssumption, Doing, Threads
  <2>3. \/ /\ WaitingSamples # <<>>
           /\ thread' = [thread EXCEPT !.at = "pushing", !.failures = 0,
                                       !.sample = WaitingSamples[1]]
        \/ thread' = [thread EXCEPT !.failures = 0]
        \/ /\ thread.failures + 1 < ProviderFailureLimit
           /\ thread' = [thread EXCEPT !.failures = thread.failures + 1]
        \/ thread' = [thread EXCEPT !.at = "ended", !.failures = thread.failures + 1,
                                    !.outcome = "provider"]
    BY <1>5 DEF Receive
  <2>4. WaitingSamples # <<>> => WaitingSamples[1] \in Sample
    BY LeavingAreEntries DEF Sample
  <2>5. thread.failures + 1 \in 0..ProviderFailureLimit /\ 0 \in 0..ProviderFailureLimit
    BY <2>2, LimitAssumption DEF LimitAssumption
  <2>6. thread' \in Threads
    BY <2>2, <2>3, <2>4, <2>5 DEF Doing, Threads
  <2>7. Running(thread)' => thread'.failures < ProviderFailureLimit
    <3>1. /\ thread \in Threads
          /\ thread'.at = "ended" \/ thread'.failures = 0
             \/ thread'.failures < ProviderFailureLimit
      BY <2>3 DEF Doing, Threads
    <3> QED
      BY <3>1, LimitAssumption DEF LimitAssumption, Running
  <2> QED
    BY <1>1, <2>1, <2>6, <2>7, GazeAssumption DEF GazeAssumption, Doing, Flags
<1>6. CASE Publish
  <2>1. /\ UNCHANGED draining /\ lastPushed' \in {thread.sample, lastPushed}
        /\ thread' = [thread EXCEPT !.at = "reading", !.sample = NoSample]
        /\ Running(thread)
    BY <1>6 DEF Publish, trackerStateVars, Running
  <2> QED
    BY <1>2, <2>1 DEF Doing, Flags, Threads, Running, Sample
<1>7. CASE PublishThrows
  <2>1. /\ UNCHANGED <<draining, lastPushed>>
        /\ thread' = [thread EXCEPT !.at = "ended", !.outcome = "failed",
                                    !.sample = NoSample]
    BY <1>7 DEF PublishThrows, trackerStateVars
  <2> QED
    BY <1>2, <2>1 DEF Doing, Flags, Threads, Running, Sample
<1> QED
  BY <1>3, <1>4, <1>5, <1>6, <1>7 DEF WorkerStep

(* The main thread begins to stop the thread. *)
LEMMA BeginStopDoing ==
  ASSUME Doing, NEW why \in {"provider", "failed", "session", "destroy"},
         NEW session \in 0..MaxTrackers, BeginStop(why, session)
  PROVE  /\ main' \in Mains /\ thread' \in Threads
         /\ Running(thread)' => thread'.failures < ProviderFailureLimit
BY DEF Doing, BeginStop, Mains, Threads, Running

(* A thread starts, or there is none. *)
LEMMA StartingDoing ==
  ASSUME NEW session \in 0..MaxTrackers, NEW opens_,
         StartPublishing(session, opens_) \/ ReleaseStream
  PROVE  /\ outletSession' \in 0..MaxTrackers /\ streamOpen' \in BOOLEAN
         /\ thread' \in Threads
         /\ Running(thread)' => thread'.failures < ProviderFailureLimit
<1>1. 0 \in 0..ProviderFailureLimit /\ 0 < ProviderFailureLimit /\ 0 \in 0..MaxTrackers
  BY LimitAssumption, GazeAssumption DEF LimitAssumption, GazeAssumption
<1>2. outletSession' \in 0..MaxTrackers /\ streamOpen' \in BOOLEAN
  BY <1>1 DEF StartPublishing, ReleaseStream
<1>3. thread' = NoThread \/ thread' = [NoThread EXCEPT !.at = "reading"]
  BY DEF StartPublishing, ReleaseStream
<1>4. NoSample \in Sample
  BY DEF Sample
<1>5. \E at \in {"none", "reading"} :
        thread' = [at |-> at, stop |-> FALSE, failures |-> 0, outcome |-> "fine",
                   sample |-> NoSample]
  BY <1>3 DEF NoThread
<1>6. thread' \in Threads /\ thread'.failures = 0
  BY <1>1, <1>4, <1>5 DEF Threads
<1> QED
  BY <1>1, <1>2, <1>6

(* A restart sets its mark. *)
LEMMA RestartFlags ==
  ASSUME Flags, RestartTrackingSession
  PROVE  destroyed' \in BOOLEAN /\ restartInProgress' \in BOOLEAN
BY Zenon DEF Flags, RestartTrackingSession, watcherVars

(* Steps of the outlet. *)
LEMMA OutletDoing ==
  ASSUME Around, Doing, OutletStep
  PROVE  Doing'
<1>1. lastPushed' = lastPushed /\ draining' = draining /\ SessionReady \in 0..MaxTrackers
  BY LeavingAreEntries DEF OutletStep, UpdateStops, UpdateStarts, StopTimesOut, Stopped,
     DestroyOutlet, trackerStateVars, publisherVars
<1>2. Idle \in Mains /\ 0 \in 0..MaxTrackers
  BY GazeAssumption DEF GazeAssumption, Mains
<1>3. CASE UpdateStops
  <2>1. UNCHANGED <<destroyed, restartInProgress, enabled, streamOpen, outletSession>>
    BY <1>3 DEF UpdateStops, watcherVars, outletVars
  <2>2. \E why \in {"provider", "failed", "session", "destroy"}, session \in 0..MaxTrackers :
          BeginStop(why, session)
    BY <1>1, <1>2, <1>3 DEF UpdateStops, Doing, Threads
  <2> QED
    BY <1>1, <2>1, <2>2, BeginStopDoing DEF Doing, Flags
<1>4. CASE StopTimesOut
  <2>1. /\ UNCHANGED <<destroyed, restartInProgress, enabled, streamOpen, outletSession, thread>>
        /\ main' = Idle
    BY <1>4 DEF StopTimesOut, watcherVars, publisherVars, outletVars
  <2> QED
    BY <1>1, <1>2, <2>1 DEF Doing, Flags, Running
<1>5. ASSUME NEW opens_ \in BOOLEAN, UpdateStarts(opens_) PROVE Doing'
  <2>1. /\ UNCHANGED <<destroyed, restartInProgress, main>>
        /\ StartPublishing(SessionReady, opens_)
    BY <1>5 DEF UpdateStarts, trackerStateVars, watcherVars
  <2>2. enabled' \in BOOLEAN
    BY <2>1, Zenon DEF StartPublishing, Doing, Flags
  <2> QED
    BY <1>1, <2>1, <2>2, StartingDoing DEF Doing, Flags
<1>6. ASSUME NEW opens_ \in BOOLEAN, Stopped(opens_) PROVE Doing'
  <2>1. main' = Idle /\ main.session \in 0..MaxTrackers
    BY <1>6 DEF Stopped, Doing, Mains, Idle
  <2>2. StartPublishing(main.session, opens_) \/ ReleaseStream
    BY <1>6 DEF Stopped
  <2>3. enabled' \in BOOLEAN
    BY <1>6, Zenon DEF Stopped, StartPublishing, Doing, Flags
  <2>4. RestartTrackingSession \/ UNCHANGED <<destroyed, restartInProgress>>
    BY <1>6 DEF Stopped, watcherVars
  <2>5. destroyed' \in BOOLEAN /\ restartInProgress' \in BOOLEAN
    BY <2>4, RestartFlags, Zenon DEF Doing, Flags
  <2> QED
    BY <1>1, <1>2, <2>1, <2>2, <2>3, <2>5, StartingDoing DEF Doing, Flags
<1>7. CASE DestroyOutlet
  <2>1. /\ UNCHANGED <<destroyed, restartInProgress, streamOpen, outletSession>>
        /\ enabled' = FALSE
        /\ BeginStop("destroy", 0) \/ UNCHANGED <<main, thread>>
    BY <1>7 DEF DestroyOutlet, watcherVars
  <2>2. CASE BeginStop("destroy", 0)
    BY <1>1, <1>2, <2>1, <2>2, BeginStopDoing DEF Doing, Flags
  <2>3. CASE UNCHANGED <<main, thread>>
    BY <1>1, <2>1, <2>3 DEF Doing, Flags, Running
  <2> QED
    BY <2>1, <2>2, <2>3
<1> QED
  BY <1>3, <1>4, <1>5, <1>6, <1>7 DEF OutletStep

(* Steps of the provider. *)
LEMMA TrackerDoing ==
  ASSUME Around, Doing, TrackerNext, UNCHANGED publisherVars
  PROVE  Doing'
<1>1. UNCHANGED <<enabled, streamOpen, outletSession, thread, lastPushed>>
  BY DEF publisherVars, outletVars
<1>2. ASSUME draining' = draining, main' \in Mains,
             destroyed' \in BOOLEAN, restartInProgress' \in BOOLEAN
      PROVE  Doing'
  BY <1>1, <1>2 DEF Doing, Flags, Running
<1>3. ASSUME NEW which \in {"first", "restart"}, NEW good \in BOOLEAN,
             AccessAnswered(which, good) \/ StartAnswered(which, good)
      PROVE  Doing'
  <2>1. /\ UNCHANGED <<draining, main, destroyed>>
        /\ EndStart(which) \/ UNCHANGED restartInProgress
    BY <1>3 DEF AccessAnswered, StartAnswered
  <2>2. restartInProgress' \in BOOLEAN
    BY <2>1, Zenon DEF EndStart, Doing, Flags
  <2> QED
    BY <1>2, <2>1, <2>2 DEF Doing, Flags
<1>4. ASSUME NEW w \in 1..lastWatcher, OnTrackerAdded(w) PROVE Doing'
  BY <1>2, <1>4 DEF OnTrackerAdded, watcherVars, Doing, Flags
<1>5. ASSUME NEW w \in 1..lastWatcher, NEW t \in 1..lastTracker, OnTrackerRemoved(w, t)
      PROVE  Doing'
  BY <1>2, <1>5 DEF OnTrackerRemoved, watcherVars, Doing, Flags
<1>6. ASSUME NEW open \in opens, NEW usable \in BOOLEAN, OpenAnswered(open, usable)
      PROVE  Doing'
  BY <1>2, <1>6 DEF OpenAnswered, watcherVars, Doing, Flags
<1>7. CASE TakeRawReading
  <2> DEFINE queue == CollapseIfOverSpan(pendingRawReadings)
             left == IF main.at = "idle" THEN MaxTransformsPerUpdate ELSE main.left
  <2>1. left \in 1..MaxTransformsPerUpdate
    BY <1>7, GazeAssumption DEF GazeAssumption, TakeRawReading, Doing, Mains, Idle
  <2>2. queue # <<>> => queue[1] \in Entries
    BY LeavingAreEntries
  <2>3. \/ main' = Idle
        \/ /\ queue # <<>>
           /\ main' \in {[at |-> "locating", left |-> left - 1, raw |-> queue[1]], GoOn(left - 1)}
    BY <1>7 DEF TakeRawReading
  <2> HIDE DEF queue, left
  <2>4. main' \in Mains
    BY <2>1, <2>2, <2>3, GazeAssumption DEF GazeAssumption, Mains, GoOn
  <2>5. UNCHANGED <<draining, destroyed, restartInProgress>>
    BY <1>7 DEF TakeRawReading, watcherVars
  <2> QED
    BY <1>2, <2>4, <2>5 DEF Doing, Flags
<1>8. CASE Located
  <2>1. main.left \in 0..MaxTransformsPerUpdate /\ main' = GoOn(main.left)
    BY <1>8 DEF Located, Doing, Mains, Idle
  <2>2. main' \in Mains
    BY <2>1, GazeAssumption DEF GazeAssumption, Mains, GoOn
  <2>3. UNCHANGED <<draining, destroyed, restartInProgress>>
    BY <1>8 DEF Located, watcherVars
  <2> QED
    BY <1>2, <2>2, <2>3 DEF Doing, Flags
<1>9. CASE LocateThrows
  <2>1. main' \in Mains /\ draining' = draining /\ RestartTrackingSession
    BY <1>9 DEF LocateThrows, Mains
  <2> QED
    BY <1>2, <2>1, RestartFlags DEF Doing
<1>10. CASE DestroyProvider
  BY <1>2, <1>10 DEF DestroyProvider, Doing, Flags
<1> QED
  BY <1>3, <1>4, <1>5, <1>6, <1>7, <1>8, <1>9, <1>10 DEF TrackerNext

(* The whole invariant. *)
PublisherInv == Around /\ StreamInv /\ QueueLengths /\ Doing

(* At first. *)
LEMMA PublisherInit == Init => PublisherInv
<1> SUFFICES ASSUME Init PROVE PublisherInv
  OBVIOUS
<1>1. Lifecycle /\ QueueInv
  BY LifecycleInit, QueueInit
<1>2. starts["first"].watcher = 0 /\ starts["restart"].watcher = 0
  BY DEF Init, TrackerInit, Asking, NotStarted
<1>3. Numbers
  BY <1>2, GazeAssumption DEF GazeAssumption, Init, TrackerInit, Numbers
<1>4. OneSessionEach
  BY FS_EmptySet DEF Init, TrackerInit, OneSessionEach
<1>5. Begun /\ QueueLengths
  BY GazeAssumption DEF GazeAssumption, Init, TrackerInit, Begun, QueueLengths
<1>6. StreamInv
  BY DEF Init, StreamInv, WorkerHasStream, NoThread, Running
<1>7. Flags /\ main \in Mains
  <2>1. draining = 0 /\ outletSession = 0 /\ lastPushed = NoSample /\ main = Idle
    BY DEF Init, TrackerInit
  <2>2. 0 \in 0..MaxReadingsPerAcquire /\ 0 \in 0..MaxTrackers
    BY GazeAssumption DEF GazeAssumption
  <2>3. /\ destroyed \in BOOLEAN /\ restartInProgress \in BOOLEAN
        /\ enabled \in BOOLEAN /\ streamOpen \in BOOLEAN
    BY Zenon DEF Init, TrackerInit
  <2> QED
    BY <2>1, <2>2, <2>3 DEF Flags, Mains, Sample
<1>8. thread \in Threads /\ ~Running(thread)
  <2>1. NoSample \in Sample /\ 0 \in 0..ProviderFailureLimit
    BY LimitAssumption DEF LimitAssumption, Sample
  <2> QED
    BY <2>1 DEF Init, Threads, NoThread, Running
<1> QED
  BY <1>1, <1>3, <1>4, <1>5, <1>6, <1>7, <1>8 DEF PublisherInv, Around, Doing

(* And after every step. *)
LEMMA PublisherNext == PublisherInv /\ [Next]_vars => PublisherInv'
<1> SUFFICES ASSUME PublisherInv, [Next]_vars PROVE PublisherInv'
  OBVIOUS
<1>1. Around'
  BY LifecycleNext, QueueNext, NumbersNext, SessionsNext, BegunNext DEF PublisherInv, Around
<1>2. QueueLengths'
  BY LengthsNext DEF PublisherInv, Around
<1>3. StreamInv'
  <2>1. ASSUME UNCHANGED publisherVars PROVE StreamInv'
    BY <2>1 DEF PublisherInv, StreamInv, WorkerHasStream, Running, publisherVars, outletVars
  <2> QED
    BY <2>1, WorkerKeepsStream, OutletKeepsStream DEF PublisherInv, Next, vars
<1>4. Doing'
  <2>1. CASE UNCHANGED vars
    BY <2>1 DEF PublisherInv, Doing, Flags, Running, vars, trackerStateVars, watcherVars,
       publisherVars, outletVars
  <2> QED
    BY <2>1, WorkerDoing, OutletDoing, TrackerDoing DEF PublisherInv, Next
<1> QED
  BY <1>1, <1>2, <1>3, <1>4 DEF PublisherInv

(* The types follow: a queue of readings of the active session is one of   *)
(* entries.                                                                *)
LEMMA PublisherTypes == PublisherInv => TypeOK
<1> SUFFICES ASSUME PublisherInv PROVE TypeOK
  OBVIOUS
<1>1. Lifecycle /\ QueueInv /\ Numbers /\ OneSessionEach /\ Begun
  BY DEF PublisherInv, Around
<1>2. sessionGeneration \in 0..MaxTrackers
  BY <1>1, EntriesAre
<1>3. pendingRawReadings \in Seq(Entries) /\ pendingSamples \in Seq(Entries)
  <2>1. ASSUME NEW q \in Seq(Item), Own(q), q # <<>> => sessionGeneration > 0
        PROVE  q \in Seq(Entries)
    <3>1. \A i \in 1..Len(q) : q[i] \in Entries
      <4> SUFFICES ASSUME NEW i \in 1..Len(q) PROVE q[i] \in Entries
        OBVIOUS
      <4>1. q[i] \in Item /\ q[i].session = sessionGeneration /\ q # <<>>
        BY <2>1 DEF Own
      <4>2. q[i].session \in 1..sessionGeneration
        BY <1>2, <2>1, <4>1
      <4> QED
        BY <1>1, <4>1, <4>2, EntriesAre
    <3> QED
      BY <3>1
  <2>2. pendingRawReadings # <<>> => sessionGeneration > 0
    BY <1>1 DEF QueueInv, QueueBounds, OneSessionEach
  <2> QED
    BY <1>1, <2>1, <2>2 DEF QueueInv, QueueTypes, QueueOrder, Begun
<1>4. 0..lastWatcher \subseteq 0..MaxWatchers /\ 1..lastWatcher \subseteq 1..MaxWatchers
  BY <1>1, GazeAssumption DEF GazeAssumption, Numbers
<1>5. 0..lastTracker \subseteq 0..MaxTrackers /\ 1..lastTracker \subseteq 1..MaxTrackers
  BY <1>1, GazeAssumption DEF GazeAssumption, Numbers
<1>6. starts \in [{"first", "restart"} ->
                    [at : {"no", "access", "start"}, watcher : 0..MaxWatchers, token : Nat]]
  <2>1. ASSUME NEW which \in {"first", "restart"}
        PROVE  starts[which] \in [at : {"no", "access", "start"}, watcher : 0..MaxWatchers,
                                  token : Nat]
    <3>1. starts[which] \in Start /\ starts[which].watcher \in 0..MaxWatchers
      BY <1>1, <1>4 DEF Lifecycle, Types, Numbers
    <3> QED
      BY <3>1 DEF Start
  <2> QED
    BY <1>1, <2>1 DEF Lifecycle, Types
<1>7. opens \subseteq [tracker : 1..MaxTrackers, sender : 1..MaxWatchers, lifecycle : Nat]
  <2> SUFFICES ASSUME NEW open \in opens
               PROVE  open \in [tracker : 1..MaxTrackers, sender : 1..MaxWatchers, lifecycle : Nat]
    OBVIOUS
  <2>1. /\ open \in [tracker : 1..lastTracker, sender : Nat, lifecycle : Nat]
        /\ open.sender \in 1..MaxWatchers
    BY <1>1, <1>4 DEF Lifecycle, Types, Numbers
  <2> QED
    BY <1>5, <2>1
<1>8. shown \subseteq (1..MaxWatchers) \X (1..MaxTrackers)
  BY <1>1, <1>4, <1>5 DEF Numbers
<1>9. TrackerTypeOK
  <2>1. /\ watcher \in 0..MaxWatchers /\ tracker \in 0..MaxTrackers
        /\ lastWatcher \in 0..MaxWatchers /\ lastTracker \in 0..MaxTrackers
        /\ attached \subseteq 1..MaxWatchers /\ held \subseteq 1..MaxTrackers
        /\ watcherGeneration \in Nat /\ trackerLifecycleGeneration \in Nat
        /\ lastTicks \in Nat
    BY <1>1, <1>4, <1>5 DEF Lifecycle, Types, Numbers, QueueInv, QueueTypes
  <2> QED
    BY <1>2, <1>3, <1>6, <1>7, <1>8, <2>1
    DEF PublisherInv, Doing, Flags, QueueLengths, TrackerTypeOK
<1> QED
  BY <1>9 DEF PublisherInv, Doing, Flags, TypeOK, Mains, Threads, Sample

(* Queues, sessions and numbers stay within their bounds, the active       *)
(* tracker is one nobody has closed, and a running thread has its stream,  *)
(* for every number of watchers, trackers and readings.                    *)
THEOREM PublisherStaysSafe == Spec => []PublisherSafe
<1>1. PublisherInv => PublisherSafe
  BY PublisherTypes DEF PublisherInv, Around, Lifecycle, StreamInv, PublisherSafe
<1> QED
  BY PublisherInit, PublisherNext, <1>1, PTL DEF Spec


===============================================================================
