------------------------- MODULE PreviewPanel_proofs -------------------------
(***************************************************************************)
(* Theorems about the source of the preview, for every set of recordings,  *)
(* every timeline and every speed.                                         *)
(*                                                                         *)
(* That worker and loader never run together needs that the report of a    *)
(* loader's end is its last one: a second one would delete the next        *)
(* loader.  That the position is kept needs that a clock rests within its  *)
(* timeline.                                                               *)
(*                                                                         *)
(* The second part is about the calibrations of the same panel.            *)
(***************************************************************************)
EXTENDS PreviewPanel, PreviewCalibration, FiniteSetTheorems, SequenceTheorems,
        WellFoundedInduction, TLAPS

LoaderPcs == {"reading", "asking", "dozing", "asleep", "building", "over"}
Kinds == {"mapping", "succeeded", "failed", "finished"}
Loaders == [file : Files \cup {NoFile}, cancel : BOOLEAN, mapped : BOOLEAN, done : BOOLEAN,
            pc : LoaderPcs]

(* The end of the loader is the last report, and comes when its thread is over. *)
FinishedIsLast ==
  \A i \in 1..Len(reports) :
    reports[i] = "finished" => i = Len(reports) /\ loader.pc = "over"

SourceTypes ==
  /\ worker \in {"none", "running", "stopping", "ended"}
  /\ pending \in Files \cup {NoFile}
  /\ loader \in Loaders
  /\ Loading => loader.file \in Files
  /\ reports \in Seq(Kinds)

SourcesInv == SourceTypes /\ SourcesApart /\ FinishedIsLast

(***************************************************************************)
(* The live worker and the loader.                                         *)
(***************************************************************************)
LEMMA LoaderFacts ==
  /\ NoLoader \in Loaders /\ NoLoader.pc = "over"
  /\ \A file \in Files : /\ Loader(file) \in Loaders /\ Loader(file).file = file
                         /\ Loader(file).pc = "reading" /\ Loader(file) # NoLoader
<1>1. NoLoader \in Loaders /\ NoLoader.pc = "over" /\ NoLoader.file = NoFile
  BY DEF NoLoader, Loaders, LoaderPcs
<1>2. ASSUME NEW file \in Files
      PROVE  /\ Loader(file) \in Loaders /\ Loader(file).file = file
             /\ Loader(file).pc = "reading"
  BY <1>1 DEF Loader, Loaders, LoaderPcs
<1>3. NoFile \notin Files
  BY FilesAssumption
<1> QED
  BY <1>1, <1>2, <1>3

(* A cancelled loader is still that loader. *)
LEMMA CancelledFacts ==
  ASSUME NEW l \in Loaders
  PROVE  /\ Cancelled(l) \in Loaders /\ Cancelled(l).file = l.file
         /\ l.pc = "over" <=> Cancelled(l).pc = "over"
         /\ l.file \in Files => Cancelled(l) # NoLoader
<1>1. /\ Cancelled(l) \in Loaders /\ Cancelled(l).file = l.file
      /\ l.pc = "over" <=> Cancelled(l).pc = "over"
  BY DEF Cancelled, Loaders, LoaderPcs
<1>2. NoLoader.file = NoFile /\ NoFile \notin Files
  BY FilesAssumption DEF NoLoader
<1> QED
  BY <1>1, <1>2

(* The loader goes on, without a report. *)
LEMMA LoaderGoesOn ==
  ASSUME SourcesInv, loader' \in Loaders, loader'.file = loader.file, Loading => loader' # NoLoader,
         ~Loading => loader' = NoLoader, loader.pc = "over" => loader'.pc = "over",
         UNCHANGED <<pending, reports>>,
         worker' = worker \/ (worker = "running" /\ worker' = "stopping")
  PROVE  SourcesInv'
<1>1. SourceTypes'
  BY DEF SourcesInv, SourceTypes, Loading
<1>2. SourcesApart'
  BY DEF SourcesInv, SourceTypes, SourcesApart, Loading, WorkerStopping
<1>3. FinishedIsLast'
  BY DEF SourcesInv, FinishedIsLast
<1> QED
  BY <1>1, <1>2, <1>3 DEF SourcesInv

(* The thread of the loader ends with a report and the one of its end. *)
LEMMA LoaderIsOver ==
  ASSUME SourcesInv, loader.pc # "over", loader' \in Loaders, loader'.file = loader.file,
         loader'.pc = "over", NEW kind \in Kinds \ {"finished"},
         reports' = reports \o <<kind, "finished">>, UNCHANGED <<worker, pending>>
  PROVE  SourcesInv'
<1>1. /\ Loading /\ loader.file \in Files
  BY LoaderFacts DEF SourcesInv, SourceTypes, Loading
<1>2. loader' # NoLoader
  BY <1>1, FilesAssumption DEF NoLoader
<1>3. reports \in Seq(Kinds) /\ Len(reports) \in Nat
  BY DEF SourcesInv, SourceTypes
<1>4. \A i \in 1..Len(reports) : reports[i] # "finished"
  BY DEF SourcesInv, FinishedIsLast
<1>5. "finished" \in Kinds
  BY DEF Kinds
<1>6. /\ reports' \in Seq(Kinds) /\ Len(reports') = Len(reports) + 2
      /\ \A i \in 1..Len(reports) : reports'[i] = reports[i]
      /\ reports'[Len(reports) + 1] = kind /\ reports'[Len(reports) + 2] = "finished"
  BY <1>3, <1>5
<1>7. SourceTypes'
  BY <1>1, <1>6 DEF SourcesInv, SourceTypes
<1>8. SourcesApart'
  BY <1>1, <1>2 DEF SourcesInv, SourcesApart, Loading, WorkerStopping
<1>9. FinishedIsLast'
  <2> SUFFICES ASSUME NEW i \in 1..Len(reports'), reports'[i] = "finished"
               PROVE  i = Len(reports')
    BY DEF FinishedIsLast
  <2>1. i \in 1..Len(reports) \/ i = Len(reports) + 1 \/ i = Len(reports) + 2
    BY <1>3, <1>6
  <2> QED
    BY <2>1, <1>4, <1>6
<1> QED
  BY <1>7, <1>8, <1>9 DEF SourcesInv

(* A report is handled, and the loader stays. *)
LEMMA ReportHandled ==
  ASSUME SourcesInv, NEW kind \in Kinds, Report(kind), loader' \in Loaders,
         loader'.file = loader.file, loader'.pc = loader.pc, UNCHANGED <<worker, pending>>,
         kind # "finished"
  PROVE  SourcesInv'
<1>1. /\ reports # <<>> /\ Head(reports) = kind /\ reports' = Tail(reports) /\ Loading
      /\ loader.file \in Files
  BY DEF Report, SourcesInv, SourceTypes, SourcesApart
<1>2. loader' # NoLoader
  BY <1>1, FilesAssumption DEF NoLoader
<1>3. /\ reports \in Seq(Kinds) /\ reports' \in Seq(Kinds)
      /\ Len(reports) \in Nat /\ Len(reports') = Len(reports) - 1
      /\ \A i \in 1..Len(reports') : reports'[i] = reports[i + 1]
  BY <1>1 DEF SourcesInv, SourceTypes
<1>4. SourceTypes'
  BY <1>1, <1>3 DEF SourcesInv, SourceTypes
<1>5. SourcesApart'
  BY <1>1, <1>2 DEF SourcesInv, SourcesApart, Loading, WorkerStopping
<1>6. FinishedIsLast'
  BY <1>3 DEF SourcesInv, FinishedIsLast
<1> QED
  BY <1>4, <1>5, <1>6 DEF SourcesInv

(* The report of its end takes the loader away, and no report is left. *)
LEMMA LoaderGone ==
  ASSUME SourcesInv, LoaderFinished PROVE SourcesInv'
<1>1. /\ reports # <<>> /\ Head(reports) = "finished" /\ reports' = Tail(reports)
      /\ loader' = NoLoader /\ UNCHANGED <<worker, pending>>
  BY DEF LoaderFinished, Report
<1>2. reports \in Seq(Kinds) /\ Len(reports) \in Nat /\ Len(reports) >= 1
      /\ reports[1] = "finished"
  BY <1>1 DEF SourcesInv, SourceTypes
<1>3. Len(reports) = 1
  <2>1. 1 \in 1..Len(reports)
    BY <1>2
  <2> QED
    BY <1>2, <2>1 DEF SourcesInv, FinishedIsLast
<1>4. reports' = <<>>
  <2>1. Tail(reports) \in Seq(Kinds) /\ Len(Tail(reports)) = 0
    BY <1>1, <1>3, HeadTailProperties DEF SourcesInv, SourceTypes
  <2> QED
    BY <2>1, <1>1, EmptySeq
<1>5. SourceTypes'
  <2>1. ~Loading' /\ loader' \in Loaders
    BY <1>1, LoaderFacts DEF Loading
  <2>2. reports' \in Seq(Kinds)
    BY <1>4
  <2> QED
    BY <1>1, <2>1, <2>2 DEF SourcesInv, SourceTypes
<1>6. SourcesApart'
  BY <1>1, <1>4 DEF SourcesInv, SourcesApart, Loading, WorkerStopping
<1>7. FinishedIsLast'
  BY <1>4 DEF FinishedIsLast
<1> QED
  BY <1>5, <1>6, <1>7 DEF SourcesInv

(* A file is loaded when there is neither a worker nor another loader. *)
LEMMA LoaderStarts ==
  ASSUME SourcesInv, ~Loading, NEW file \in Files, loader' = Loader(file),
         worker' = "none", pending' = NoFile, UNCHANGED reports
  PROVE  SourcesInv'
<1>1. reports = <<>>
  BY DEF SourcesInv, SourcesApart
<1>2. SourceTypes'
  BY LoaderFacts DEF SourcesInv, SourceTypes
<1>3. SourcesApart'
  BY <1>1 DEF SourcesApart
<1>4. FinishedIsLast'
  BY <1>1 DEF FinishedIsLast
<1> QED
  BY <1>2, <1>3, <1>4 DEF SourcesInv

(***************************************************************************)
(* The controls, the worker and the loader's thread.                       *)
(***************************************************************************)
LEMMA SourcesAlone ==
  ASSUME SourcesInv, UNCHANGED <<worker, pending, loader, reports>> PROVE SourcesInv'
BY DEF SourcesInv, SourceTypes, SourcesApart, FinishedIsLast, Loading, WorkerStopping

LEMMA LoadingFacts ==
  ASSUME SourcesInv
  PROVE  /\ loader \in Loaders /\ (loader.pc # "over" => Loading)
         /\ (Loading => loader.file \in Files /\ loader # NoLoader)
         /\ (~Loading => loader = NoLoader)
         /\ Loading => \A l \in Loaders : l.file = loader.file => l # NoLoader
<1>1. NoLoader.pc = "over" /\ NoLoader.file = NoFile /\ NoFile \notin Files
  BY FilesAssumption DEF NoLoader
<1> QED
  BY <1>1 DEF SourcesInv, SourceTypes, Loading

LEMMA UserSources ==
  ASSUME SourcesInv, User PROVE SourcesInv'
<1>1. CASE StartPreview
  <2>1. /\ ~Loading /\ pending = NoFile /\ UNCHANGED <<pending, loader, reports>>
        /\ worker' \in {"none", "running", "stopping", "ended"}
    BY <1>1 DEF StartPreview, StopWorker, SourcesInv, SourceTypes
  <2>2. SourceTypes'
    BY <2>1 DEF SourcesInv, SourceTypes, Loading
  <2>3. SourcesApart'
    BY <2>1 DEF SourcesInv, SourcesApart, Loading, WorkerStopping
  <2> QED
    BY <2>1, <2>2, <2>3 DEF SourcesInv, FinishedIsLast
<1>2. CASE StopPreview
  <2>1. /\ UNCHANGED <<pending, loader, reports>>
        /\ worker' = worker \/ (worker = "running" /\ worker' = "stopping")
    BY <1>2 DEF StopPreview, StopWorker
  <2> QED
    BY <2>1, LoaderGoesOn, LoadingFacts
<1>3. CASE CancelFileLoad
  <2>1. /\ Loading /\ loader' = Cancelled(loader) /\ UNCHANGED <<worker, pending, reports>>
    BY <1>3 DEF CancelFileLoad
  <2> QED
    BY <2>1, LoaderGoesOn, LoadingFacts, CancelledFacts
<1>4. CASE RequestShutdown
  <2>1. /\ pending' = NoFile /\ loader' = IF Loading THEN Cancelled(loader) ELSE loader
        /\ worker' = IF worker = "running" THEN "stopping" ELSE worker
        /\ UNCHANGED reports
    BY <1>4 DEF RequestShutdown, StopWorker
  <2>2. /\ loader' \in Loaders /\ loader'.file = loader.file
        /\ Loading' <=> Loading
        /\ loader.pc = "over" => loader'.pc = "over"
    <3>1. CASE Loading
      BY <3>1, <2>1, LoadingFacts, CancelledFacts DEF Loading
    <3>2. CASE ~Loading
      BY <3>2, <2>1, LoadingFacts DEF Loading
    <3> QED
      BY <3>1, <3>2
  <2>3. SourceTypes'
    BY <2>1, <2>2 DEF SourcesInv, SourceTypes
  <2>4. SourcesApart'
    BY <2>1, <2>2 DEF SourcesInv, SourcesApart, WorkerStopping
  <2>5. FinishedIsLast'
    BY <2>1, <2>2 DEF SourcesInv, FinishedIsLast
  <2> QED
    BY <2>3, <2>4, <2>5 DEF SourcesInv
<1>5. ASSUME NEW file \in Files, OpenRecording(file)
      PROVE  SourcesInv'
  <2>1. CASE worker # "none"
    <3>1. /\ pending' = file /\ UNCHANGED <<loader, reports>>
          /\ worker' = IF worker = "running" THEN "stopping" ELSE worker
      BY <1>5, <2>1 DEF OpenRecording, StopWorker
    <3>2. worker' \in {"stopping", "ended"}
      BY <2>1, <3>1 DEF SourcesInv, SourceTypes
    <3>3. SourceTypes'
      BY <3>1, <3>2 DEF SourcesInv, SourceTypes, Loading
    <3>4. SourcesApart'
      BY <2>1, <3>1, <3>2 DEF SourcesInv, SourcesApart, WorkerStopping, Loading
    <3> QED
      BY <3>1, <3>3, <3>4 DEF SourcesInv, FinishedIsLast
  <2>2. CASE worker = "none" /\ Loading
    BY <1>5, <2>2, SourcesAlone DEF OpenRecording
  <2>3. CASE worker = "none" /\ ~Loading
    <3>1. /\ loader' = Loader(file) /\ UNCHANGED <<pending, worker, reports>>
      BY <1>5, <2>3 DEF OpenRecording
    <3>2. pending = NoFile
      BY <2>3 DEF SourcesInv, SourcesApart, WorkerStopping
    <3> QED
      BY <2>3, <3>1, <3>2, LoaderStarts
  <2> QED
    BY <2>1, <2>2, <2>3
<1>6. ASSUME NEW accepted \in BOOLEAN, AnswerMapping(accepted)
      PROVE  SourcesInv'
  <2>1. /\ UNCHANGED <<worker, pending, reports>>
        /\ loader' = IF ~Loading THEN loader
                     ELSE IF accepted
                     THEN [loader EXCEPT !.mapped = TRUE, !.pc = IF @ = "asleep" THEN "asking" ELSE @]
                     ELSE Cancelled(loader)
    BY <1>6 DEF AnswerMapping
  <2>2. CASE ~Loading
    BY <2>1, <2>2, SourcesAlone
  <2>3. CASE Loading /\ accepted
    <3>1. /\ loader' \in Loaders /\ loader'.file = loader.file
          /\ loader.pc = "over" => loader'.pc = "over"
      BY <2>1, <2>3, LoadingFacts DEF Loaders, LoaderPcs
    <3> QED
      BY <2>1, <2>3, <3>1, LoaderGoesOn, LoadingFacts
  <2>4. CASE Loading /\ ~accepted
    BY <2>1, <2>4, LoaderGoesOn, LoadingFacts, CancelledFacts
  <2> QED
    BY <2>2, <2>3, <2>4
<1> QED
  BY <1>1, <1>2, <1>3, <1>4, <1>5, <1>6 DEF User

LEMMA WorkerSources ==
  ASSUME SourcesInv, WorkerEnds \/ WorkerFinished PROVE SourcesInv'
<1>1. CASE WorkerEnds
  <2>1. worker = "stopping" /\ worker' = "ended" /\ UNCHANGED <<pending, loader, reports>>
    BY <1>1 DEF WorkerEnds
  <2>2. SourceTypes'
    BY <2>1 DEF SourcesInv, SourceTypes, Loading
  <2>3. SourcesApart'
    BY <2>1 DEF SourcesInv, SourcesApart, WorkerStopping, Loading
  <2> QED
    BY <2>1, <2>2, <2>3 DEF SourcesInv, FinishedIsLast
<1>2. CASE WorkerFinished
  <2>1. /\ worker = "ended" /\ worker' = "none" /\ pending' = NoFile /\ UNCHANGED reports
        /\ loader' = IF pending # NoFile THEN Loader(pending) ELSE loader
    BY <1>2 DEF WorkerFinished
  <2>2. ~Loading
    BY <2>1 DEF SourcesInv, SourcesApart
  <2>3. CASE pending # NoFile
    BY <2>1, <2>2, <2>3, LoaderStarts DEF SourcesInv, SourceTypes
  <2>4. CASE pending = NoFile
    <3>1. loader' = loader
      BY <2>1, <2>4
    <3>2. SourceTypes'
      BY <2>1, <3>1 DEF SourcesInv, SourceTypes, Loading
    <3>3. SourcesApart'
      BY <2>1, <2>2, <3>1 DEF SourcesInv, SourcesApart, WorkerStopping, Loading
    <3> QED
      BY <2>1, <3>1, <3>2, <3>3 DEF SourcesInv, FinishedIsLast
  <2> QED
    BY <2>3, <2>4
<1> QED
  BY <1>1, <1>2

LEMMA ThreadSources ==
  ASSUME SourcesInv, LoaderThread PROVE SourcesInv'
<1>1. ASSUME NEW pc \in LoaderPcs \ {"over"}, NEW next \in LoaderPcs, LoaderStep(pc, next)
      PROVE  /\ loader' \in Loaders /\ loader'.file = loader.file /\ Loading
             /\ loader.pc # "over" /\ UNCHANGED <<worker, pending>>
  BY <1>1, LoadingFacts DEF LoaderStep, Loaders
<1>2. ASSUME NEW pc \in LoaderPcs \ {"over"}, NEW next \in LoaderPcs, LoaderStep(pc, next),
             UNCHANGED reports
      PROVE  SourcesInv'
  BY <1>1, <1>2, LoaderGoesOn, LoadingFacts
<1>3. ASSUME NEW pc \in LoaderPcs \ {"over"}, LoadFailed(pc)
      PROVE  SourcesInv'
  <2>1. /\ loader' \in Loaders /\ loader'.file = loader.file /\ loader'.pc = "over"
        /\ loader.pc # "over" /\ UNCHANGED <<worker, pending>>
        /\ reports' = reports \o <<"failed", "finished">>
    BY <1>3, LoadingFacts DEF LoadFailed, Loaders, LoaderPcs
  <2> QED
    BY <2>1, LoaderIsOver DEF Kinds
<1>4. CASE Read
  <2> DEFINE next == IF loader.file \in Ambiguous THEN "asking" ELSE "building"
  <2>1. /\ LoaderStep("reading", next)
        /\ reports' = IF loader.file \in Ambiguous THEN Append(reports, "mapping") ELSE reports
    BY <1>4 DEF Read
  <2>2. next \in LoaderPcs /\ "reading" \in LoaderPcs \ {"over"}
    BY DEF LoaderPcs
  <2>3. CASE loader.file \notin Ambiguous
    BY <2>1, <2>2, <2>3, <1>2
  <2>4. CASE loader.file \in Ambiguous
    <3>1. /\ loader' \in Loaders /\ loader'.file = loader.file /\ Loading
          /\ loader.pc # "over" /\ UNCHANGED <<worker, pending>>
      BY <2>1, <2>2, <1>1
    <3>2. reports \in Seq(Kinds) /\ Len(reports) \in Nat /\ "mapping" \in Kinds
      BY DEF SourcesInv, SourceTypes, Kinds
    <3>3. /\ reports' \in Seq(Kinds) /\ Len(reports') = Len(reports) + 1
          /\ \A i \in 1..Len(reports') :
               reports'[i] = IF i = Len(reports') THEN "mapping" ELSE reports[i]
      BY <2>1, <2>4, <3>2
    <3>4. Loading'
      BY <3>1, LoadingFacts DEF Loading
    <3>5. SourceTypes'
      BY <3>1, <3>3, LoadingFacts DEF SourcesInv, SourceTypes
    <3>6. SourcesApart'
      BY <3>1, <3>4 DEF SourcesInv, SourcesApart, WorkerStopping
    <3>7. FinishedIsLast'
      <4> SUFFICES ASSUME NEW i \in 1..Len(reports'), reports'[i] = "finished" PROVE FALSE
        BY DEF FinishedIsLast
      <4>1. i \in 1..Len(reports) /\ reports[i] = "finished"
        BY <3>2, <3>3
      <4> QED
        BY <4>1, <3>1 DEF SourcesInv, FinishedIsLast
    <3> QED
      BY <3>5, <3>6, <3>7 DEF SourcesInv
  <2> QED
    BY <2>3, <2>4
<1>5. CASE AwaitMapping
  BY <1>2, <1>3, <1>5 DEF AwaitMapping, LoaderPcs
<1>6. CASE Build
  <2>1. /\ loader.pc = "building" /\ UNCHANGED <<worker, pending>>
        /\ loader' = [loader EXCEPT !.pc = "over", !.done = TRUE]
        /\ reports' = reports \o <<"succeeded", "finished">>
    BY <1>6 DEF Build
  <2>2. /\ loader' \in Loaders /\ loader'.file = loader.file /\ loader'.pc = "over"
    BY <2>1, LoadingFacts DEF Loaders, LoaderPcs
  <2> QED
    BY <2>1, <2>2, LoaderIsOver DEF Kinds
<1> QED
  BY <1>2, <1>3, <1>4, <1>5, <1>6
     DEF LoaderThread, ReadFails, FallAsleep, WaitTimesOut, BuildFails, LoaderPcs

LEMMA ReportSources ==
  ASSUME SourcesInv, Reports PROVE SourcesInv'
<1>1. CASE MappingRequired
  BY <1>1, ReportHandled, LoadingFacts DEF MappingRequired, Kinds
<1>2. CASE ApplyLoadedRecording
  <2>1. /\ Report("succeeded") /\ loader' = [loader EXCEPT !.done = FALSE]
        /\ UNCHANGED <<worker, pending>>
    BY <1>2 DEF ApplyLoadedRecording
  <2>2. /\ loader' \in Loaders /\ loader'.file = loader.file /\ loader'.pc = loader.pc
    BY <2>1, LoadingFacts DEF Loaders
  <2> QED
    BY <2>1, <2>2, ReportHandled DEF Kinds
<1>3. CASE LoadFailedReport
  BY <1>3, ReportHandled, LoadingFacts DEF LoadFailedReport, Kinds
<1>4. CASE LoaderFinished
  BY <1>4, LoaderGone
<1> QED
  BY <1>1, <1>2, <1>3, <1>4 DEF Reports

LEMMA SourcesInit == Init => SourcesInv
<1> SUFFICES ASSUME Init PROVE SourcesInv
  OBVIOUS
<1>1. /\ worker = "none" /\ pending = NoFile /\ loader = NoLoader /\ reports = <<>>
  BY DEF Init
<1>2. reports \in Seq(Kinds) /\ ~Loading
  BY <1>1 DEF Loading
<1> QED
  BY <1>1, <1>2, LoaderFacts
     DEF SourcesInv, SourceTypes, SourcesApart, FinishedIsLast, Loading

LEMMA SourcesNext == SourcesInv /\ [Next]_vars => SourcesInv'
<1> SUFFICES ASSUME SourcesInv, [Next]_vars PROVE SourcesInv'
  OBVIOUS
<1>1. CASE Playback
  <2>1. PlaybackStep
    BY <1>1 DEF Playback, TogglePlayback, AdvancePlayback, ToggleLooping, SeekTo, StepFrame,
               ChangeSpeed
  <2> QED
    BY <2>1, SourcesAlone DEF PlaybackStep, sources
<1>2. CASE Tick \/ UNCHANGED vars
  BY <1>2, SourcesAlone DEF Tick, vars, sources
<1> QED
  BY <1>1, <1>2, UserSources, WorkerSources, ThreadSources, ReportSources DEF Next

(* The live worker and a loader never run together, and a file that waits waits *)
(* for a worker that was asked to stop.                                          *)
THEOREM SourcesStayApart == Spec => []SourcesApart
<1>1. SourcesInv => SourcesApart
  BY DEF SourcesInv
<1> QED
  BY <1>1, SourcesInit, SourcesNext, PTL DEF Spec

(***************************************************************************)
(* The playback clock.                                                     *)
(***************************************************************************)
(* A clock rests at a position of its timeline. *)
Rests(c) == c \in Clocks /\ c.paused <= Duration(c)

LEMMA DurationFacts ==
  ASSUME NEW c, c.timeline \in Timelines
  PROVE  /\ Duration(c) \in Nat
         /\ \A i \in 1..Len(c.timeline) : c.timeline[i] \in Nat
         /\ c.timeline = <<>> => Duration(c) = 0
         /\ c.timeline # <<>> => Len(c.timeline) \in 1..Len(c.timeline)
<1>1. c.timeline \in Seq(Nat)
  BY DEF Timelines
<1> QED
  BY <1>1 DEF Duration

(* What the clock shows is a position of its timeline. *)
LEMMA PositionFacts ==
  ASSUME NEW c, Rests(c), NEW t \in Nat
  PROVE  Position(c, t) \in Nat /\ Position(c, t) <= Duration(c)
<1>1. Duration(c) \in Nat /\ c.paused \in Nat /\ c.anchor \in Nat /\ c.speed \in Nat
  BY DurationFacts DEF Rests, Clocks
<1>2. Reached(c, t) \in Nat
  <2>1. CASE c.playing /\ t > c.anchor
    <3>1. t - c.anchor \in Nat /\ (t - c.anchor) * c.speed \in Nat
      BY <1>1, <2>1
    <3> QED
      BY <1>1, <2>1, <3>1 DEF Reached
  <2>2. CASE ~(c.playing /\ t > c.anchor)
    BY <1>1, <2>2 DEF Reached
  <2> QED
    BY <2>1, <2>2
<1> DEFINE r == Reached(c, t)
           d == Duration(c)
<1> HIDE DEF r, d
<1>3. r \in Nat /\ d \in Nat
  BY <1>1, <1>2 DEF r, d
<1>4. CASE c.looping /\ d > 0 /\ r > d
  <2>1. Position(c, t) = r % d
    BY <1>4 DEF Position, r, d
  <2>2. r % d \in 0..d - 1
    BY <1>3, <1>4
  <2> QED
    BY <1>3, <2>1, <2>2 DEF d
<1>5. CASE ~(c.looping /\ d > 0 /\ r > d)
  <2>1. Position(c, t) = Clamp(r, d)
    BY <1>5 DEF Position, r, d
  <2> QED
    BY <1>3, <2>1 DEF Clamp, d
<1> QED
  BY <1>4, <1>5

(* A clock that rests at a position shows it, when it has just been started too. *)
LEMMA RestingPosition ==
  ASSUME NEW c, Rests(c), NEW t \in Nat, ~c.playing \/ c.anchor = t
  PROVE  Position(c, t) = c.paused
<1>1. Duration(c) \in Nat /\ c.paused \in Nat /\ c.anchor \in Nat /\ c.paused <= Duration(c)
  BY DurationFacts DEF Rests, Clocks
<1>2. Reached(c, t) = c.paused
  BY <1>1 DEF Reached
<1> QED
  BY <1>1, <1>2 DEF Position, Clamp

(* Setting the anchor anew, with a speed and a loop switch of any kind. *)
LEMMA ReanchorFacts ==
  ASSUME NEW c, Rests(c), NEW t \in Nat, NEW d \in Clocks,
         d.timeline = c.timeline, d.playing = c.playing,
         d.paused = IF c.playing THEN Position(c, t) ELSE c.paused,
         c.playing => d.anchor = t
  PROVE  Rests(d) /\ Position(d, t) = Position(c, t)
<1>1. Duration(d) = Duration(c)
  BY DEF Duration
<1>2. Position(c, t) \in Nat /\ Position(c, t) <= Duration(c)
  BY PositionFacts
<1>3. Rests(d)
  BY <1>1, <1>2 DEF Rests
<1>4. Position(d, t) = d.paused
  BY <1>3, RestingPosition
<1>5. ~c.playing => Position(c, t) = c.paused
  BY RestingPosition
<1> QED
  BY <1>3, <1>4, <1>5

LEMMA SpeedFacts ==
  ASSUME NEW c, Rests(c), NEW t \in Nat, NEW speed \in Nat \ {0}
  PROVE  /\ Rests(SetSpeed(c, speed, t))
         /\ Position(SetSpeed(c, speed, t), t) = Position(c, t)
         /\ SetSpeed(c, speed, t).timeline = c.timeline
<1> DEFINE d == SetSpeed(c, speed, t)
<1>1. Position(c, t) \in Nat
  BY PositionFacts
<1>2. c \in Clocks
  BY DEF Rests
<1>3. CASE c.playing
  <2>1. d = [c EXCEPT !.paused = Position(c, t), !.anchor = t, !.speed = speed]
    BY <1>2, <1>3 DEF SetSpeed, Reanchor, Clocks
  <2>2. d \in Clocks /\ d.timeline = c.timeline /\ d.paused = Position(c, t) /\ d.anchor = t
    BY <2>1, <1>1, <1>2 DEF Clocks
  <2>3. d.playing = c.playing
    BY <2>1, <1>2 DEF Clocks
  <2> HIDE DEF d
  <2>4. Rests(d) /\ Position(d, t) = Position(c, t)
    BY <2>2, <2>3, <1>3, ReanchorFacts
  <2> QED
    BY <2>2, <2>4 DEF d
<1>4. CASE ~c.playing
  <2>1. d = [c EXCEPT !.speed = speed]
    BY <1>4 DEF SetSpeed, Reanchor
  <2>2. d \in Clocks /\ d.timeline = c.timeline /\ d.paused = c.paused
    BY <2>1, <1>2 DEF Clocks
  <2>3. d.playing = c.playing
    BY <2>1, <1>2 DEF Clocks
  <2> HIDE DEF d
  <2>4. Rests(d) /\ Position(d, t) = Position(c, t)
    BY <2>2, <2>3, <1>4, ReanchorFacts
  <2> QED
    BY <2>2, <2>4 DEF d
<1> QED
  BY <1>3, <1>4

LEMMA LoopingFacts ==
  ASSUME NEW c, Rests(c), NEW t \in Nat, NEW looping \in BOOLEAN
  PROVE  /\ Rests(SetLooping(c, looping, t))
         /\ Position(SetLooping(c, looping, t), t) = Position(c, t)
         /\ SetLooping(c, looping, t).timeline = c.timeline
<1> DEFINE d == SetLooping(c, looping, t)
<1>1. Position(c, t) \in Nat
  BY PositionFacts
<1>2. c \in Clocks
  BY DEF Rests
<1>3. CASE c.playing
  <2>1. d = [c EXCEPT !.paused = Position(c, t), !.anchor = t, !.looping = looping]
    BY <1>2, <1>3 DEF SetLooping, Reanchor, Clocks
  <2>2. d \in Clocks /\ d.timeline = c.timeline /\ d.paused = Position(c, t) /\ d.anchor = t
    BY <2>1, <1>1, <1>2 DEF Clocks
  <2>3. d.playing = c.playing
    BY <2>1, <1>2 DEF Clocks
  <2> HIDE DEF d
  <2>4. Rests(d) /\ Position(d, t) = Position(c, t)
    BY <2>2, <2>3, <1>3, ReanchorFacts
  <2> QED
    BY <2>2, <2>4 DEF d
<1>4. CASE ~c.playing
  <2>1. d = [c EXCEPT !.looping = looping]
    BY <1>4 DEF SetLooping, Reanchor
  <2>2. d \in Clocks /\ d.timeline = c.timeline /\ d.paused = c.paused
    BY <2>1, <1>2 DEF Clocks
  <2>3. d.playing = c.playing
    BY <2>1, <1>2 DEF Clocks
  <2> HIDE DEF d
  <2>4. Rests(d) /\ Position(d, t) = Position(c, t)
    BY <2>2, <2>3, <1>4, ReanchorFacts
  <2> QED
    BY <2>2, <2>4 DEF d
<1> QED
  BY <1>3, <1>4

LEMMA PauseFacts ==
  ASSUME NEW c, Rests(c), NEW t \in Nat
  PROVE  /\ Rests(Pause(c, t)) /\ Position(Pause(c, t), t) = Position(c, t)
         /\ Pause(c, t).timeline = c.timeline
<1> DEFINE d == Pause(c, t)
<1>1. Position(c, t) \in Nat /\ Position(c, t) <= Duration(c) /\ c \in Clocks
  BY PositionFacts DEF Rests
<1>2. CASE c.playing
  <2>1. d = [c EXCEPT !.paused = Position(c, t), !.playing = FALSE]
    BY <1>2 DEF Pause
  <2>2. d \in Clocks /\ d.timeline = c.timeline /\ d.paused = Position(c, t) /\ ~d.playing
    BY <2>1, <1>1 DEF Clocks
  <2> HIDE DEF d
  <2>3. Rests(d)
    BY <2>2, <1>1 DEF Rests, Duration
  <2>4. Position(d, t) = d.paused
    BY <2>2, <2>3, RestingPosition
  <2> QED
    BY <2>2, <2>3, <2>4 DEF d
<1>3. CASE ~c.playing
  BY <1>3 DEF Pause
<1> QED
  BY <1>2, <1>3

LEMMA PlayFacts ==
  ASSUME NEW c, Rests(c), NEW t \in Nat
  PROVE  /\ Rests(Play(c, t)) /\ Position(Play(c, t), t) = Position(c, t)
         /\ Play(c, t).timeline = c.timeline
<1> DEFINE d == Play(c, t)
<1>1. c \in Clocks /\ c.paused <= Duration(c)
  BY DEF Rests
<1>2. CASE ~(c.playing \/ c.timeline = <<>>)
  <2>1. d = [c EXCEPT !.anchor = t, !.playing = TRUE]
    BY <1>2 DEF Play
  <2>2. d \in Clocks /\ d.timeline = c.timeline /\ d.paused = c.paused /\ d.anchor = t
    BY <2>1, <1>1 DEF Clocks
  <2> HIDE DEF d
  <2>3. Rests(d)
    BY <2>2, <1>1 DEF Rests, Duration
  <2>4. Position(d, t) = d.paused /\ Position(c, t) = c.paused
    BY <2>2, <2>3, <1>2, RestingPosition
  <2> QED
    BY <2>2, <2>3, <2>4 DEF d
<1>3. CASE c.playing \/ c.timeline = <<>>
  BY <1>3 DEF Play
<1> QED
  BY <1>2, <1>3

LEMMA SeekFacts ==
  ASSUME NEW c, Rests(c), NEW t \in Nat, NEW position \in Int
  PROVE  /\ Rests(Seek(c, position, t)) /\ Seek(c, position, t).timeline = c.timeline
<1> DEFINE d == Seek(c, position, t)
           high == Duration(c)
<1>1. c \in Clocks /\ high \in Nat
  BY DurationFacts DEF Rests, Clocks
<1>2. Clamp(position, high) \in Nat /\ Clamp(position, high) <= high
  BY <1>1 DEF Clamp
<1>3. d = [c EXCEPT !.paused = Clamp(position, high), !.anchor = t]
  BY DEF Seek
<1> HIDE DEF high
<1>4. d \in Clocks /\ d.timeline = c.timeline /\ d.paused = Clamp(position, high)
  BY <1>1, <1>2, <1>3 DEF Clocks
<1> HIDE DEF d
<1>5. Rests(d)
  BY <1>2, <1>4 DEF Rests, Duration, high
<1> QED
  BY <1>4, <1>5 DEF d

(* A set of frames that is not empty has a last one. *)
LEMMA LastOf ==
  ASSUME NEW n \in Nat, NEW S, S \subseteq 1..n, S # {}
  PROVE  \E i \in S : \A j \in S : j <= i
<1> DEFINE T == {k \in Nat : \E i \in S : k = n - i}
           R == OpToRel(<, Nat)
<1>1. IsWellFoundedOn(R, Nat)
  BY NatLessThanWellFounded
<1>2. T \subseteq Nat /\ T # {}
  <2>1. PICK i \in S : TRUE
    OBVIOUS
  <2>2. n - i \in T
    BY <2>1
  <2> QED
    BY <2>2
<1> HIDE DEF T
<1>3. PICK m \in T : \A k \in T : ~(<<k, m>> \in R)
  BY <1>1, <1>2, WFMin
<1>4. \A k \in T : ~(k < m)
  BY <1>2, <1>3 DEF OpToRel
<1>5. PICK i \in S : m = n - i
  BY DEF T
<1>6. ASSUME NEW j \in S
      PROVE  j <= i
  <2>1. n - j \in T
    BY DEF T
  <2>2. ~(n - j < n - i)
    BY <2>1, <1>4, <1>5
  <2> QED
    BY <2>2
<1> QED
  BY <1>6

LEMMA FrameIndexFacts ==
  ASSUME NEW c, Rests(c), NEW t \in Nat
  PROVE  FrameIndex(c, t) \in Int
<1> DEFINE due == {i \in 1..Len(c.timeline) : c.timeline[i] <= Position(c, t)}
<1>1. Len(c.timeline) \in Nat
  BY DEF Rests, Clocks, Timelines
<1>2. CASE due = {}
  <2>1. FrameIndex(c, t) = 1
    BY <1>2, Zenon DEF FrameIndex
  <2> QED
    BY <2>1
<1>3. CASE due # {}
  <2>1. FrameIndex(c, t) = CHOOSE i \in due : \A j \in due : j <= i
    BY <1>3, Zenon DEF FrameIndex
  <2>2. due \subseteq 1..Len(c.timeline)
    OBVIOUS
  <2> HIDE DEF due
  <2>3. \E i \in due : \A j \in due : j <= i
    BY <1>1, <1>3, <2>2, LastOf
  <2>4. FrameIndex(c, t) \in due
    BY <2>1, <2>3, Zenon
  <2>5. FrameIndex(c, t) \in 1..Len(c.timeline)
    BY <2>2, <2>4, Zenon
  <2> QED
    BY <1>1, <2>5
<1> QED
  BY <1>2, <1>3

(***************************************************************************)
(* The playback of a recording.                                            *)
(***************************************************************************)
ClockInv ==
  /\ Rests(clock) /\ now \in Nat
  /\ recording \in Files \cup {NoFile}
  /\ recording # NoFile => clock.timeline # <<>>

LEMMA ClockInit == Init => ClockInv
<1> SUFFICES ASSUME Init PROVE ClockInv
  OBVIOUS
<1>1. clock = InitialClock /\ now = 0 /\ recording = NoFile
  BY DEF Init
<1>2. <<>> \in Timelines
  BY DEF Timelines
<1>3. Rests(InitialClock)
  BY <1>2 DEF Rests, InitialClock, Clocks, Duration
<1> QED
  BY <1>1, <1>3 DEF ClockInv

LEMMA ClockAlone ==
  ASSUME ClockInv, UNCHANGED <<playback, now>> PROVE ClockInv'
BY DEF ClockInv, playback, Rests, Duration

(* A recording that was loaded starts at its beginning, at the speed set. *)
LEMMA LoadedClock ==
  ASSUME ClockInv, SourcesInv, ApplyLoadedRecording PROVE ClockInv'
<1>1. /\ reports # <<>> /\ UNCHANGED now
      /\ IF loader.done /\ TimelineOf[loader.file] # <<>>
         THEN /\ recording' = loader.file
              /\ clock' = SetSpeed(SetLooping(SetTimeline(clock, TimelineOf[loader.file]),
                                              clock.looping, now), clock.speed, now)
         ELSE UNCHANGED playback
  BY DEF ApplyLoadedRecording, Report
<1>2. CASE ~(loader.done /\ TimelineOf[loader.file] # <<>>)
  BY <1>1, <1>2, ClockAlone
<1>3. CASE loader.done /\ TimelineOf[loader.file] # <<>>
  <2>1. loader.file \in Files
    BY <1>1 DEF SourcesInv, SourceTypes, SourcesApart
  <2>2. TimelineOf[loader.file] \in Timelines
    BY <2>1, FilesAssumption
  <2> DEFINE first == SetTimeline(clock, TimelineOf[loader.file])
             second == SetLooping(first, clock.looping, now)
  <2>3. /\ first \in Clocks /\ first.timeline = TimelineOf[loader.file] /\ first.paused = 0
        /\ clock.looping \in BOOLEAN /\ clock.speed \in Nat \ {0} /\ now \in Nat
    BY <2>2 DEF ClockInv, Rests, Clocks, SetTimeline
  <2>4. clock' = SetSpeed(second, clock.speed, now) /\ recording' = loader.file
    BY <1>1, <1>3
  <2> HIDE DEF first, second
  <2>5. Rests(first)
    BY <2>3, <2>2, DurationFacts DEF Rests
  <2>6. Rests(second) /\ second.timeline = first.timeline
    BY <2>3, <2>5, LoopingFacts DEF second
  <2>7. Rests(clock') /\ clock'.timeline = first.timeline
    BY <2>3, <2>4, <2>6, SpeedFacts
  <2> QED
    BY <1>1, <1>3, <2>1, <2>3, <2>4, <2>7 DEF ClockInv
<1> QED
  BY <1>2, <1>3

LEMMA PlaybackClock ==
  ASSUME ClockInv, Playback PROVE ClockInv'
<1>1. ASSUME Rests(clock'), clock'.timeline = clock.timeline, PlaybackStep
      PROVE  ClockInv'
  BY <1>1 DEF ClockInv, PlaybackStep
<1>2. Rests(clock) /\ now \in Nat
  BY DEF ClockInv
<1>3. CASE TogglePlayback
  <2> DEFINE from == IF AtEnd(clock, now) THEN Seek(clock, 0, now) ELSE clock
  <2>1. Rests(from) /\ from.timeline = clock.timeline
    BY <1>2, SeekFacts
  <2>2. clock' = IF timer THEN Pause(clock, now) ELSE Play(from, now)
    BY <1>3 DEF TogglePlayback
  <2>3. PlaybackStep
    BY <1>3 DEF TogglePlayback
  <2> HIDE DEF from
  <2>4. /\ Rests(Play(from, now)) /\ Play(from, now).timeline = clock.timeline
        /\ Rests(Pause(clock, now)) /\ Pause(clock, now).timeline = clock.timeline
    BY <2>1, <1>2, PlayFacts, PauseFacts
  <2>5. Rests(clock') /\ clock'.timeline = clock.timeline
    BY <2>2, <2>4
  <2> QED
    BY <2>3, <2>5, <1>1
<1>4. CASE AdvancePlayback
  <2>1. clock' = Pause(clock, now) /\ PlaybackStep
    BY <1>4 DEF AdvancePlayback
  <2> QED
    BY <2>1, <1>1, <1>2, PauseFacts
<1>5. CASE ToggleLooping
  <2>1. clock' = SetLooping(clock, ~clock.looping, now) /\ PlaybackStep
    BY <1>5 DEF ToggleLooping
  <2> QED
    BY <2>1, <1>1, <1>2, LoopingFacts
<1>6. ASSUME NEW position \in 0..Duration(clock), SeekTo(position)
      PROVE  ClockInv'
  <2>1. clock' = Seek(clock, position, now) /\ PlaybackStep
    BY <1>6 DEF SeekTo
  <2>2. position \in Int
    OBVIOUS
  <2> QED
    BY <2>1, <2>2, <1>1, <1>2, SeekFacts
<1>7. ASSUME NEW by \in {-1, 1}, StepFrame(by)
      PROVE  ClockInv'
  <2> DEFINE frame == FrameIndex(clock, now) + by
             to == IF frame < 1 THEN 1
                   ELSE IF frame > Len(clock.timeline) THEN Len(clock.timeline) ELSE frame
  <2>1. recording # NoFile /\ clock' = Seek(clock, clock.timeline[to], now) /\ PlaybackStep
    BY <1>7, Zenon DEF StepFrame
  <2>2. frame \in Int
    BY <1>2, FrameIndexFacts
  <2>3. clock.timeline # <<>> /\ clock.timeline \in Timelines
    BY <2>1 DEF ClockInv, Rests, Clocks
  <2> HIDE DEF frame
  <2>4. to \in 1..Len(clock.timeline)
    <3>1. Len(clock.timeline) \in 1..Len(clock.timeline) /\ Len(clock.timeline) \in Nat
      BY <2>3, DurationFacts DEF Timelines
    <3> QED
      BY <2>2, <3>1
  <2> HIDE DEF to
  <2>5. clock.timeline[to] \in Int
    BY <2>3, <2>4, DurationFacts
  <2> QED
    BY <2>1, <2>5, <1>1, <1>2, SeekFacts
<1>8. ASSUME NEW speed \in Speeds, ChangeSpeed(speed)
      PROVE  ClockInv'
  <2>1. clock' = SetSpeed(clock, speed, now) /\ PlaybackStep
    BY <1>8 DEF ChangeSpeed
  <2>2. speed \in Nat \ {0}
    BY ClockAssumption
  <2> QED
    BY <2>1, <2>2, <1>1, <1>2, SpeedFacts
<1> QED
  BY <1>3, <1>4, <1>5, <1>6, <1>7, <1>8 DEF Playback

LEMMA ClockNext == SourcesInv /\ ClockInv /\ [Next]_vars => ClockInv'
<1> SUFFICES ASSUME SourcesInv, ClockInv, [Next]_vars PROVE ClockInv'
  OBVIOUS
<1>1. CASE User
  <2>1. UNCHANGED <<recording, clock, now>>
    BY <1>1 DEF User, StartPreview, StopPreview, CancelFileLoad, RequestShutdown, OpenRecording,
               AnswerMapping, playback
  <2> QED
    BY <2>1 DEF ClockInv, Rests, Duration
<1>2. CASE WorkerEnds \/ WorkerFinished \/ LoaderThread
  BY <1>2, ClockAlone DEF WorkerEnds, WorkerFinished, LoaderThread, ReadFails, Read, AwaitMapping,
                         FallAsleep, WaitTimesOut, BuildFails, Build, LoaderStep, LoadFailed
<1>3. CASE Reports
  <2>1. CASE ApplyLoadedRecording
    BY <2>1, LoadedClock
  <2>2. CASE ~ApplyLoadedRecording
    BY <1>3, <2>2, ClockAlone DEF Reports, MappingRequired, LoadFailedReport, LoaderFinished
  <2> QED
    BY <2>1, <2>2
<1>4. CASE Playback
  BY <1>4, PlaybackClock
<1>5. CASE Tick
  BY <1>5 DEF Tick, playback, ClockInv, Rests, Duration
<1>6. CASE UNCHANGED vars
  BY <1>6, ClockAlone DEF vars
<1> QED
  BY <1>1, <1>2, <1>3, <1>4, <1>5, <1>6 DEF Next

(* Play, pause, another speed and the loop switch leave the position where it is, *)
(* for every timeline, speed and moment.                                           *)
THEOREM PositionStaysKept == Spec => PositionIsKept
<1> DEFINE Kept ==
      \/ TogglePlayback /\ (timer \/ ~AtEnd(clock, now))
      \/ ToggleLooping
      \/ \E speed \in Speeds : ChangeSpeed(speed)
      => Position(clock', now) = Position(clock, now)
<1>1. ClockInv => Kept
  <2> SUFFICES ASSUME ClockInv PROVE Kept
    OBVIOUS
  <2>1. Rests(clock) /\ now \in Nat /\ clock.looping \in BOOLEAN
    BY DEF ClockInv, Rests, Clocks
  <2>2. CASE TogglePlayback /\ (timer \/ ~AtEnd(clock, now))
    <3>1. clock' = IF timer THEN Pause(clock, now) ELSE Play(clock, now)
      BY <2>2, Zenon DEF TogglePlayback
    <3> QED
      BY <2>1, <3>1, PauseFacts, PlayFacts
  <2>3. CASE ToggleLooping
    BY <2>1, <2>3, LoopingFacts DEF ToggleLooping
  <2>4. ASSUME NEW speed \in Speeds, ChangeSpeed(speed)
        PROVE  Position(clock', now) = Position(clock, now)
    BY <2>1, <2>4, SpeedFacts, ClockAssumption DEF ChangeSpeed
  <2> QED
    BY <2>2, <2>3, <2>4
<1>2. ClockInv => [Kept]_vars
  BY <1>1
<1> QED
  BY <1>2, SourcesInit, SourcesNext, ClockInit, ClockNext, PTL DEF Spec, PositionIsKept

(***************************************************************************)
(* The types.                                                              *)
(***************************************************************************)
SwitchTypes ==
  /\ dialog \in BOOLEAN
  /\ timer \in BOOLEAN
  /\ shut \in {"open", "asked", "undone"}

LEMMA SwitchInit == Init => SwitchTypes
BY Zenon DEF Init, SwitchTypes

LEMMA SwitchNext == SwitchTypes /\ [Next]_vars => SwitchTypes'
<1> SUFFICES ASSUME SwitchTypes, [Next]_vars PROVE SwitchTypes'
  OBVIOUS
<1>1. dialog' \in {dialog, FALSE, Loading}
  BY DEF Next, User, StartPreview, StopPreview, CancelFileLoad, RequestShutdown, OpenRecording,
         AnswerMapping, WorkerEnds, WorkerFinished, LoaderThread, ReadFails, Read, AwaitMapping,
         FallAsleep, WaitTimesOut, BuildFails, Build, LoaderStep, LoadFailed, Reports,
         MappingRequired, ApplyLoadedRecording, LoadFailedReport, LoaderFinished, Playback,
         TogglePlayback, AdvancePlayback, ToggleLooping, SeekTo, StepFrame, ChangeSpeed,
         PlaybackStep, Tick, sources, vars
<1>2. timer' \in {timer, FALSE, ~timer}
  BY DEF Next, User, StartPreview, StopPreview, CancelFileLoad, RequestShutdown, OpenRecording,
         AnswerMapping, WorkerEnds, WorkerFinished, LoaderThread, ReadFails, Read, AwaitMapping,
         FallAsleep, WaitTimesOut, BuildFails, Build, LoaderStep, LoadFailed, Reports,
         MappingRequired, ApplyLoadedRecording, LoadFailedReport, LoaderFinished, Playback,
         TogglePlayback, AdvancePlayback, ToggleLooping, SeekTo, StepFrame, ChangeSpeed,
         PlaybackStep, Tick, playback, vars
<1>3. shut' \in {shut, "asked", "undone"}
  BY DEF Next, User, StartPreview, StopPreview, CancelFileLoad, RequestShutdown, OpenRecording,
         AnswerMapping, WorkerEnds, WorkerFinished, LoaderThread, ReadFails, Read, AwaitMapping,
         FallAsleep, WaitTimesOut, BuildFails, Build, LoaderStep, LoadFailed, Reports,
         MappingRequired, ApplyLoadedRecording, LoadFailedReport, LoaderFinished, Playback,
         TogglePlayback, AdvancePlayback, ToggleLooping, SeekTo, StepFrame, ChangeSpeed,
         PlaybackStep, Tick, Undo, vars
<1>4. Loading \in BOOLEAN
  BY Zenon DEF Loading
<1>5. dialog' \in BOOLEAN
  BY <1>1, <1>4, Zenon DEF SwitchTypes
<1>6. timer' \in BOOLEAN
  BY <1>2, Zenon DEF SwitchTypes
<1>7. shut' \in {"open", "asked", "undone"}
  BY <1>3 DEF SwitchTypes
<1> QED
  BY <1>5, <1>6, <1>7 DEF SwitchTypes

(* The types, of the worker, the loader and its reports, and the playback clock. *)
THEOREM PreviewTypesStay == Spec => []TypeOK
<1>1. SourcesInv /\ ClockInv /\ SwitchTypes => TypeOK
  BY DEF SourcesInv, SourceTypes, ClockInv, SwitchTypes, TypeOK, Loaders, LoaderPcs, Kinds, Rests
<1> QED
  BY <1>1, SourcesInit, SourcesNext, ClockInit, ClockNext, SwitchInit, SwitchNext, PTL DEF Spec

-----------------------------------------------------------------------------
(***************************************************************************)
(* Theorems about the calibrations, for every number of entries and every  *)
(* store and file that the app can have written.                           *)
(*                                                                         *)
(* That an alignment stays with the stair position it was solved for is    *)
(* not inductive alone.  The one in use may come from an entry or from     *)
(* none, an entry may be saved over only while it stays measured, and the  *)
(* window's entries have to be those that a restart would load again, or   *)
(* load() could move the built-in setup away from an alignment.            *)
(***************************************************************************)

UniqueIds(ps) == \A i, j \in 1..Len(ps) : ps[i].id = ps[j].id => i = j

(* The built-in setup is there, and where load() would leave it. *)
BuiltInInPlace(ps) ==
  /\ BuiltInId \in Ids(ps)
  /\ \A i \in 1..Len(ps) :
       ps[i].id = BuiltInId /\ ~ps[i].hasQuality => ps[i].stair # "estimate"

Entries(ps) == ps \in Seq(Profiles) /\ UniqueIds(ps)
Aligned(ps) == \A i \in 1..Len(ps) : AlignedToStair(ps[i])

StoreInv ==
  /\ Entries(profiles)
  /\ Aligned(profiles)
  /\ BuiltInInPlace(profiles)
  /\ stored.foreign = Foreign
  /\ Entries(stored.profiles)
  /\ profiles = Load(stored.profiles)

(* The calibration in use, and the entry it came from. *)
SourceInv ==
  InUse =>
    IF sourceId \in Ids(profiles)
    THEN /\ transform.stair = Find(profiles, sourceId).stair
         /\ Find(profiles, sourceId).hasQuality => hasQuality
    ELSE /\ sourceId = NoId
         /\ transform.stair = "measured"

SessionTypes ==
  /\ transform \in Alignments
  /\ hasQuality \in BOOLEAN
  /\ samples \in Seq(Positions)

CalibrationInv == StoreInv /\ SourceInv /\ SessionTypes

(***************************************************************************)
(* What the operators on entries do.                                       *)
(***************************************************************************)
(* A set of numbers that is not empty has a least one. *)
LEMMA LeastNumber ==
  ASSUME NEW T, T \subseteq Nat, T # {}
  PROVE  \E n \in T : \A m \in T : n <= m
<1> DEFINE R == OpToRel(<, Nat)
<1>1. IsWellFoundedOn(R, Nat)
  BY NatLessThanWellFounded
<1>2. PICK n \in T : \A m \in T : ~(<<m, n>> \in R)
  BY <1>1, WFMin
<1>3. \A m \in T : ~(m < n)
  BY <1>2 DEF OpToRel
<1> QED
  BY <1>3

LEMMA EntryAt ==
  ASSUME NEW ps, Entries(ps)
  PROVE  /\ Len(ps) \in Nat /\ DOMAIN ps = 1..Len(ps)
         /\ \A i \in 1..Len(ps) : ps[i] \in Profiles /\ ps[i].id \in Nat
         /\ \A id \in Ids(ps) : \E i \in 1..Len(ps) : ps[i].id = id
         /\ \A i \in 1..Len(ps) : ps[i].id \in Ids(ps)
<1>1. /\ Len(ps) \in Nat /\ DOMAIN ps = 1..Len(ps)
      /\ \A i \in 1..Len(ps) : ps[i] \in Profiles
  BY DEF Entries
<1>2. \A i \in 1..Len(ps) : ps[i].id \in Nat
  BY <1>1 DEF Profiles
<1> QED
  BY <1>1, <1>2 DEF Ids

(* An entry is found under its id. *)
LEMMA FindIs ==
  ASSUME NEW ps, Entries(ps), NEW i \in 1..Len(ps)
  PROVE  Find(ps, ps[i].id) = ps[i]
<1> DEFINE P(k) == ps[k].id = ps[i].id /\ \A j \in 1..k-1 : ps[j].id # ps[i].id
<1>1. Len(ps) \in Nat /\ DOMAIN ps = 1..Len(ps)
  BY EntryAt
<1>2. \A j \in 1..Len(ps) : ps[j].id = ps[i].id => j = i
  BY DEF Entries, UniqueIds
<1>3. i \in DOMAIN ps /\ P(i)
  BY <1>1, <1>2
<1>4. \A k \in DOMAIN ps : P(k) => k = i
  BY <1>1, <1>2
<1>5. (CHOOSE k \in DOMAIN ps : P(k)) = i
  <2> HIDE DEF P
  <2> QED
    BY <1>3, <1>4, Zenon
<1> QED
  BY <1>5, Zenon DEF Find

(* The entry of an id in use. *)
LEMMA FindTyped ==
  ASSUME NEW ps, Entries(ps), NEW id \in Ids(ps)
  PROVE  /\ Find(ps, id) \in Profiles /\ Find(ps, id).id = id
         /\ \E i \in 1..Len(ps) : ps[i].id = id /\ Find(ps, id) = ps[i]
<1>1. PICK i \in 1..Len(ps) : ps[i].id = id
  BY EntryAt
<1>2. Find(ps, id) = ps[i]
  BY <1>1, FindIs
<1> QED
  BY <1>1, <1>2, EntryAt

(* Replacing an entry by one with the same id changes that one only. *)
LEMMA ReplaceFacts ==
  ASSUME NEW ps, Entries(ps), NEW id \in Ids(ps), NEW p \in Profiles, p.id = id
  PROVE  LET qs == Replace(ps, id, p)
         IN  /\ Entries(qs) /\ Len(qs) = Len(ps) /\ Ids(qs) = Ids(ps)
             /\ \A i \in 1..Len(ps) : qs[i] = IF ps[i].id = id THEN p ELSE ps[i]
             /\ Find(qs, id) = p
             /\ \A o \in Ids(ps) \ {id} : Find(qs, o) = Find(ps, o)
<1> DEFINE qs == Replace(ps, id, p)
<1>1. PICK k \in 1..Len(ps) : ps[k].id = id /\ Find(ps, id) = ps[k]
  BY FindTyped
<1>2. /\ Len(ps) \in Nat /\ DOMAIN ps = 1..Len(ps)
      /\ \A i \in 1..Len(ps) : ps[i] \in Profiles
  BY EntryAt
<1>3. \A i \in 1..Len(ps) : ps[i] = Find(ps, id) <=> ps[i].id = id
  BY <1>1, <1>2 DEF Entries, UniqueIds
<1>4. qs = [i \in 1..Len(ps) |-> IF ps[i].id = id THEN p ELSE ps[i]]
  BY <1>2, <1>3 DEF Replace
<1>5. qs \in Seq(Profiles) /\ Len(qs) = Len(ps)
  BY <1>2, <1>4
<1>6. \A i \in 1..Len(ps) : qs[i] = IF ps[i].id = id THEN p ELSE ps[i]
  BY <1>4
<1>7. \A i \in 1..Len(ps) : qs[i].id = ps[i].id
  BY <1>6
<1>8. UniqueIds(qs)
  BY <1>5, <1>7 DEF UniqueIds, Entries
<1>9. Ids(qs) = Ids(ps)
  BY <1>2, <1>4, <1>7 DEF Ids
<1>10. Entries(qs)
  BY <1>5, <1>8 DEF Entries
<1>11. Find(qs, id) = p
  <2>1. Find(qs, qs[k].id) = qs[k]
    BY <1>5, <1>10, FindIs
  <2> QED
    BY <2>1, <1>1, <1>6, <1>7
<1>12. ASSUME NEW o \in Ids(ps) \ {id}
       PROVE  Find(qs, o) = Find(ps, o)
  <2>1. PICK i \in 1..Len(ps) : ps[i].id = o /\ Find(ps, o) = ps[i]
    BY FindTyped
  <2>2. Find(qs, qs[i].id) = qs[i]
    BY <1>5, <1>10, FindIs
  <2> QED
    BY <2>1, <2>2, <1>6, <1>7
<1> QED
  BY <1>5, <1>6, <1>9, <1>10, <1>11, <1>12

(* An entry with an id of its own is added. *)
LEMMA AppendFacts ==
  ASSUME NEW ps, Entries(ps), NEW p \in Profiles, p.id \notin Ids(ps)
  PROVE  LET qs == Append(ps, p)
         IN  /\ Entries(qs) /\ Len(qs) = Len(ps) + 1
             /\ Ids(qs) = Ids(ps) \cup {p.id}
             /\ \A i \in 1..Len(qs) : qs[i] = IF i = Len(qs) THEN p ELSE ps[i]
             /\ Find(qs, p.id) = p
             /\ \A o \in Ids(ps) : Find(qs, o) = Find(ps, o)
<1> DEFINE qs == Append(ps, p)
<1>1. /\ Len(ps) \in Nat /\ DOMAIN ps = 1..Len(ps) /\ ps \in Seq(Profiles)
      /\ \A i \in 1..Len(ps) : ps[i] \in Profiles /\ ps[i].id \in Ids(ps)
  BY EntryAt DEF Entries
<1>2. /\ qs \in Seq(Profiles) /\ Len(qs) = Len(ps) + 1
      /\ \A i \in 1..Len(qs) : qs[i] = IF i = Len(qs) THEN p ELSE ps[i]
  BY <1>1
<1>3. UniqueIds(qs)
  BY <1>1, <1>2 DEF UniqueIds, Entries
<1>4. Ids(qs) = Ids(ps) \cup {p.id}
  <2>1. Ids(qs) = {qs[i].id : i \in 1..Len(ps) + 1}
    BY <1>1, <1>2 DEF Ids
  <2>2. Ids(ps) = {ps[i].id : i \in 1..Len(ps)}
    BY <1>1 DEF Ids
  <2>3. qs[Len(ps) + 1] = p /\ \A i \in 1..Len(ps) : qs[i] = ps[i]
    BY <1>1, <1>2
  <2> QED
    BY <2>1, <2>2, <2>3, <1>1
<1>5. Entries(qs)
  BY <1>2, <1>3 DEF Entries
<1>6. Find(qs, p.id) = p
  <2>1. Len(qs) \in 1..Len(qs) /\ qs[Len(qs)] = p
    BY <1>1, <1>2
  <2> HIDE DEF qs
  <2>2. Find(qs, qs[Len(qs)].id) = qs[Len(qs)]
    BY <2>1, <1>5, FindIs
  <2> QED
    BY <2>1, <2>2
<1>7. ASSUME NEW o \in Ids(ps)
      PROVE  Find(qs, o) = Find(ps, o)
  <2>1. PICK i \in 1..Len(ps) : ps[i].id = o /\ Find(ps, o) = ps[i]
    BY FindTyped
  <2>2. i \in 1..Len(qs) /\ qs[i] = ps[i]
    BY <1>1, <1>2
  <2>3. Find(qs, qs[i].id) = qs[i]
    BY <2>2, <1>5, FindIs
  <2> QED
    BY <2>1, <2>2, <2>3
<1> QED
  BY <1>2, <1>4, <1>5, <1>6, <1>7

(* newProfileId finds an id that no entry has: there are more numbers than entries. *)
LEMMA NewIdFacts ==
  ASSUME NEW ps, Entries(ps)
  PROVE  NewProfileId(ps) \in Nat /\ NewProfileId(ps) \notin Ids(ps)
<1> DEFINE N == 1..Len(ps) + 1
           Unused == N \ Ids(ps)
           P(id) == id \notin Ids(ps) /\ \A j \in 1..id-1 : j \in Ids(ps)
<1>1. Len(ps) \in Nat /\ DOMAIN ps = 1..Len(ps)
  BY EntryAt
<1>2. Unused # {}
  <2> SUFFICES ASSUME N \subseteq Ids(ps) PROVE FALSE
    OBVIOUS
  <2> DEFINE f == [i \in 1..Len(ps) |-> ps[i].id]
  <2>1. f \in Surjection(1..Len(ps), Ids(ps))
    BY <1>1 DEF Surjection, Ids
  <2>2. IsFiniteSet(1..Len(ps)) /\ Cardinality(1..Len(ps)) = Len(ps)
    <3> DEFINE n == Len(ps)
    <3>1. 1 \in Int /\ n \in Int /\ n \in Nat
      BY <1>1
    <3> HIDE DEF n
    <3>2. IsFiniteSet(1..n) /\ Cardinality(1..n) = n
      BY <3>1, FS_Interval
    <3> QED
      BY <3>2 DEF n
  <2>3. IsFiniteSet(N) /\ Cardinality(N) = Len(ps) + 1
    BY <1>1, FS_Interval
  <2>4. IsFiniteSet(Ids(ps)) /\ Cardinality(Ids(ps)) <= Len(ps)
    <3> HIDE DEF f
    <3>1. IsFiniteSet(Ids(ps)) /\ Cardinality(Ids(ps)) <= Cardinality(1..Len(ps))
      BY <2>1, <2>2, FS_Surjection
    <3> QED
      BY <3>1, <2>2
  <2>5. Cardinality(N) <= Cardinality(Ids(ps))
    BY <2>4, FS_Subset
  <2>6. Cardinality(Ids(ps)) \in Nat
    BY <2>4, FS_CardinalityType
  <2> QED
    BY <1>1, <2>3, <2>4, <2>5, <2>6
<1>3. PICK id \in Unused : \A m \in Unused : id <= m
  <2>1. Unused \subseteq Nat
    BY <1>1
  <2> HIDE DEF Unused
  <2> QED
    BY <1>2, <2>1, LeastNumber
<1>4. id \in N /\ P(id)
  BY <1>1, <1>3
<1>5. NewProfileId(ps) \in N /\ P(NewProfileId(ps))
  <2>1. NewProfileId(ps) = CHOOSE n \in N : P(n)
    BY Zenon DEF NewProfileId
  <2> HIDE DEF P, N
  <2> QED
    BY <2>1, <1>4, Zenon
<1> QED
  BY <1>1, <1>5

(* The built-in setup is an entry without an alignment. *)
LEMMA DefaultFacts ==
  /\ "measured" \in Stairs
  /\ DefaultProfile \in Profiles /\ AlignedToStair(DefaultProfile)
  /\ DefaultProfile.id = BuiltInId /\ DefaultProfile.stair = "measured"
<1>1. "measured" \in Stairs
  BY CalibrationAssumption
<1>2. Identity \in Alignments
  BY <1>1 DEF Identity, Alignments
<1>3. DefaultProfile \in Profiles
  BY <1>1, <1>2 DEF DefaultProfile, Profiles, BuiltInId
<1>4. ~HasGazeCalibration(DefaultProfile)
  BY Zenon DEF DefaultProfile, HasGazeCalibration
<1> QED
  BY <1>1, <1>3, <1>4 DEF AlignedToStair, DefaultProfile

(* What load() does to entries that the app has written. *)
LEMMA LoadFacts ==
  ASSUME NEW ps, Entries(ps)
  PROVE  /\ Entries(Load(ps)) /\ BuiltInInPlace(Load(ps))
         /\ \A i \in 1..Len(ps) :
              /\ ps[i].id \in Ids(Load(ps))
              /\ ps[i].hasQuality => Find(Load(ps), ps[i].id) = ps[i]
         /\ /\ Aligned(ps)
            /\ \A i \in 1..Len(ps) :
                 ps[i].id = BuiltInId /\ ~ps[i].hasQuality => ps[i].gaze = Identity
            => Aligned(Load(ps))
<1> DEFINE qs == Load(ps)
<1>1. /\ Len(ps) \in Nat /\ DOMAIN ps = 1..Len(ps) /\ ps \in Seq(Profiles)
      /\ \A i \in 1..Len(ps) : ps[i] \in Profiles /\ ps[i].id \in Ids(ps)
  BY EntryAt DEF Entries
<1>2. DefaultProfile \in Profiles /\ AlignedToStair(DefaultProfile)
  BY DefaultFacts
<1>3. CASE BuiltInId \notin Ids(ps)
  <2>1. qs = <<DefaultProfile>> \o ps
    BY <1>3, Zenon DEF Load
  <2>2. /\ qs \in Seq(Profiles) /\ Len(qs) = Len(ps) + 1 /\ qs[1] = DefaultProfile
        /\ \A i \in 1..Len(ps) : qs[i + 1] = ps[i]
    BY <1>1, <1>2, <2>1
  <2>3. \A i \in 1..Len(qs) : i = 1 \/ (i - 1 \in 1..Len(ps) /\ qs[i] = ps[i - 1])
    BY <1>1, <2>2
  <2>4. \A i \in 1..Len(ps) : ps[i].id # DefaultProfile.id
    BY <1>1, <1>3 DEF DefaultProfile
  <2>5. UniqueIds(qs)
    <3> SUFFICES ASSUME NEW i \in 1..Len(qs), NEW j \in 1..Len(qs), qs[i].id = qs[j].id
                 PROVE  i = j
      BY DEF UniqueIds
    <3>1. CASE i = 1 \/ j = 1
      BY <3>1, <2>2, <2>3, <2>4
    <3>2. CASE i # 1 /\ j # 1
      <4>1. /\ i - 1 \in 1..Len(ps) /\ qs[i] = ps[i - 1]
            /\ j - 1 \in 1..Len(ps) /\ qs[j] = ps[j - 1]
        BY <3>2, <2>3
      <4>2. i - 1 = j - 1
        BY <4>1 DEF Entries, UniqueIds
      <4> QED
        BY <4>2, <2>2, <1>1
    <3> QED
      BY <3>1, <3>2
  <2>6. Entries(qs)
    BY <2>2, <2>5 DEF Entries
  <2> HIDE DEF qs
  <2>7. 1 \in 1..Len(qs) /\ \A i \in 1..Len(ps) : i + 1 \in 1..Len(qs)
    BY <1>1, <2>2
  <2>8. BuiltInInPlace(qs)
    <3>1. qs[1].id \in Ids(qs)
      BY <2>6, <2>7, EntryAt
    <3> QED
      BY <3>1, <2>2, <2>3, <2>4 DEF BuiltInInPlace, DefaultProfile
  <2>9. ASSUME NEW i \in 1..Len(ps)
        PROVE  ps[i].id \in Ids(qs) /\ Find(qs, ps[i].id) = ps[i]
    <3>1. qs[i + 1].id \in Ids(qs) /\ Find(qs, qs[i + 1].id) = qs[i + 1]
      BY <2>6, <2>7, EntryAt, FindIs
    <3> QED
      BY <3>1, <2>2
  <2>10. Aligned(ps) => Aligned(qs)
    BY <1>2, <2>2, <2>3 DEF Aligned
  <2> QED
    BY <2>6, <2>8, <2>9, <2>10 DEF qs
<1> DEFINE p == Find(ps, BuiltInId)
<1>4. CASE BuiltInId \in Ids(ps) /\ ~(~p.hasQuality /\ p.stair = "estimate")
  <2>1. qs = ps
    BY <1>4, Zenon DEF Load
  <2>2. \A i \in 1..Len(ps) : Find(ps, ps[i].id) = ps[i]
    BY FindIs
  <2>3. BuiltInInPlace(ps)
    BY <1>4, <2>2 DEF BuiltInInPlace
  <2> QED
    BY <1>1, <2>1, <2>2, <2>3
<1>5. CASE BuiltInId \in Ids(ps) /\ ~p.hasQuality /\ p.stair = "estimate"
  <2> DEFINE r == [p EXCEPT !.stair = "measured"]
  <2>1. qs = Replace(ps, BuiltInId, r)
    BY <1>5, Zenon DEF Load
  <2>2. p \in Profiles /\ p.id = BuiltInId
    BY <1>5, FindTyped
  <2>3. /\ r \in Profiles /\ r.id = BuiltInId /\ r.stair = "measured"
        /\ r.hasQuality = p.hasQuality /\ r.gaze = p.gaze
    BY <2>2, DefaultFacts DEF Profiles
  <2> HIDE DEF r, p, qs
  <2>4. /\ Entries(qs) /\ Len(qs) = Len(ps) /\ Ids(qs) = Ids(ps)
        /\ \A i \in 1..Len(ps) : qs[i] = IF ps[i].id = BuiltInId THEN r ELSE ps[i]
        /\ \A o \in Ids(ps) \ {BuiltInId} : Find(qs, o) = Find(ps, o)
    BY <1>5, <2>1, <2>3, ReplaceFacts
  <2>5. \A i \in 1..Len(ps) : Find(ps, ps[i].id) = ps[i]
    BY FindIs
  <2>6. BuiltInInPlace(qs)
    BY <1>5, <2>3, <2>4 DEF BuiltInInPlace
  <2>7. ASSUME NEW i \in 1..Len(ps)
        PROVE  ps[i].id \in Ids(qs) /\ (ps[i].hasQuality => Find(qs, ps[i].id) = ps[i])
    BY <1>1, <1>5, <2>4, <2>5 DEF p
  <2>8. ASSUME Aligned(ps),
               \A i \in 1..Len(ps) :
                 ps[i].id = BuiltInId /\ ~ps[i].hasQuality => ps[i].gaze = Identity
        PROVE  Aligned(qs)
    <3>1. \E i \in 1..Len(ps) : ps[i].id = BuiltInId /\ p = ps[i]
      BY <1>5, FindTyped DEF p
    <3>2. AlignedToStair(r)
      BY <3>1, <2>8, <1>5, <2>3 DEF AlignedToStair, HasGazeCalibration
    <3> QED
      BY <3>2, <2>4, <2>8 DEF Aligned
  <2> QED
    BY <2>4, <2>6, <2>7, <2>8 DEF qs
<1> QED
  BY <1>3, <1>4, <1>5

(* What is already where load() would leave it stays as it is. *)
LEMMA LoadedStays ==
  ASSUME NEW ps, Entries(ps), BuiltInInPlace(ps)
  PROVE  Load(ps) = ps
<1>1. PICK i \in 1..Len(ps) : ps[i].id = BuiltInId /\ Find(ps, BuiltInId) = ps[i]
  BY FindTyped DEF BuiltInInPlace
<1>2. ~(~ps[i].hasQuality /\ ps[i].stair = "estimate")
  BY <1>1 DEF BuiltInInPlace
<1> QED
  BY <1>1, <1>2 DEF Load, BuiltInInPlace

(* The entry shown. *)
LEMMA SelectedFacts ==
  ASSUME StoreInv
  PROVE  /\ Selected \in Profiles /\ AlignedToStair(Selected)
         /\ HasSelected => /\ Selected = Find(profiles, selected)
                           /\ Selected.id = selected
                           /\ selected \in Ids(profiles) /\ selected \in Nat
         /\ ~HasSelected => Selected.stair = "measured"
<1>1. CASE HasSelected
  <2>1. PICK i \in 1..Len(profiles) :
          profiles[i].id = selected /\ Find(profiles, selected) = profiles[i]
    BY <1>1, FindTyped DEF StoreInv, HasSelected
  <2>2. profiles[i] \in Profiles /\ profiles[i].id \in Nat
    BY EntryAt DEF StoreInv
  <2>3. Selected = profiles[i]
    BY <1>1, <2>1 DEF Selected
  <2>4. AlignedToStair(profiles[i])
    BY DEF StoreInv, Aligned
  <2> QED
    BY <1>1, <2>1, <2>2, <2>3, <2>4 DEF HasSelected
<1>2. CASE ~HasSelected
  <2>1. Selected = DefaultProfile
    BY <1>2 DEF Selected
  <2> QED
    BY <1>2, <2>1, DefaultFacts
<1> QED
  BY <1>1, <1>2

(***************************************************************************)
(* The saved entries.                                                      *)
(***************************************************************************)
(* Every entry stays under its id, measured as before, with its stair      *)
(* position; only the one with the id `over' may get another alignment.    *)
KeepsEntries(ps, qs, over) ==
  \A id \in Ids(ps) :
    /\ id \in Ids(qs)
    /\ Find(qs, id).stair = Find(ps, id).stair
    /\ Find(qs, id).hasQuality = Find(ps, id).hasQuality
    /\ id # over => Find(qs, id).gaze = Find(ps, id).gaze

(* What is saved is what a restart would load. *)
LEMMA SavedStore ==
  ASSUME StoreInv, Entries(profiles'), Aligned(profiles'), BuiltInInPlace(profiles'),
         Save(profiles')
  PROVE  StoreInv'
<1>1. Load(profiles') = profiles'
  BY LoadedStays
<1>2. stored'.profiles = profiles' /\ stored'.foreign = stored.foreign
  BY DEF Save
<1> QED
  BY <1>1, <1>2 DEF StoreInv

LEMMA StoreAlone ==
  ASSUME StoreInv, UNCHANGED <<profiles, stored>> PROVE StoreInv'
BY DEF StoreInv

(* An entry is added: a copy, a new one, or an imported one. *)
LEMMA AddKeeps ==
  ASSUME StoreInv, NEW p \in Profiles, p.id \notin Ids(profiles), AlignedToStair(p),
         profiles' = Append(profiles, p), Save(profiles')
  PROVE  /\ StoreInv' /\ KeepsEntries(profiles, profiles', NoId)
         /\ Ids(profiles') = Ids(profiles) \cup {p.id} /\ Find(profiles', p.id) = p
<1> DEFINE qs == Append(profiles, p)
<1>1. Entries(profiles) /\ BuiltInInPlace(profiles) /\ Aligned(profiles)
  BY DEF StoreInv
<1>2. /\ Entries(qs) /\ Len(qs) = Len(profiles) + 1 /\ Ids(qs) = Ids(profiles) \cup {p.id}
      /\ \A i \in 1..Len(qs) : qs[i] = IF i = Len(qs) THEN p ELSE profiles[i]
      /\ Find(qs, p.id) = p /\ \A o \in Ids(profiles) : Find(qs, o) = Find(profiles, o)
  BY <1>1, AppendFacts
<1>3. Len(profiles) \in Nat
  BY <1>1, EntryAt
<1> HIDE DEF qs
<1>4. Aligned(qs)
  BY <1>1, <1>2, <1>3 DEF Aligned
<1>5. BuiltInInPlace(qs)
  BY <1>1, <1>2, <1>3 DEF BuiltInInPlace
<1>6. profiles' = qs
  BY DEF qs
<1>7. StoreInv'
  BY <1>2, <1>4, <1>5, <1>6, SavedStore
<1> QED
  BY <1>2, <1>6, <1>7 DEF KeepsEntries

(* An entry is replaced by one that keeps its stair position and quality. *)
LEMMA ReplaceKeeps ==
  ASSUME StoreInv, NEW id \in Ids(profiles), NEW p \in Profiles, p.id = id,
         p.stair = Find(profiles, id).stair, p.hasQuality = Find(profiles, id).hasQuality,
         AlignedToStair(p), profiles' = Replace(profiles, id, p), Save(profiles')
  PROVE  /\ StoreInv' /\ KeepsEntries(profiles, profiles', id)
         /\ p.gaze = Find(profiles, id).gaze => KeepsEntries(profiles, profiles', NoId)
         /\ Ids(profiles') = Ids(profiles) /\ Find(profiles', id) = p
<1> DEFINE qs == Replace(profiles, id, p)
<1>1. Entries(profiles) /\ BuiltInInPlace(profiles) /\ Aligned(profiles)
  BY DEF StoreInv
<1>2. /\ Entries(qs) /\ Len(qs) = Len(profiles) /\ Ids(qs) = Ids(profiles)
      /\ \A i \in 1..Len(profiles) : qs[i] = IF profiles[i].id = id THEN p ELSE profiles[i]
      /\ Find(qs, id) = p
      /\ \A o \in Ids(profiles) \ {id} : Find(qs, o) = Find(profiles, o)
  BY <1>1, ReplaceFacts
<1>3. \A i \in 1..Len(profiles) : Find(profiles, profiles[i].id) = profiles[i]
  BY <1>1, FindIs
<1> HIDE DEF qs
<1>4. Aligned(qs)
  BY <1>1, <1>2 DEF Aligned
<1>5. BuiltInInPlace(qs)
  BY <1>1, <1>2, <1>3 DEF BuiltInInPlace
<1>6. profiles' = qs
  BY DEF qs
<1>7. StoreInv'
  BY <1>2, <1>4, <1>5, <1>6, SavedStore
<1> QED
  BY <1>2, <1>6, <1>7 DEF KeepsEntries

(* saveSessionCalibrationProfile keeps the stair position that the alignment was *)
(* solved for, in a new entry or over the one it came from.                       *)
LEMMA SaveSessionKeeps ==
  ASSUME CalibrationInv, SaveSessionProfile
  PROVE  /\ StoreInv' /\ SourceInv'
         /\ KeepsEntries(profiles, profiles', sourceId)
<1>1. StoreInv /\ SourceInv /\ SessionTypes /\ InUse /\ Entries(profiles)
  BY DEF CalibrationInv, SaveSessionProfile, StoreInv
<1>2. /\ profiles' = IF CreateNew THEN Append(profiles, SavedProfile)
                     ELSE Replace(profiles, selected, SavedProfile)
      /\ Save(profiles')
      /\ state' = "saved" /\ sourceId' = SavedProfile.id
      /\ UNCHANGED <<transform, hasQuality>>
  BY DEF SaveSessionProfile
<1> DEFINE stair == IF sourceId \in Ids(profiles) THEN Find(profiles, sourceId).stair
                    ELSE "measured"
<1>3. /\ transform.stair = stair /\ stair \in Stairs
      /\ transform \in Alignments /\ hasQuality \in BOOLEAN
  <2>1. transform.stair = stair
    BY <1>1 DEF SourceInv
  <2>2. stair \in Stairs
    BY <1>1, FindTyped, CalibrationAssumption DEF Profiles
  <2> QED
    BY <2>1, <2>2, <1>1 DEF SessionTypes
<1>4. /\ Selected \in Profiles
      /\ HasSelected => /\ Selected = Find(profiles, selected) /\ Selected.id = selected
                        /\ selected \in Ids(profiles)
  BY <1>1, SelectedFacts
<1>5. NewProfileId(profiles) \in Nat /\ NewProfileId(profiles) \notin Ids(profiles)
  BY <1>1, NewIdFacts
<1> DEFINE p == SavedProfile
<1>6. /\ p = [Selected EXCEPT !.id = IF CreateNew THEN NewProfileId(profiles) ELSE @,
                              !.retired = IF CreateNew THEN FALSE ELSE @,
                              !.stair = stair, !.gaze = transform, !.hasQuality = hasQuality]
  BY <1>1, Zenon DEF SavedProfile, GazeTransform
<1> HIDE DEF stair, p
<1>7. /\ p \in Profiles /\ p.stair = stair /\ p.gaze = transform
      /\ p.hasQuality = hasQuality
      /\ p.id = IF CreateNew THEN NewProfileId(profiles) ELSE Selected.id
  <2>1. CASE CreateNew
    BY <2>1, <1>3, <1>4, <1>5, <1>6 DEF Profiles
  <2>2. CASE ~CreateNew
    BY <2>2, <1>3, <1>4, <1>6 DEF Profiles
  <2> QED
    BY <2>1, <2>2
<1>8. AlignedToStair(p)
  BY <1>3, <1>7 DEF AlignedToStair
<1>9. /\ StoreInv' /\ KeepsEntries(profiles, profiles', sourceId)
      /\ p.id \in Ids(profiles') /\ Find(profiles', p.id) = p
  <2>1. CASE CreateNew
    <3>1. profiles' = Append(profiles, p)
      BY <1>2, <2>1 DEF p
    <3>2. /\ StoreInv' /\ KeepsEntries(profiles, profiles', NoId)
          /\ Ids(profiles') = Ids(profiles) \cup {p.id} /\ Find(profiles', p.id) = p
      BY <3>1, <2>1, <1>1, <1>2, <1>5, <1>7, <1>8, AddKeeps
    <3>3. NoId \notin Ids(profiles)
      BY <1>1, FindTyped DEF Profiles, NoId
    <3> QED
      BY <3>2, <3>3 DEF KeepsEntries
  <2>2. CASE ~CreateNew
    <3>1. /\ profiles' = Replace(profiles, selected, p) /\ HasSelected
          /\ selected = sourceId /\ Selected.hasQuality
      BY <1>2, <2>2 DEF p, CreateNew
    <3>2. /\ p.id = selected /\ selected \in Ids(profiles) /\ Selected = Find(profiles, selected)
      BY <3>1, <2>2, <1>4, <1>7
    <3>3. p.stair = Find(profiles, selected).stair
      BY <3>1, <3>2, <1>7 DEF stair
    <3>4. p.hasQuality = Find(profiles, selected).hasQuality
      <4>1. hasQuality
        BY <3>1, <3>2, <1>1 DEF SourceInv
      <4> QED
        BY <4>1, <3>1, <3>2, <1>4, <1>7 DEF Profiles
    <3> QED
      BY <3>1, <3>2, <3>3, <3>4, <1>1, <1>2, <1>7, <1>8, ReplaceKeeps
  <2> QED
    BY <2>1, <2>2
<1>10. SourceInv'
  <2>1. sourceId' = p.id /\ transform' = transform /\ hasQuality' = hasQuality
    BY <1>2 DEF p
  <2> QED
    BY <2>1, <1>3, <1>7, <1>9 DEF SourceInv
<1> QED
  BY <1>9, <1>10

(* The calibration in use still has its entry when entries are added or hidden. *)
LEMMA SourceStays ==
  ASSUME CalibrationInv, StoreInv', KeepsEntries(profiles, profiles', NoId), UNCHANGED session
  PROVE  CalibrationInv'
<1>1. UNCHANGED <<state, samples, transform, sourceId, hasQuality>>
  BY DEF session
<1>2. InUse' = InUse
  BY <1>1 DEF InUse
<1>3. SessionTypes'
  BY <1>1 DEF CalibrationInv, SessionTypes
<1>4. NoId \notin Ids(profiles')
  BY FindTyped DEF StoreInv, Profiles, NoId
<1>5. SourceInv'
  <2>1. CASE ~InUse
    BY <2>1, <1>2 DEF SourceInv
  <2>2. CASE InUse /\ sourceId \in Ids(profiles)
    BY <2>2, <1>1, <1>2 DEF CalibrationInv, SourceInv, KeepsEntries
  <2>3. CASE InUse /\ sourceId \notin Ids(profiles)
    BY <2>3, <1>1, <1>2, <1>4 DEF CalibrationInv, SourceInv
  <2> QED
    BY <2>1, <2>2, <2>3
<1> QED
  BY <1>3, <1>5 DEF CalibrationInv

(* DuplicateProfile, ImportProfile and RetireProfile. *)
LEMMA EntryStep ==
  ASSUME CalibrationInv,
         DuplicateProfile \/ RetireProfile \/ \E p \in Imports : ImportProfile(p)
  PROVE  CalibrationInv' /\ KeepsEntries(profiles, profiles', NoId) /\ Save(profiles')
<1>1. StoreInv /\ Entries(profiles)
  BY DEF CalibrationInv, StoreInv
<1>2. NewProfileId(profiles) \in Nat /\ NewProfileId(profiles) \notin Ids(profiles)
  BY <1>1, NewIdFacts
<1>3. /\ Selected \in Profiles /\ AlignedToStair(Selected)
      /\ HasSelected => /\ Selected = Find(profiles, selected) /\ Selected.id = selected
                        /\ selected \in Ids(profiles)
  BY <1>1, SelectedFacts
<1>4. ASSUME NEW p \in Profiles, p.id \notin Ids(profiles), AlignedToStair(p), AddProfile(p)
      PROVE  CalibrationInv' /\ KeepsEntries(profiles, profiles', NoId) /\ Save(profiles')
  <2>1. profiles' = Append(profiles, p) /\ Save(profiles') /\ UNCHANGED session
    BY <1>4 DEF AddProfile
  <2>2. StoreInv' /\ KeepsEntries(profiles, profiles', NoId)
    BY <2>1, <1>1, <1>4, AddKeeps
  <2> QED
    BY <2>1, <2>2, SourceStays
<1>5. CASE DuplicateProfile
  <2> DEFINE p == [Selected EXCEPT !.id = NewProfileId(profiles), !.retired = FALSE]
  <2>1. AddProfile(p)
    BY <1>5 DEF DuplicateProfile
  <2>2. /\ p \in Profiles /\ p.id = NewProfileId(profiles) /\ p.gaze = Selected.gaze
        /\ p.stair = Selected.stair /\ p.hasQuality = Selected.hasQuality
    BY <1>2, <1>3 DEF Profiles
  <2> HIDE DEF p
  <2>3. AlignedToStair(p)
    BY <2>2, <1>3 DEF AlignedToStair, HasGazeCalibration
  <2> QED
    BY <2>1, <2>2, <2>3, <1>2, <1>4
<1>6. ASSUME NEW i \in Imports, ImportProfile(i)
      PROVE  CalibrationInv' /\ KeepsEntries(profiles, profiles', NoId) /\ Save(profiles')
  <2> DEFINE p == [i EXCEPT !.id = IF @ \in Ids(profiles) THEN NewProfileId(profiles) ELSE @]
  <2>1. AddProfile(p)
    BY <1>6 DEF ImportProfile
  <2>2. i \in Profiles /\ AlignedToStair(i)
    BY StoresAssumption
  <2>3. /\ p \in Profiles /\ p.id \notin Ids(profiles) /\ p.gaze = i.gaze
        /\ p.stair = i.stair /\ p.hasQuality = i.hasQuality
    BY <1>2, <2>2 DEF Profiles
  <2> HIDE DEF p
  <2>4. AlignedToStair(p)
    BY <2>2, <2>3 DEF AlignedToStair, HasGazeCalibration
  <2> QED
    BY <2>1, <2>3, <2>4, <1>4
<1>7. CASE RetireProfile
  <2> DEFINE p == [Selected EXCEPT !.retired = TRUE]
  <2>1. /\ HasSelected /\ profiles' = Replace(profiles, selected, p) /\ Save(profiles')
        /\ UNCHANGED session
    BY <1>7 DEF RetireProfile
  <2>2. /\ p \in Profiles /\ p.id = Selected.id /\ p.gaze = Selected.gaze
        /\ p.stair = Selected.stair /\ p.hasQuality = Selected.hasQuality
    BY <1>3 DEF Profiles
  <2> HIDE DEF p
  <2>3. AlignedToStair(p)
    BY <2>2, <1>3 DEF AlignedToStair, HasGazeCalibration
  <2>4. StoreInv' /\ KeepsEntries(profiles, profiles', NoId)
    BY <2>1, <2>2, <2>3, <1>1, <1>3, ReplaceKeeps
  <2> QED
    BY <2>1, <2>4, SourceStays
<1> QED
  BY <1>5, <1>6, <1>7

(* The steps that leave what is saved as it is, or save it as it is. *)
LEMMA SessionStep ==
  ASSUME CalibrationInv,
         \/ startPreview \/ PreviewFinished \/ ClearCalibration
         \/ \E confirmed \in BOOLEAN : BeginCalibration(confirmed)
         \/ \E tracked, anglesAgree \in BOOLEAN, pose \in Positions :
              HandleTargetPose(tracked, pose, anglesAgree)
         \/ \E i \in DOMAIN profiles : SelectProfile(i)
         \/ \E asked \in BOOLEAN : ApplySelectedProfile(asked)
         \/ UNCHANGED calibrationVars
  PROVE  CalibrationInv' /\ UNCHANGED profiles /\ (Save(profiles') \/ UNCHANGED stored)
<1>1. StoreInv /\ SourceInv /\ SessionTypes /\ Entries(profiles)
  BY DEF CalibrationInv, StoreInv
<1>2. ASSUME UNCHANGED <<profiles, stored, transform, sourceId, hasQuality>>,
             InUse' => InUse, samples' \in Seq(Positions)
      PROVE  CalibrationInv' /\ UNCHANGED profiles /\ UNCHANGED stored
  <2>1. StoreInv'
    BY <1>1, <1>2, StoreAlone
  <2>2. SourceInv'
    BY <1>1, <1>2 DEF SourceInv
  <2> QED
    BY <2>1, <2>2, <1>1, <1>2 DEF CalibrationInv, SessionTypes
<1> DEFINE Ended ==
      /\ UNCHANGED <<profiles, stored>> /\ ~InUse'
      /\ transform' \in Alignments /\ hasQuality' \in BOOLEAN /\ samples' \in Seq(Positions)
<1>0. Ended => CalibrationInv' /\ UNCHANGED profiles /\ UNCHANGED stored
  <2> SUFFICES ASSUME Ended PROVE CalibrationInv' /\ UNCHANGED profiles /\ UNCHANGED stored
    OBVIOUS
  <2>1. StoreInv'
    BY <1>1, StoreAlone
  <2>2. SourceInv'
    BY DEF SourceInv
  <2>3. SessionTypes'
    BY DEF SessionTypes
  <2> QED
    BY <2>1, <2>2, <2>3 DEF CalibrationInv
<1>3. CASE startPreview
  BY <1>1, <1>2, <1>3 DEF startPreview, store, InUse
<1>4. CASE PreviewFinished
  BY <1>1, <1>2, <1>4 DEF PreviewFinished, store, session, InUse, SessionTypes
<1>5. CASE ClearCalibration
  <2>1. /\ state' = "uncalibrated" /\ samples' = <<>> /\ transform' = Identity
        /\ hasQuality' = FALSE /\ UNCHANGED <<profiles, stored>>
    BY <1>5 DEF ClearCalibration, store
  <2>2. ~InUse'
    BY <2>1 DEF InUse
  <2> QED
    <3>1. transform' \in Alignments /\ samples' \in Seq(Positions)
      BY <2>1 DEF Identity, Alignments
    <3>2. hasQuality' \in BOOLEAN
      BY <2>1, Zenon
    <3> QED
      BY <2>1, <2>2, <3>1, <3>2, <1>0, Zenon
<1>6. ASSUME NEW confirmed \in BOOLEAN, BeginCalibration(confirmed)
      PROVE  CalibrationInv' /\ UNCHANGED profiles /\ UNCHANGED stored
  <2>1. /\ UNCHANGED <<profiles, stored, transform, sourceId, hasQuality>>
        /\ (state' = "collecting" /\ samples' = <<>>) \/ UNCHANGED <<state, samples>>
    BY <1>6 DEF BeginCalibration, store
  <2>2. CASE state' = "collecting" /\ samples' = <<>>
    <3>1. ~InUse'
      BY <2>2 DEF InUse
    <3>2. transform' \in Alignments /\ samples' \in Seq(Positions)
      BY <2>1, <2>2, <1>1 DEF SessionTypes
    <3>3. hasQuality' \in BOOLEAN
      BY <2>1, <1>1, Zenon DEF SessionTypes
    <3> QED
      BY <2>1, <3>1, <3>2, <3>3, <1>0, Zenon
  <2>3. CASE UNCHANGED <<state, samples>>
    BY <2>1, <2>3, <1>1, <1>2 DEF InUse, SessionTypes
  <2> QED
    BY <2>1, <2>2, <2>3
<1>7. ASSUME NEW tracked \in BOOLEAN, NEW anglesAgree \in BOOLEAN, NEW pose \in Positions,
             HandleTargetPose(tracked, pose, anglesAgree)
      PROVE  CalibrationInv' /\ UNCHANGED profiles /\ UNCHANGED stored
  <2> DEFINE moved == samples # <<>> /\ ~WithinTolerance(samples[1], pose)
             poses == IF moved THEN <<pose>> ELSE Append(samples, pose)
  <2>1. /\ state = "collecting" /\ UNCHANGED <<profiles, stored>>
        /\ IF ~tracked
           THEN samples' = <<>> /\ UNCHANGED <<state, transform, sourceId, hasQuality>>
           ELSE IF moved \/ Len(poses) < RequiredSamples
           THEN samples' = poses /\ UNCHANGED <<state, transform, sourceId, hasQuality>>
           ELSE Solved(poses, anglesAgree)
    BY <1>7 DEF HandleTargetPose, store
  <2>2. poses \in Seq(Positions) /\ Head(poses) \in Positions
    <3>1. samples \in Seq(Positions)
      BY <1>1 DEF SessionTypes
    <3>2. poses \in Seq(Positions) /\ poses # <<>>
      BY <3>1
    <3> QED
      BY <3>2
  <2> HIDE DEF poses, moved
  <2>3. CASE UNCHANGED <<state, transform, sourceId, hasQuality>> /\ samples' \in Seq(Positions)
    BY <2>1, <2>3, <1>2 DEF InUse
  <2>4. CASE Solved(poses, anglesAgree) /\ anglesAgree
    <3>1. /\ state' = "automatic" /\ hasQuality' = TRUE /\ samples' = <<>>
          /\ transform' = [stair |-> Selected.stair, pose |-> Head(poses)]
          /\ sourceId' = IF HasSelected THEN selected ELSE NoId
      BY <2>4 DEF Solved
    <3>2. /\ Selected \in Profiles
          /\ HasSelected => Selected = Find(profiles, selected) /\ selected \in Ids(profiles)
          /\ ~HasSelected => Selected.stair = "measured"
      BY <1>1, SelectedFacts
    <3>3. StoreInv' /\ UNCHANGED profiles
      BY <2>1, <1>1, StoreAlone
    <3>4. NoId \notin Ids(profiles)
      BY <1>1, FindTyped DEF Profiles, NoId
    <3>5. transform' \in Alignments /\ transform'.stair = Selected.stair
      BY <3>1, <3>2, <2>2, CalibrationAssumption DEF Profiles, Alignments
    <3>6. SourceInv'
      BY <3>1, <3>2, <3>3, <3>4, <3>5 DEF SourceInv
    <3> QED
      BY <2>1, <3>1, <3>3, <3>5, <3>6 DEF CalibrationInv, SessionTypes
  <2>5. CASE Solved(poses, anglesAgree) /\ ~anglesAgree
    <3>1. /\ state' = "uncalibrated" /\ hasQuality' = FALSE /\ samples' = <<>>
          /\ UNCHANGED transform
      BY <2>5 DEF Solved
    <3>2. ~InUse'
      BY <3>1 DEF InUse
    <3> QED
      <4>1. transform' \in Alignments /\ samples' \in Seq(Positions)
        BY <3>1, <1>1 DEF SessionTypes
      <4>2. hasQuality' \in BOOLEAN
        BY <3>1, Zenon
      <4> QED
        BY <2>1, <3>2, <4>1, <4>2, <1>0, Zenon
  <2>6. CASE ~tracked
    BY <2>1, <2>3, <2>6
  <2>7. CASE tracked /\ (moved \/ Len(poses) < RequiredSamples)
    BY <2>1, <2>2, <2>3, <2>7
  <2> QED
    BY <2>1, <2>4, <2>5, <2>6, <2>7
<1>8. ASSUME NEW i \in DOMAIN profiles, SelectProfile(i)
      PROVE  CalibrationInv' /\ UNCHANGED profiles /\ UNCHANGED stored
  BY <1>1, <1>2, <1>8 DEF SelectProfile, session, InUse, SessionTypes
<1>9. ASSUME NEW asked \in BOOLEAN, ApplySelectedProfile(asked)
      PROVE  CalibrationInv' /\ UNCHANGED profiles /\ (Save(profiles') \/ UNCHANGED stored)
  <2>1. /\ HasSelected /\ HasGazeCalibration(Selected) /\ UNCHANGED <<samples, profiles>>
        /\ Save(profiles') \/ UNCHANGED stored
        /\ transform' = Selected.gaze /\ sourceId' = selected
        /\ hasQuality' = Selected.hasQuality
    BY <1>9 DEF ApplySelectedProfile
  <2>2. /\ Selected \in Profiles /\ AlignedToStair(Selected)
        /\ Selected = Find(profiles, selected) /\ selected \in Ids(profiles)
    BY <2>1, <1>1, SelectedFacts
  <2>3. StoreInv'
    <3>1. CASE UNCHANGED stored
      BY <2>1, <3>1, <1>1, StoreAlone
    <3>2. CASE Save(profiles')
      BY <2>1, <3>2, <1>1, SavedStore DEF StoreInv
    <3> QED
      BY <2>1, <3>1, <3>2
  <2>4. SourceInv'
    BY <2>1, <2>2 DEF SourceInv, AlignedToStair
  <2>5. SessionTypes'
    BY <2>1, <2>2, <1>1 DEF SessionTypes, Profiles
  <2> QED
    BY <2>1, <2>3, <2>4, <2>5 DEF CalibrationInv
<1>10. CASE UNCHANGED calibrationVars
  BY <1>1, <1>2, <1>10 DEF calibrationVars, store, session, InUse, SessionTypes
<1> QED
  BY <1>3, <1>4, <1>5, <1>6, <1>7, <1>8, <1>9, <1>10

(* The app starts again with the entries it had. *)
LEMMA RestartStep ==
  ASSUME CalibrationInv, Restart
  PROVE  CalibrationInv' /\ UNCHANGED profiles /\ UNCHANGED stored
<1>1. /\ state' = "uncalibrated" /\ samples' = <<>> /\ transform' = Identity
      /\ hasQuality' = FALSE /\ profiles' = Load(stored.profiles) /\ UNCHANGED stored
  BY DEF Restart
<1>2. UNCHANGED profiles
  BY <1>1 DEF CalibrationInv, StoreInv
<1>3. StoreInv'
  BY <1>1, <1>2, StoreAlone DEF CalibrationInv
<1>4. ~InUse'
  BY <1>1 DEF InUse
<1>5. transform' \in Alignments /\ samples' \in Seq(Positions)
  BY <1>1 DEF Identity, Alignments
<1>6. hasQuality' \in BOOLEAN
  BY <1>1, Zenon
<1> QED
  BY <1>1, <1>2, <1>3, <1>4, <1>5, <1>6 DEF CalibrationInv, SourceInv, SessionTypes

(***************************************************************************)
(* The theorems.                                                           *)
(***************************************************************************)
LEMMA CalibrationStarts == CalibrationInit => CalibrationInv
<1> SUFFICES ASSUME CalibrationInit PROVE CalibrationInv
  OBVIOUS
<1>1. PICK ps \in EarlierStores :
        stored = [profiles |-> ps, foreign |-> Foreign] /\ profiles = Load(ps)
  BY DEF CalibrationInit
<1>2. stored.profiles = ps /\ stored.foreign = Foreign
  BY <1>1
<1>3. Entries(ps)
  BY StoresAssumption, Zenon DEF Entries, UniqueIds
<1>4. Aligned(ps) /\ \A i \in 1..Len(ps) :
                       ps[i].id = BuiltInId /\ ~ps[i].hasQuality => ps[i].gaze = Identity
  BY StoresAssumption, Zenon DEF Aligned
<1>5. StoreInv
  <2>1. Entries(Load(ps)) /\ BuiltInInPlace(Load(ps)) /\ Aligned(Load(ps))
    BY <1>3, <1>4, LoadFacts
  <2> QED
    BY <2>1, <1>1, <1>2, <1>3 DEF StoreInv
<1>6. /\ state = "uncalibrated" /\ samples = <<>> /\ transform = Identity
      /\ hasQuality = FALSE
  BY DEF CalibrationInit
<1>7. ~InUse
  BY <1>6 DEF InUse
<1>8. transform \in Alignments /\ samples \in Seq(Positions)
  BY <1>6 DEF Identity, Alignments
<1>9. hasQuality \in BOOLEAN
  BY <1>6, Zenon
<1> QED
  BY <1>5, <1>7, <1>8, <1>9 DEF CalibrationInv, SourceInv, SessionTypes

(* Every step keeps the invariant, and the entries with it. *)
LEMMA CalibrationKept ==
  ASSUME CalibrationInv, [CalibrationNext]_calibrationVars
  PROVE  /\ CalibrationInv'
         /\ \/ UNCHANGED stored
            \/ Save(profiles') /\ KeepsEntries(profiles, profiles', IF InUse THEN sourceId ELSE NoId)
<1> DEFINE over == IF InUse THEN sourceId ELSE NoId
<1>1. CASE SaveSessionProfile
  <2>1. /\ StoreInv' /\ SourceInv' /\ KeepsEntries(profiles, profiles', over)
    BY <1>1, SaveSessionKeeps DEF SaveSessionProfile
  <2>2. SessionTypes'
    BY <1>1 DEF CalibrationInv, SaveSessionProfile, SessionTypes
  <2> QED
    BY <2>1, <2>2, <1>1 DEF SaveSessionProfile, CalibrationInv
<1>2. CASE DuplicateProfile \/ RetireProfile \/ \E p \in Imports : ImportProfile(p)
  <2>1. CalibrationInv' /\ KeepsEntries(profiles, profiles', NoId) /\ Save(profiles')
    BY <1>2, EntryStep
  <2>2. KeepsEntries(profiles, profiles', over)
    <3>1. NoId \notin Ids(profiles)
      BY FindTyped DEF CalibrationInv, StoreInv, Profiles, NoId
    <3> HIDE DEF over
    <3> QED
      BY <2>1, <3>1 DEF KeepsEntries
  <2> QED
    BY <2>1, <2>2
<1>3. CASE Restart
  BY <1>3, RestartStep
<1>4. CASE \/ startPreview \/ PreviewFinished \/ ClearCalibration
           \/ \E confirmed \in BOOLEAN : BeginCalibration(confirmed)
           \/ \E tracked, anglesAgree \in BOOLEAN, pose \in Positions :
                HandleTargetPose(tracked, pose, anglesAgree)
           \/ \E i \in DOMAIN profiles : SelectProfile(i)
           \/ \E asked \in BOOLEAN : ApplySelectedProfile(asked)
           \/ UNCHANGED calibrationVars
  <2>1. CalibrationInv' /\ UNCHANGED profiles /\ (Save(profiles') \/ UNCHANGED stored)
    BY <1>4, SessionStep
  <2>2. KeepsEntries(profiles, profiles', over)
    BY <2>1 DEF KeepsEntries
  <2> QED
    BY <2>1, <2>2
<1> QED
  BY <1>1, <1>2, <1>3, <1>4, Zenon DEF CalibrationNext

(* An alignment is kept with the stair position it was solved for, in every    *)
(* entry and in use, through saving, copying, hiding, import and restart.      *)
THEOREM StairStaysTheMeasured == CalibrationSpec => []StairIsTheMeasured
<1>1. CalibrationInv => StairIsTheMeasured
  <2> SUFFICES ASSUME CalibrationInv PROVE StairIsTheMeasured
    OBVIOUS
  <2>1. ASSUME NEW i \in DOMAIN profiles, profiles[i].hasQuality
        PROVE  profiles[i].gaze.stair = profiles[i].stair
    BY <2>1, EntryAt
       DEF CalibrationInv, StoreInv, Aligned, AlignedToStair, HasGazeCalibration
  <2>2. InUse /\ sourceId \in Ids(profiles)
        => transform.stair = Find(profiles, sourceId).stair
    BY DEF CalibrationInv, SourceInv
  <2> QED
    BY <2>1, <2>2 DEF StairIsTheMeasured
<1>2. CalibrationInv /\ [CalibrationNext]_calibrationVars => CalibrationInv'
  BY CalibrationKept
<1> QED
  BY <1>1, <1>2, CalibrationStarts, PTL DEF CalibrationSpec

(* No step takes a stored entry away or changes what it holds of an alignment, *)
(* but for saving the calibration in use over the entry it came from.          *)
THEOREM StoredStaysKept == CalibrationSpec => StoredIsKept
<1> DEFINE Kept ==
       /\ stored.foreign \subseteq stored'.foreign
       /\ \A i \in DOMAIN stored.profiles :
            LET p == stored.profiles[i] IN
            /\ p.id \in Ids(stored'.profiles)
            /\ p.hasQuality /\ ~(InUse /\ p.id = sourceId)
               => LET q == Find(stored'.profiles, p.id)
                  IN q.hasQuality /\ q.stair = p.stair /\ q.gaze = p.gaze
<1>1. CalibrationInv /\ [CalibrationNext]_calibrationVars => Kept
  <2> SUFFICES ASSUME CalibrationInv, [CalibrationNext]_calibrationVars PROVE Kept
    OBVIOUS
  <2>1. /\ Entries(stored.profiles) /\ Entries(profiles)
        /\ DOMAIN stored.profiles = 1..Len(stored.profiles)
    BY EntryAt DEF CalibrationInv, StoreInv
  <2>2. CASE UNCHANGED stored
    <3>1. \A i \in 1..Len(stored.profiles) :
            /\ stored.profiles[i].id \in Ids(stored.profiles)
            /\ Find(stored.profiles, stored.profiles[i].id) = stored.profiles[i]
      BY <2>1, EntryAt, FindIs
    <3> QED
      BY <3>1, <2>1, <2>2
  <2>3. CASE /\ Save(profiles')
             /\ KeepsEntries(profiles, profiles', IF InUse THEN sourceId ELSE NoId)
    <3>1. /\ stored'.profiles = profiles' /\ stored'.foreign = stored.foreign
          /\ profiles = Load(stored.profiles)
      BY <2>3 DEF Save, CalibrationInv, StoreInv
    <3>2. ASSUME NEW i \in 1..Len(stored.profiles)
          PROVE  LET p == stored.profiles[i]
                 IN  /\ p.id \in Ids(profiles')
                     /\ p.hasQuality /\ ~(InUse /\ p.id = sourceId)
                        => LET q == Find(profiles', p.id)
                           IN  q.hasQuality /\ q.stair = p.stair /\ q.gaze = p.gaze
      <4> DEFINE p == stored.profiles[i]
      <4>1. p.id \in Ids(profiles) /\ (p.hasQuality => Find(profiles, p.id) = p)
        BY <2>1, <3>1, LoadFacts
      <4>2. p.id # NoId
        BY <2>1, EntryAt DEF NoId
      <4> HIDE DEF p
      <4>3. /\ p.id \in Ids(profiles')
            /\ Find(profiles', p.id).stair = Find(profiles, p.id).stair
            /\ Find(profiles', p.id).hasQuality = Find(profiles, p.id).hasQuality
        BY <2>3, <4>1 DEF KeepsEntries
      <4>4. ~(InUse /\ p.id = sourceId)
            => Find(profiles', p.id).gaze = Find(profiles, p.id).gaze
        BY <2>3, <4>1, <4>2 DEF KeepsEntries
      <4> QED
        BY <4>1, <4>3, <4>4 DEF p
    <3> QED
      BY <3>1, <3>2, <2>1
  <2> QED
    BY <2>2, <2>3, CalibrationKept, Zenon
<1>2. CalibrationInv /\ [CalibrationNext]_calibrationVars => CalibrationInv'
  BY CalibrationKept
<1>3. CalibrationInv /\ [CalibrationNext]_calibrationVars => [Kept]_calibrationVars
  BY <1>1
<1> QED
  BY <1>2, <1>3, CalibrationStarts, PTL DEF CalibrationSpec, StoredIsKept

(* The live worker draws gaze with the calibration in use, or as the HoloLens  *)
(* sent it, unless a new one is being collected.                               *)
THEOREM DrawnStaysAsInUse == CalibrationSpec => []DrawnAsInUse
<1>1. CalibrationInit => DrawnAsInUse
  BY DEF CalibrationInit, DrawnAsInUse
<1>2. DrawnAsInUse /\ [CalibrationNext]_calibrationVars => DrawnAsInUse'
  <2> SUFFICES ASSUME DrawnAsInUse, [CalibrationNext]_calibrationVars PROVE DrawnAsInUse'
    OBVIOUS
  <2>1. CASE startPreview
    BY <2>1 DEF startPreview, DrawnAsInUse, GazeTransform, InUse
  <2>2. CASE PreviewFinished
    BY <2>2 DEF PreviewFinished, DrawnAsInUse
  <2>3. ASSUME NEW confirmed \in BOOLEAN, BeginCalibration(confirmed)
        PROVE  DrawnAsInUse'
    BY <2>3 DEF BeginCalibration, DrawnAsInUse, GazeTransform, InUse
  <2>4. ASSUME NEW tracked \in BOOLEAN, NEW anglesAgree \in BOOLEAN, NEW pose \in Positions,
               HandleTargetPose(tracked, pose, anglesAgree)
        PROVE  DrawnAsInUse'
    <3>1. state = "collecting"
      BY <2>4 DEF HandleTargetPose
    <3>2. CASE state' = state
      BY <3>1, <3>2 DEF DrawnAsInUse
    <3>3. ASSUME NEW poses, Solved(poses, anglesAgree)
          PROVE  DrawnAsInUse'
      <4>1. CASE anglesAgree
        BY <3>3, <4>1 DEF Solved, Draw, DrawnAsInUse, GazeTransform, InUse
      <4>2. CASE ~anglesAgree
        BY <3>3, <4>2 DEF Solved, Draw, DrawnAsInUse, GazeTransform, InUse
      <4> QED
        BY <4>1, <4>2
    <3>4. state' = state \/ \E poses : Solved(poses, anglesAgree)
      BY <2>4, Zenon DEF HandleTargetPose
    <3> QED
      BY <3>2, <3>3, <3>4
  <2>5. CASE ClearCalibration
    BY <2>5 DEF ClearCalibration, Draw, DrawnAsInUse, GazeTransform, InUse
  <2>6. ASSUME NEW i \in DOMAIN profiles, SelectProfile(i)
        PROVE  DrawnAsInUse'
    BY <2>6 DEF SelectProfile, session, DrawnAsInUse, GazeTransform, InUse
  <2>7. ASSUME NEW asked \in BOOLEAN, ApplySelectedProfile(asked)
        PROVE  DrawnAsInUse'
    BY <2>7 DEF ApplySelectedProfile, Draw, DrawnAsInUse, GazeTransform, InUse
  <2>8. CASE SaveSessionProfile
    BY <2>8 DEF SaveSessionProfile, DrawnAsInUse, GazeTransform, InUse
  <2>9. ASSUME NEW p, AddProfile(p)
        PROVE  DrawnAsInUse'
    BY <2>9 DEF AddProfile, session, DrawnAsInUse, GazeTransform, InUse
  <2>10. CASE RetireProfile
    BY <2>10 DEF RetireProfile, session, DrawnAsInUse, GazeTransform, InUse
  <2>11. CASE Restart
    BY <2>11 DEF Restart, DrawnAsInUse
  <2>12. CASE UNCHANGED calibrationVars
    BY <2>12 DEF calibrationVars, session, DrawnAsInUse, GazeTransform, InUse
  <2>13. CASE DuplicateProfile \/ \E p \in Imports : ImportProfile(p)
    BY <2>9, <2>13 DEF DuplicateProfile, ImportProfile
  <2> QED
    BY <2>1, <2>2, <2>3, <2>4, <2>5, <2>6, <2>7, <2>8, <2>10, <2>11, <2>12, <2>13,
       Zenon DEF CalibrationNext
<1> QED
  BY <1>1, <1>2, PTL DEF CalibrationSpec
=============================================================================
