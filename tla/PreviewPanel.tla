----------------------------- MODULE PreviewPanel -----------------------------
(***************************************************************************)
(* The source of the preview: a live worker, a recording that a thread      *)
(* loads, or a recording that plays.  PreviewPanel starts and stops them    *)
(* on the window's thread; PreviewStreamWorker and PreviewFileLoader run    *)
(* on their own and report by queued signals, `reports'.  When a recording  *)
(* has several possible streams the loader waits for the window, which      *)
(* shows a modal dialog: its nested event loop goes on delivering reports,  *)
(* also the one with which the loader is deleted.                           *)
(*                                                                         *)
(* Left out: drawing, texts, progress, settings, the streams of the live    *)
(* worker (PreviewStreams) and the calibration (PreviewCalibration).        *)
(***************************************************************************)
EXTENDS PreviewPlayback

CONSTANTS
    TimelineOf,     \* the frame times of every recording; <<>> has no usable frame
    Ambiguous,      \* recordings with several possible streams: only an XDF has them
    Speeds,         \* the speeds of the speed box
    MaxNow,         \* bound: the monotonic clock stops here
    NoFile

Files == DOMAIN TimelineOf

ASSUME FilesAssumption ==
    /\ TimelineOf \in [Files -> Timelines]
    /\ Ambiguous \subseteq Files
    /\ NoFile \notin Files
ASSUME ClockAssumption == Speeds \subseteq Nat \ {0} /\ MaxNow \in Nat

VARIABLES
    worker,         \* "none", "running", "stopping" (asked to), "ended" (not yet reported)
    pending,        \* pending_recording_path_
    loader,         \* file_loader_, or NoLoader
    reports,        \* signals of the loader on their way to the window
    dialog,         \* the dialog that asks for the streams is open
    recording,      \* recording_frames_, by the file they come from
    timer,          \* playback_timer_ is active
    clock,          \* playback_clock_
    now,            \* playback_elapsed_
    shut            \* to observe: "open", "asked" to shut down, then "undone" by the user

sources == <<worker, pending, loader, reports, dialog>>
playback == <<recording, timer, clock>>
vars == <<sources, playback, now, shut>>

NoLoader == [file |-> NoFile, pc |-> "over", cancel |-> FALSE, mapped |-> FALSE, done |-> FALSE]
Loader(file) == [NoLoader EXCEPT !.file = file, !.pc = "reading"]

Init ==
    /\ worker = "none" /\ pending = NoFile /\ loader = NoLoader
    /\ reports = <<>> /\ dialog = FALSE
    /\ recording = NoFile /\ timer = FALSE /\ clock = InitialClock
    /\ now = 0 /\ shut = "open"

WorkerStopping == worker \in {"stopping", "ended"}        \* worker_stopping_
Loading == loader # NoLoader

(***************************************************************************)
(* The user's controls.  The modal dialog keeps him from all of them.       *)
(***************************************************************************)
\* What the user starts or opens after a shutdown was asked for, it does not stop.
Undo == shut' = IF shut = "asked" THEN "undone" ELSE shut

\* stopPreview: nothing without a worker, or when it was asked already.
StopWorker == worker' = IF worker = "running" THEN "stopping" ELSE worker

\* Mutant: Start stays enabled while a file is loaded.
StartPreviewWhileLoading ==
    /\ ~dialog
    /\ IF worker = "none"
       THEN worker' = "running" /\ timer' = FALSE /\ Undo
       ELSE StopWorker /\ UNCHANGED <<timer, shut>>
    /\ UNCHANGED <<pending, loader, reports, dialog, recording, clock, now>>

\* Only while nothing is loaded or waits to be; with a worker, Start means Stop.
StartPreview ==
    /\ ~dialog /\ ~Loading /\ pending = NoFile
    /\ IF worker = "none"
       THEN worker' = "running" /\ timer' = FALSE /\ Undo
       ELSE StopWorker /\ UNCHANGED <<timer, shut>>
    /\ UNCHANGED <<pending, loader, reports, dialog, recording, clock, now>>

StopPreview ==
    /\ ~dialog /\ StopWorker
    /\ UNCHANGED <<pending, loader, reports, dialog, playback, now, shut>>

\* openRecording: from a button, the recent files or a drop.  With a worker the file
\* waits for its end; a file that comes while another is loaded is refused.
OpenRecording(file) ==
    /\ ~dialog
    /\ IF worker # "none"
       THEN pending' = file /\ StopWorker /\ Undo /\ UNCHANGED loader
       ELSE IF Loading THEN UNCHANGED <<pending, worker, loader, shut>>
       ELSE loader' = Loader(file) /\ Undo /\ UNCHANGED <<pending, worker>>
    /\ UNCHANGED <<reports, dialog, playback, now>>

\* PreviewFileLoader::cancel, which takes no lock: a thread that has just looked and is
\* about to sleep misses the wake-up.
Cancelled(l) == [l EXCEPT !.cancel = TRUE, !.pc = IF @ = "asleep" THEN "asking" ELSE @]

CancelFileLoad ==
    /\ ~dialog /\ Loading
    /\ loader' = Cancelled(loader)
    /\ UNCHANGED <<worker, pending, reports, dialog, playback, now, shut>>

\* The window closes, or Stop Session has come to the preview.
RequestShutdown ==
    /\ pending' = NoFile
    /\ loader' = IF Loading THEN Cancelled(loader) ELSE loader
    /\ StopWorker
    /\ timer' = FALSE
    /\ shut' = "asked"
    /\ UNCHANGED <<reports, dialog, recording, clock, now>>

ShutdownReady == worker = "none" /\ ~Loading

(***************************************************************************)
(* The live worker: run() ends when it is interrupted, and its finished     *)
(* signal opens the file that waited.                                       *)
(***************************************************************************)
WorkerEnds ==
    /\ worker = "stopping"
    /\ worker' = "ended"
    /\ UNCHANGED <<pending, loader, reports, dialog, playback, now, shut>>

\* Mutant: the file that waited is cleared before it is looked at.
WorkerFinishedForgets ==
    /\ worker = "ended"
    /\ worker' = "none" /\ pending' = NoFile
    /\ UNCHANGED <<loader, reports, dialog, playback, now, shut>>

WorkerFinished ==
    /\ worker = "ended"
    /\ worker' = "none"
    /\ pending' = NoFile
    /\ loader' = IF pending # NoFile THEN Loader(pending) ELSE loader
    /\ UNCHANGED <<reports, dialog, playback, now, shut>>

(***************************************************************************)
(* PreviewFileLoader::run.  "reading" and "building" look for a cancel at   *)
(* every report of progress; "asking" is the loop of awaitMapping with the  *)
(* mutex held, and "dozing" lies between its look and the wait, which gives *)
(* the mutex up.                                                            *)
(***************************************************************************)
LoaderStep(pc, next) ==
    /\ loader.pc = pc
    /\ loader' = [loader EXCEPT !.pc = next]
    /\ UNCHANGED <<worker, pending, dialog, playback, now, shut>>

LoadFailed(pc) ==
    /\ loader.pc = pc
    /\ loader' = [loader EXCEPT !.pc = "over"]
    /\ reports' = reports \o <<"failed", "finished">>
    /\ UNCHANGED <<worker, pending, dialog, playback, now, shut>>

\* Unreadable, over a limit, or cancelled.
ReadFails == LoadFailed("reading")

Read ==
    /\ ~loader.cancel
    /\ LoaderStep("reading", IF loader.file \in Ambiguous THEN "asking" ELSE "building")
    /\ reports' = IF loader.file \in Ambiguous THEN Append(reports, "mapping") ELSE reports

AwaitMapping ==
    \/ /\ ~loader.mapped /\ ~loader.cancel
       /\ LoaderStep("asking", "dozing") /\ UNCHANGED reports
    \/ /\ loader.mapped /\ ~loader.cancel
       /\ LoaderStep("asking", "building") /\ UNCHANGED reports
    \/ loader.cancel /\ LoadFailed("asking")

FallAsleep == LoaderStep("dozing", "asleep") /\ UNCHANGED reports

\* Mutant: the wait has no time-out.
WaitUntilWoken == loader.pc = "asleep" /\ UNCHANGED vars

\* The wait of 100 ms runs out.
WaitTimesOut == LoaderStep("asleep", "asking") /\ UNCHANGED reports

BuildFails == LoadFailed("building")

\* Only a whole recording is handed over, after a last look for a cancel.
Build ==
    /\ loader.pc = "building" /\ ~loader.cancel
    /\ loader' = [loader EXCEPT !.pc = "over", !.done = TRUE]
    /\ reports' = reports \o <<"succeeded", "finished">>
    /\ UNCHANGED <<worker, pending, dialog, playback, now, shut>>

LoaderThread ==
    ReadFails \/ Read \/ AwaitMapping \/ FallAsleep \/ WaitTimesOut \/ BuildFails \/ Build

(***************************************************************************)
(* The reports of the loader, each in the window's thread.                  *)
(***************************************************************************)
Report(kind) == reports # <<>> /\ Head(reports) = kind /\ reports' = Tail(reports)

\* requestRecordedStreamMapping, up to the nested loop of the dialog.
MappingRequired ==
    /\ Report("mapping")
    /\ dialog' = Loading
    /\ UNCHANGED <<worker, pending, loader, playback, now, shut>>

\* The dialog ends.  provideMapping takes the mutex, so it waits for a dozing thread.
\* If the load ended while the dialog was open, the loader is gone: the code calls
\* into the deleted object, and the model takes the outcome that nothing happens.
AnswerMapping(accepted) ==
    /\ dialog
    /\ accepted /\ Loading => loader.pc # "dozing"
    /\ dialog' = FALSE
    /\ loader' = IF ~Loading THEN loader
                 ELSE IF accepted
                 THEN [loader EXCEPT !.mapped = TRUE, !.pc = IF @ = "asleep" THEN "asking" ELSE @]
                 ELSE Cancelled(loader)
    /\ UNCHANGED <<worker, pending, reports, playback, now, shut>>

\* applyLoadedRecording: a recording without frames leaves the one before.
ApplyLoadedRecording ==
    /\ Report("succeeded")
    /\ IF loader.done /\ TimelineOf[loader.file] # <<>>
       THEN /\ recording' = loader.file
            /\ timer' = FALSE
            /\ clock' = SetSpeed(SetLooping(SetTimeline(clock, TimelineOf[loader.file]),
                                            clock.looping, now), clock.speed, now)
       ELSE UNCHANGED playback
    /\ loader' = [loader EXCEPT !.done = FALSE]
    /\ UNCHANGED <<worker, pending, dialog, now, shut>>

LoadFailedReport ==
    /\ Report("failed")
    /\ UNCHANGED <<worker, pending, loader, dialog, playback, now, shut>>

LoaderFinished ==
    /\ Report("finished")
    /\ loader' = NoLoader
    /\ UNCHANGED <<worker, pending, dialog, playback, now, shut>>

Reports == MappingRequired \/ ApplyLoadedRecording \/ LoadFailedReport \/ LoaderFinished

(***************************************************************************)
(* Playback.                                                                *)
(***************************************************************************)
PlaybackStep == UNCHANGED <<sources, recording, now, shut>>

TogglePlayback ==
    /\ ~dialog /\ recording # NoFile
    /\ timer' = ~timer
    /\ clock' = IF timer THEN Pause(clock, now)
                ELSE Play(IF AtEnd(clock, now) THEN Seek(clock, 0, now) ELSE clock, now)
    /\ PlaybackStep

\* A tick of playback_timer_ changes something only at the end.
AdvancePlayback ==
    /\ timer /\ AtEnd(clock, now)
    /\ clock' = Pause(clock, now)
    /\ timer' = FALSE
    /\ PlaybackStep

\* The slider, and the jumps by seconds, to the ends and to the next frames.
SeekTo(position) ==
    /\ ~dialog /\ recording # NoFile
    /\ clock' = Seek(clock, position, now)
    /\ UNCHANGED timer /\ PlaybackStep

StepFrame(by) ==
    /\ ~dialog /\ recording # NoFile
    /\ LET frame == FrameIndex(clock, now) + by
       IN clock' = Seek(clock, clock.timeline[IF frame < 1 THEN 1 ELSE
                        IF frame > Len(clock.timeline) THEN Len(clock.timeline) ELSE frame], now)
    /\ UNCHANGED timer /\ PlaybackStep

ChangeSpeed(speed) ==
    /\ ~dialog
    /\ clock' = SetSpeed(clock, speed, now)
    /\ UNCHANGED timer /\ PlaybackStep

ToggleLooping ==
    /\ ~dialog
    /\ clock' = SetLooping(clock, ~clock.looping, now)
    /\ UNCHANGED timer /\ PlaybackStep

Tick ==
    /\ now < MaxNow
    /\ now' = now + 1
    /\ UNCHANGED <<sources, playback, shut>>

(***************************************************************************)
(* The specification.                                                       *)
(***************************************************************************)
Playback ==
    \/ TogglePlayback \/ AdvancePlayback \/ ToggleLooping
    \/ \E position \in 0..Duration(clock) : SeekTo(position)
    \/ \E by \in {-1, 1} : StepFrame(by)
    \/ \E speed \in Speeds : ChangeSpeed(speed)

User ==
    \/ StartPreview \/ StopPreview \/ CancelFileLoad \/ RequestShutdown
    \/ \E file \in Files : OpenRecording(file)
    \/ \E accepted \in BOOLEAN : AnswerMapping(accepted)

Next == User \/ WorkerEnds \/ WorkerFinished \/ LoaderThread \/ Reports \/ Playback \/ Tick

\* The threads end what they do, and the window handles what they report.  Nothing is
\* assumed of the user, who need not answer the dialog.
Fairness ==
    /\ WF_vars(WorkerEnds) /\ WF_vars(WorkerFinished)
    /\ WF_vars(LoaderThread) /\ WF_vars(Reports)

Spec == Init /\ [][Next]_vars /\ Fairness

(***************************************************************************)
(* Properties.                                                              *)
(***************************************************************************)
\* The types, and that a clock plays within its timeline.
TypeOK ==
    /\ worker \in {"none", "running", "stopping", "ended"}
    /\ pending \in Files \cup {NoFile}
    /\ loader \in [file : Files \cup {NoFile}, cancel : BOOLEAN, mapped : BOOLEAN, done : BOOLEAN,
                   pc : {"reading", "asking", "dozing", "asleep", "building", "over"}]
    /\ reports \in Seq({"mapping", "succeeded", "failed", "finished"})
    /\ dialog \in BOOLEAN /\ timer \in BOOLEAN
    /\ recording \in Files \cup {NoFile}
    /\ clock \in Clocks /\ now \in Nat
    /\ shut \in {"open", "asked", "undone"}

\* The live worker and the loader never run at the same time, whatever is started,
\* opened, cancelled or shut down in whatever order: a file that is opened while the
\* worker lives waits, and while it waits the worker has been asked to stop.
\* This is about the two threads: a recording that was loaded before can be played on
\* beside the worker (startPreview, openRecording and the finished slots of both threads).
SourcesApart ==
    /\ worker = "none" \/ ~Loading
    /\ pending # NoFile => WorkerStopping
    /\ reports # <<>> => Loading

\* Playing on, pausing, another speed and the loop switch never move the position,
\* except that Play at the end starts over (PreviewPlaybackClock reanchors first).
PositionIsKept ==
    [][\/ TogglePlayback /\ (timer \/ ~AtEnd(clock, now))
       \/ ToggleLooping
       \/ \E speed \in Speeds : ChangeSpeed(speed)
       => Position(clock', now) = Position(clock, now)]_vars

\* A file opened while the worker lives is loaded once the worker is gone, unless the
\* user opens another one meanwhile, or the preview is shut down.
RememberedFileOpens ==
    \A file \in Files :
        pending = file ~> loader.file = file \/ pending \notin {file, NoFile} \/ shut = "asked"

\* A shutdown is ready at last, also when the loader waits for the dialog or is about
\* to: only a source that the user starts or opens after it can prevent that.
ShutdownEnds == shut = "asked" ~> ShutdownReady \/ shut = "undone"
=============================================================================
