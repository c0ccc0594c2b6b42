# Verification of vicon-lsl-sync

TLA+ modules for the programs of this repository: the Vicon bridge, which sends
marker and segment data of a Vicon server to LSL streams; the desktop window,
which runs the bridge, a preview and LabRecorder; the preview itself, live and of
recordings; the portable Windows launcher; and the HoloLens app, which sends gaze
data. TLC checks the modules on small instances, and TLAPS proves
theorems about them for every value of their constants.

Paths below are relative to `src/vicon-lsl-bridge/src/` unless they say more.
To repeat a run: `tlc -workers 2 -config <cfg> <module>`; to repeat the proofs:
`tlapm <module>.tla`.

## 1. Inventory

### The bridge (`ViconLSLBridge`, `ViconClient`, `detail/ViconOutlet`, `ViconFrameMapper`, `ViconFrameClock`)

*State.* `running_`; the connection and camera rate of the client; one outlet for
markers, one for segments; the known and the published layout, the published rate
and the change count; counters of timeouts, of frames since the layout was checked
and of clean reads; the diagnostic message; the last timestamp.
*Operations.* `run()` (connect, first frame, streams, frames, layout check, reset)
in a thread of its own, and `stop()` from any other thread.
*Interactions.* The Vicon SDK and liblsl answer each call in many ways; every
status goes to the window through a callback.
*Hard.* `stop()` during any call; one of two streams failing; reconnecting with
another layout or rate; time stamps over stalls, repeats and reconnects.
*Correct when* streams fit the frames that are pushed, every way out releases the
connection, the status tells the truth, time never goes back, every layout change
is counted, `stop()` ends the thread, and the bridge comes back by itself.

### The remote control of LabRecorder (`gui/LabRecorderClient`)

*State.* The connection, recording and operation states shown; the batch of
commands under way, its payload and the bytes not yet written; the reply buffer;
two timers; whether a start may have reached the recorder; whether it shuts down.
*Operations.* `connectToServer`, `disconnectFromServer`, `refreshStreams`,
`updateFilename`, `startRecording`, `stopRecording`, `beginShutdown`, and the slots
of the socket and the timers.
*Interactions.* Commands and replies are plain text without sequence numbers, over
TCP; a reply belongs to the command sent last only because nothing else is sent
before it. `abort()` runs `onDisconnected` inside the operation that calls it.
*Hard.* Partial writes, replies in pieces, late or wrong; a connection lost after
`start` was written; closing in the middle of a batch.
*Correct when* a confirmed state is the recorder's state, no start that may have
run is forgotten, and every batch ends.

### The session window (`gui/BridgeWindow`, `gui/SessionSequencer`, `gui/RecorderProcessController`)

*State.* The sequence under way (none, Start Session, Stop Session, Closing);
requests waiting for their turn (start, stop, file check, stream search); the
program that the app started; what it knows of the bridge, preview and workers.
*Operations.* A slot for each click, each report of a worker, each event of the
program or client, each timer. Nearly all end in `pumpSession`, which moves every
waiting request on by a step.
*Interactions.* It owns the client and the program controller, and its worker
threads (bridge, preview, stream search, file check) report by queued signals.
*Hard.* Signals are delivered inside the call that emits them, so the pump runs in
the middle of an operation of the client; reports come late, after their reason is
gone; a close waits for five parts at once.
*Correct when* the window closes only after the recorder confirmed its Stop or was
lost, no Stop is forgotten, nothing starts anew while stopping, a file is checked
alone, Stop Session keeps its order, and both Stop Session and a close end.

### The HoloLens gaze output (`GazeDataProvider.cs`, `GazeLSLOutlet.cs`, `GazePublisherWorker.cs` and `GazeTiming.cs` in `src/hololens-gaze-lsl/Assets/Scripts/`)

*State.* The watcher and the tracker in use; three generations; the time of the last
reading; a queue of readings and one of samples; the outlet's stream, worker and
session.
*Operations.* The watcher's handlers, `StartWatcherAsync`, `RestartTrackingSession`,
`TryGetNextSample`, the conversion in `Update`; the outlet's `Update`; the worker's
loop and `Stop`; `OnDestroy` of both.
*Interactions.* The SDK raises events and resumes after `OpenAsync` on its threads;
the worker takes readings under `trackerGate` and sends; Unity's main thread
converts under the same lock, and starts and joins the worker.
*Hard.* Every `await` lies between a check and its use; a reading is located outside
the lock; the join gives up after 500 ms; the session read before a join is used
after it.
*Correct when* samples leave in order and never for an older session, a worker keeps
its stream, what is opened is used or closed, and the stream follows the tracker.

### The preview panel (`gui/PreviewPanel`, `PreviewFileLoader`, `preview/PreviewPlaybackClock`)

*State.* The live worker and the loader, either of which may be ending; the path of a
recording that waits for the worker to end; the recording shown; the playback clock
and its timer.
*Operations.* Start and Stop of the live preview, opening a recording from three
places, cancelling it, naming its streams in a dialog, playing, seeking, speed and
looping, and `requestShutdown`.
*Interactions.* Both threads report by queued signals; the loader waits in
`awaitMapping` until the window has named the streams, polling every 100 ms.
*Hard.* A file opened while the worker lives; a cancel or close in any phase of the
load, also just before the loader sleeps; a modal dialog whose nested event loop
delivers the end of the loader; clock operations whose position depends on each other.
*Correct when* live data and files never mix, a file that was asked for is opened, no
operation moves the position unasked, and a close does not wait for ever.

### Calibration and stream bindings (`gui/PreviewPanel`, `gui/CalibrationProfileStore`, `gui/PreviewStreamWorker`, `gui/SessionConfiguration`, `preview/PreviewFrameAssembler`)

*State.* The calibration in use with its origin, the poses collected, the saved
profiles and the one selected, the transform the worker draws with; for each role of
the live preview the source to follow, the inlet, the latest sample and the frame.
*Operations.* Collect, clear, apply, save, duplicate, import, retire, restart of the app
with an older store; connect, poll, recheck of a silent stream, loss, end.
*Interactions.* The worker gets transforms through a mutex and reports the identity of
the streams it opened by signals; liblsl rejoins an outlet of the same source unseen.
*Hard.* The selected profile is not the one in use; the estimate of the built-in
profile moved in a later version; outlets that come back with another layout or uid,
or a foreign device with the same name; inlets replaced between two frames.
*Correct when* the worker draws with the calibration in use, a profile keeps the
measurement it was made of, nothing stored is lost, the followed source is kept and
found again, and a frame shows only what was received.

### Recordings (`preview/PreviewCsv`, `PreviewXdfReader`, `PreviewXdfMapping`, `PreviewXdf`)

*State.* While a file is read: per stream the kept samples, their stride, the newest
sample that is held back, the clock offsets; afterwards the joined streams and frames.
*Operations.* One row or chunk after the other, thinning by count and by memory, repair
of times, joining of the pieces of a stream, mapping to roles, matching into frames.
*Hard.* Thinning in the middle of a file, by two limits; times that repeat or go back;
pieces that overlap; the nearest sample at either end and at the limit.
*Correct when* times go up, each list is thinned evenly, the ends of what was kept
stay, and each frame shows the nearest samples.

### The portable launcher (`packaging/windows/portable_*.cpp`)

*State.* The executable with its footer, its checksum and perhaps a signature; the
temporary and the destination folder; the ZIP and the script in it; the handles that
keep others from changing them.
*Operations.* The calls of `wWinMain` in their order, and the cleanup after any of them.
*Hard.* Every call may fail; files are closed and opened again by name; folders cannot be
removed while they are held; signing moves what is looked for.
*Correct when* only the ZIP that was built is run, nothing is left behind, the user's
folders are not touched, and a sound executable starts.

### The other parts

| Part | State and operations | Modelled |
|---|---|---|
| Frame clock (`ViconFrameClock.h`) | last frame, rate and time; `timestamp`, `reset` | no: section 5 |
| Frame mapper and diagnostics (`ViconFrameMapper`) | the samples of a frame, aggregated read errors | `enforceViconTimestamp` only |
| Stream search and inventory, setup check (`gui/StreamDiscoveryWorker`, `StreamInventory`, `SetupCheckPolicy`) | one worker; pure rules on its result | the search as the window sees it, the identity of streams |
| File check (`gui/RecordingVerifier`) | one worker, cancel | as the window sees it |
| Session file and file names (`gui/SessionConfiguration`, `LabRecorderFilenamePolicy`) | conversions to and from text | the choice of a stream, the commands of a Start |
| HoloLens model target (`VuforiaModelTargetPoseOutlet.cs`, `ModelTargetPoseReference.cs`) | an average of reference poses | no: section 5 |
| Command line, addresses, layout of widgets, schemas, packaging scripts | none that lasts | no: section 5 |

`PROJECT.json` lists the same parts with their files, and under `hazards` the places
in the code that are hard to test, with the properties that watch them.

## 2. Modules

### `ViconBridge` (with `ViconTimestamps`, `MCViconBridge`)

One action per stretch of `run()` between two calls that can answer in more than one
way or be overtaken by `stop()`; `pc` says where the thread is. `Publish` is
`refreshStreams`, `PushResults` is `pushSample`, `Report` is `reportStatus`,
`Disconnect` is `ViconClient::disconnect`, `enforceViconTimestamp` is the function of
that name on times `0..MaxTime`, infinities and NaN. `history` and `inOrder`
only observe: what left the bridge, and whether in order. A frame of which a push fails
ends in two steps: `SendFrame`, with what `handleDiagnostics` may report over the stream
just destroyed, and `ReportOutletFailed`. A layout is a set of markers and
a set of segments; sample values and message texts are left out. `LinkLost` (the SDK
loses its server) and `Stop` may come between any two actions.

### `LabRecorderClient`, `RecorderControl`

`LabRecorderClient` is the client, the connection and the recorder behind it. The
client is one record with the members of the class. An operation of the code is
written as a function of that record, so that `failActiveConnection` inside
`writeNextCommand` inside `continueShutdown` is composed as in the code; the actions
are the public operations and slots. Writing may take all, part or none of a
command; replies travel as the tokens "O", "K", space, "E", "R", and arrive in
pieces of any size. The recorder (external) carries out a line at once or not at
all, answers OK or an error, and may die, or record to a file named earlier.
`asked` and `letGo` observe: the file of the last Start, and that the user
detached from a recording.

`RecorderControl` is what the window may rely on: connection, confirmed recording
state, operation, whether a start may have run, and when each of them may change.
It knows no batches, bytes, replies or timers. `LabRecorderClient` implements it:
`ImplementsControl == Control!Spec`, with `Control` an instance whose variables are
parts of the client and of the recorder.

### `SessionOperations`, `SessionWindow`

The window, the program controller, and client, bridge and preview as the window sees
them. Qt delivers a signal inside the call that emits it, so the operations are
functions of the whole session that pass through each emission, and the pump in it,
in the order of the code. `SessionOperations` has these functions, `SessionWindow` the
variables, the slots and the actions: one slot with everything it calls. A batch of
the client is one unit here, with the moment at which `start` is handed over:
`LabRecorderClient` has the rest.

`pumpSession` is called by the operations that it calls. It does not recurse: a call
within a pass only sets `session_pump_again_`, and the outer call makes up to four passes.
So `pumpSession` is a constant of `SessionOperations`, and `SessionWindow` takes that module
twice: as `Within`, with the pump that only takes note (`PumpAgain`), for what happens in
a pass, and with the pump made of such passes for all else. `FailingLaunches` are the
programs whose start may fail. `kindLeft` only observes: the mode was changed after a
program for selected streams failed to start and left its kind (section 3). Left out: texts,
fields and settings, dialogs, the layout of the window, the search for a program on disk (its result is an input).

### `GazeTracker`, `GazePublisher`, `MCGazePublisher`

`GazeTracker` is the provider: an action is a region between two `await`s or two
takings of `trackerGate`. `main` is what Unity's thread is in the middle of;
`starts` and `opens` hold the calls that wait at an `await`, with the generation they
compare afterwards; `draining` says that the publisher holds the lock while it takes
several readings. Watchers and trackers are numbers, `shown` and `held` are what the
SDK has shown, and holds open; an event may come late from any watcher that ever had
handlers. A reading has the ticks of its capture, and what was done to the wall clock
since, of which `StampOf` is the effect. `GazePublisher` extends it with the outlet
and the thread. A join is two actions, `BeginStop` and then `Stopped` or
`StopTimesOut`, with the thread and the SDK going on between them. The session and
ticks that a sample carries are to observe; the code sends its stamp. Left out: rays,
calibration, counters, rates and delivery reports; the time at which the catch-up
asks, for which an answer may be missing at any moment; 90 Hz is the only rate, since
no other is selected.

### `PreviewPlayback`, `PreviewPanel`, `MCPreviewPanel`

`PreviewPlayback` has the operations of `PreviewPlaybackClock` as functions of a record
with the members of the class; times are whole ticks. `PreviewPanel` composes the panel,
the live worker, the loader thread and the clock. An action is one handler of the
window's thread or one region of a thread between two points at which it can be
overtaken. The loader's `pc` tells looking (`asking`), about to sleep (`dozing`, mutex
held) and sleeping apart, because `cancel()` takes no lock and a wake-up in between is
missed. `reports` is the queue of its signals; while `dialog` holds, the user's other
controls are blocked, but the reports go on. Times of recordings come with the file
(`TimelineOf`); whether the XDF needs its streams named is a property of the file.

### `PreviewCalibration`, `MCPreviewCalibration`

The calibration of the panel, the store of profiles and the worker's transform, in the
one thread of the window. A pose is a position on a line; an alignment is the stair
position it was solved for with the pose the samples agree with. Whether angles agree,
and what the user answers, are inputs. `Load` is what a later version makes of an
earlier store, `Save` keeps the entries it could not read. `label` stands for what the
quality text describes. `StoresAssumption` says of files and earlier stores that the app
wrote them: an alignment belongs to the stair position of its entry, and no two entries
have the same id.

### `PreviewStreams`

One role of the live preview: an action is one connection attempt with what the resolver
found in 50 ms (any set of the outlets there), one poll with the frame it may complete,
one report handled by the panel, or a change on the network. The other roles appear as
an input of `Poll`, since a frame they make shows this role's latest sample. `Master` is
whether the role is the markers. liblsl (external) is `Rejoin` and the throwing of a
read from a stream that names no source.

### `PreviewRecordings`, `MCPreviewRecordings`

A file is made up while it is read, row by row and sample by sample; the reader's lists,
strides, held samples and limits are as in the code, memory is counted in samples. Times
are whole ticks, a tick being the step to the next double, which is what the repair
adds. `BuildRecording` maps, joins, thins and matches at once, since nothing comes
between: `Merged` sorts the samples of the pieces by their time (`Rank` is the place of
one), `Join` and `Stitched` make one stream of them, `NearestSample` is the binary
search. What the code does again and again (halving until the limit holds, repairing and
joining sample by sample) is a recursive function on numbers; halving has as many passes
as there are items, which is proved to be enough.

### `PortableLauncher`, `MCPortableLauncher`

Each action is a call of `wWinMain` with each of its outcomes, and `Change` is another
program, or the disk, that changes a file which nothing holds. An executable is the
places of footers, checksums, ZIP and signature; a checksum is the range of which it was
taken, which is SHA-256 without collisions. `PackedRight` is an executable as
`package_gui_single_exe.ps1` writes it and as signing leaves it. A removal may fail
anywhere, and the listing of a folder may throw (`ListingThrows`), which ends the process
where nothing catches it. The files unpacked from the ZIP are not compared again, in the
code or here.

### Proof modules

These hold the theorems (section 4), the inductive invariants and the lemmas about the
operators: `ViconBridge_proofs`, `LabRecorderClient_proofs` (with the abstract
`RecorderControl`), `SessionWindow_proofs`, `GazePublisher_proofs` (with `GazeTracker`),
`PreviewPanel_proofs` (with `PreviewPlayback`, and `PreviewCalibration` in its second
part), `PreviewRecordings_proofs` (with `PreviewStreams` in its last part) and
`PortableLauncher_proofs`. Two components share a module where both belong to the
preview; so the names of `PreviewCalibration` and `PreviewStreams` (`CalibrationInit`,
`StreamsNext`, ...) are not those of the others.

`SessionOperations` holds lemmas of its own: what each operation keeps, whatever pump it
calls. They stand there because both instances need them, `Within!` and the unnamed one.

## 3. Runs

| Run | What it asks | Distinct states |
|---|---|---|
| `bridge` | all properties of the bridge, safety and liveness | 110,080 |
| `recorder_client` | all properties of the client, and that it implements `RecorderControl` | 49,286 |
| `session_recorder` | the window with a recorder only, both recording modes and kinds of program | 206,400 |
| `session_guided` | Start and Stop Session, close, with bridge, preview and selected-stream recorder | 38,472 |
| `session_close` | violation: a close always ends | - |
| `gaze` | all properties of the gaze output, safety and liveness | 578,717 |
| `preview` | the panel with worker, loader, dialog and playback clock | 66,960 |
| `calibration` | collecting, using and storing calibrations, over versions | 416,236 |
| `streams` | one role of the live preview over changing outlets | 395,800 |
| `launcher` | every failing call with signed, padded and damaged executables | 1,251 |
| `recordings` | CSV and XDF files read, thinned, repaired, joined and matched | 244,476 |
| `recordings_last_sample` | violation: the last sample of a stream is never lost | - |

Several properties are conjunctions of named parts that a reader may want to see broken
one at a time: `BridgeSafe`, `ConnectionSafe`, `WindowSafe` and `PublisherSafe` join the
types with the state invariants, `StopIsRespected` the three action properties about a
Stop, `SequencesEnd` the two about sequences of the window.

**Bounds.** *bridge*: `MaxTime = 1` gives two finite times besides both infinities and
NaN, enough for equal, earlier and later candidates and for a last time with no
finite successor (with 2 the same run passes in three minutes; `TimesIncrease` is
proved for every `MaxTime`). `StatusInterval = 2` and `MaxFrameTimeouts = 2` are the
least values with a step that counts and one that reaches the limit. Three layouts
include the empty one and one without segments; two layout changes allow a change
and a change back. One rate suffices, for the rate is 0 before it is read, and 0 and
100 differ by more than a percent.
*recorder_client*: two file names tell the asked name from an earlier one. Replies in
flight and in the buffer need no bound: one command is open at a time, which
`TypeOK` states and the proof uses.
*session_…*: no counters. The constants choose which controls the user has; the
two passing configurations together enable every action. In `session_recorder` either
mode can be chosen at any time, and a program of either kind be found and fail to start.
`session_guided` leaves the
remote-controlled mode to `session_recorder`, which in turn has no bridge and no
preview: a run with everything is beyond ten minutes.
*gaze*: two watchers and two trackers allow one to replace the other and an answer to
come for the one before; an action that needs another number is refused (`MayRestart`
is the bound of a restart). Three captures fill a queue of two and push one out. The
clock may be set forward or back after the second capture: its stamp is then 0, or it
is dropped. With that span, `CollapseIfOverSpan` never collapses in the run: both
queues are checked when they are filled. Two failures in a row make the limit, and two
conversions an `Update`. The theorems hold for every value of all these.
*preview*: two recordings, an XDF that asks for its streams with frames at equal and at
larger distances, and a CSV without frames; two speeds, one that is not the initial one;
four readings of the monotonic clock, so that a play runs to the end at double speed
and the clock can be re-anchored before and after. Longer runs only repeat these.
*calibration*: two positions further apart than the tolerance, two samples per
measurement, and at most three profiles: the built-in, the one in use and another one.
Three stair positions: the measured one, the estimate that a later version moves, and that
of an imported file. A second file holds an alignment made by hand, without samples.
*streams*: two outlets, of which the second can be the first's replacement with the same
or another source or layout, or an outlet without a source. `MaxSignals = 0` lets the
worker connect once the panel has handled the reports; the theorems hold for any
number. The role is one that is not the markers; a marker frame always has its own
sample. *launcher*: a packed executable of eleven places, with a footer-like text and
a bare prefix among its constants; unsigned, signed and padded; the window reaches
just far enough to see the false footer. *recordings*: two streams of up to five samples
and a limit of three frames and five units of memory, with which both ways of thinning
come more than once; ten rows double the stride of the CSV three times.

**Fairness.** *bridge*: weak fairness of the thread, whose calls return and whose waits
end; strong fairness of a successful connect and a successful session opening, which
says that a server asked again and again answers at last. `KeepsReconnecting` excuses
a connection lost for ever again. `StopLeadsToStopped` does not lean on the strong
conditions: nothing of the kind is enabled after `stop()`.
*recorder_client*: only the command timer fires.
*session_…*: connects succeed or fail, batches end (which `BatchEnds` of the client
shows), a program starts or fails to, and ends once killed, workers end when asked to,
timers fire, and the heartbeat and close poll run. Nothing is assumed of the user,
the connection, or a program merely asked to stop. Most conjuncts are written as
`[]<>~waiting \/ []<><<A>>_vars`, weak fairness with ENABLED written out, because TLC
is slow to evaluate ENABLED of such deep actions.

*gaze*: weak fairness of the thread, whose calls return; strong fairness of conversion
and of following the tracker, because Unity calls every `Update` again and again and
the lock, held only for one batch of readings, comes free again and again. Nothing is
assumed of the SDK, of `OnDestroy`, or of a join that gives up, which it may do every
time while the thread is inside a call.

*preview*: weak fairness of the worker's end, the loader's thread and the window's
handlers of reports; `WaitTimesOut` is part of the thread. The user need not answer the
dialog. *streams*: weak fairness of the worker, of time and of the panel's slot, and
strong fairness of a connection attempt that finds all outlets: the resolver is asked
every second and cannot for ever overlook one that is there.

**Deadlock** is checked except in the session, gaze and recordings runs: once the window
is finalized, the app destroyed, or a file loaded, nothing happens any more. The
launcher's end is an explicit stutter.

Every property of a passing run has a mutant in `PROJECT.json`: a changed form of a
definition, as a bug would change it, with which TLC finds the property violated.

### What the violations show

* `session_close` (`gui/LabRecorderClient.cpp:251`): close while the client is
  reconnecting to a recorder that may record. `onConnected` does not continue the
  shutdown, so no Stop is sent, and the window stays open. `CloseEnds` in the passing
  runs names this case, `MissedStop`, and nothing else but a preview started again.
* `recordings_last_sample` (`preview/PreviewXdfReader.cpp:625`): the memory limit is
  enforced between two chunks without regard to the newest sample of a stream. If that
  was just stored, and nothing holds it back, the halving can drop it for good, although
  line 460 says "the newest is held so the stream's last sample is never lost".

Other disagreements between code and documents, described here without a run of their
own: `layout_change_count` includes a layout whose streams never opened
(`ViconLSLBridge.cpp:232` against `ViconLSLBridge.h:33`). A close while `start` is still
to be sent sends it and then stops it (`gui/LabRecorderClient.cpp:155`);
`docs/runtime-state-machines.md:219` says it is cancelled. When the
recorder hangs up during a batch of Start Session, the signal reaches the pump before
the batch is cleared, the connect that it starts is refused, and Start Session waits for
the user (`gui/BridgeWindow.cpp:842`). `OnDestroy` ignores that the join gave up, and no
`Update` follows to try again (`GazeLSLOutlet.cs:503` against
`docs/runtime-state-machines.md:459` and `463`). The properties of the passing runs name
these cases where they meet them.

A selected-stream recorder that failed to start leaves its kind behind
(`gui/RecorderProcessController.cpp:219`: `onError` sets the state and leaves `kind_`, which
`onFinished` clears). When the user then records every stream, the window takes the
program that is not there for its recorder: a close asks it, not LabRecorder, whether
all is stopped, a Stop is asked of it and never sent, and a file is checked while
LabRecorder records. `session_recorder` goes through this. `ClosesSafely`,
`StopRequestIsBacked`, `FileCheckedAlone` and `StopIsKept` are false of the code there, and
name the case by `kindLeft`; without it TLC shows each of them violated. `ClosesSafely` and
`StopIsKept` give it up only while the kind is still the one left. `EndsOnlyStopped`,
`NothingStartsAnew`, `StopsInOrder` and `CloseEnds` hold even so.

A push that throws has destroyed its stream (`detail/ViconOutlet.cpp:131`) when
`handleDiagnostics` runs after both pushes (`ViconLSLBridge.cpp:285`), with Streaming as
the state it reports at 300 or 313; Connecting is reported only afterwards, at 157. In
between the window shows Streaming over a stream that is gone. `StatusIsTrue` names this
place of the thread, `OutletFailed`.

The cleanup of the launcher lists folders with the throwing `operator++`
(`portable_safe_fs.cpp:289`), and is called outside the `try` block
(`portable_launcher.cpp:146` and `152`). A listing that fails there ends the process: the
temporary folder may stay, and the exit code is not `result`, even after an `--extract`
that went well. `LeavesNothing` names this end (`pc = "terminated"`), and `SoundOneStarts` is
about a process that returns `result`.

Seen while modelling, without a property: a reading in conversion when its tracker is
removed still enters the sample queue, for a removal leaves `sessionGeneration` alone;
it is sent, or cleared when the next tracker is activated. The removal of one tracker
makes the `OpenAsync` of another stale, which is then closed and not opened again
(`GazeDataProvider.cs:768`). Until its next `Update` the outlet sends the samples of a
new session on the old stream. A clock set forward gives a stamp earlier than the one
before. In the desktop program, Stop on a selected-stream recorder that then fails
to start leaves `stop_requested_` set (`gui/RecorderProcessController.cpp:59`).

Of the preview: its Start, and opening a file, stay usable while the window closes, and
what they start is not stopped (`gui/PreviewPanel.cpp:544`; `ShutdownEnds` excuses it).
The dialog that names the streams may be answered after the loader ended and was
deleted (`gui/PreviewPanel.cpp:896`); the model takes the outcome that nothing happens. A
cancel after the loader's last look still shows the file. A recording that stays loaded
can be played while the live preview runs (`gui/PreviewPanel.cpp:1091`), which
`SourcesApart`, about the two threads, does not exclude. `startPreview` and
`requestShutdown` stop the playback timer but not the clock, which goes on by itself.
While a new calibration is collected, the one before goes on being drawn. A new
calibration that the user declines leaves "canceled" as the quality text, whatever is
in use. Candidates of an unclear search fill an empty source binding, as if one had been
chosen (`gui/PreviewPanel.cpp:584`). The stride of a joined stream is shown as 1
(`preview/PreviewXdfMapping.cpp:102`), and a joined stream may hold its last time twice
(`154`). `load()` moves the stair position of the built-in setup when its alignment has no
samples (`gui/CalibrationProfileStore.cpp:188`), although an alignment without samples
counts as one (`hasGazeCalibration`, `94`); it is then no longer the position the
alignment was made for. The app does not write such an entry itself, and `StoresAssumption`
leaves it out.

## 4. Theorems

All for every value of the constants that the named assumptions of the modules
allow.

**Bridge** (`ViconBridge_proofs`, from `BridgeAssumption` and `MaxTimeAssumption`).
`TypeCorrect`: the types are inductive by themselves, one lemma per group of
variables. `SessionSafe`: `ConnectionIsReleased`, `StreamsFitSession` and
`StatusIsTrue`. None is inductive alone: that streams fit needs that the client is
connected while the thread is inside a session, and that the status is true needs
the streams, so their conjunction with `TypeOK` is the inductive invariant.
`BridgeStaysSafe` is its part that the run checks as `BridgeSafe`.
`TimesAlwaysIncrease`: the strengthening is that the two observed times are not
later than `lastTimestamp`; then `EnforceIncreases`, the lemma about
`enforceViconTimestamp`, gives the rest. `ChangesAlwaysCounted`: an action property,
from the invariant that the count has grown since streams were opened last, or the
published layout is still the layout opened then. `StatusIsTrue` holds but at
`OutletFailed`, between the report of the diagnostics and the one of the failed push.

**Remote control** (`LabRecorderClient_proofs`, from `RecorderAssumption`).
`ControlKeepsPromise`: the abstract remote control remembers a start that may have run,
and what it confirms is true. `ClientImplementsControl`: every slot of the client
is a step of that abstract control, or none. The refinement needs the invariant
`ClientSafe`: a batch keeps its shape (a start only as the last line of a batch that
starts, a stop only alone), at most the current line is in flight, and an `OK` is in
the buffer or on the way only when that line was carried out, at most one `OK`, so
that the client confirms what is so. From the refinement and `ControlKeepsPromise`
follow `StartStaysRemembered` and `ConfirmedStaysTrue`; `NothingIsLeft` follows from
the invariant alone. Two lines are in flight only when the user detaches during a
shutdown: the batch that ends lets the shutdown write its Stop before the socket is
aborted (`DetachStep`).

`ConnectionStaysSafe` adds that one command at most is unanswered and that buffer and
replies stay small. This needs `Traffic`, what may be in the buffer and behind it: while
an answer is on its way, that answer with a space at most behind its OK; between two
commands that space at most. `AskedFileIsRecorded`: a recorder that begins to record does so to the file of
the last Start. Its invariant `Named` follows a batch that starts: the line before the
`start` names the file, and once it was carried out, over this connection, the recorder
has that name. It holds for every set of files.

**Session window** (`SessionWindow_proofs`, from `WindowAssumption`).
`WindowIsSafe`, `FileIsCheckedAlone`, `StopRespected` and `StopGoesInOrder` state all that
the runs check of the window but its liveness, until the mode is changed with the kind
of a failed program left: `WindowIsSafe` says `kindLeft` or `WindowSafe`, `FileIsCheckedAlone`
names the case itself, and the two about steps assume `[]~kindLeft`. They share one inductive invariant, `Safe`
and `Calm`, because its parts lean on each other: that a file is checked alone
(`FileIsAlone`) needs that a start that waits has found nothing that records
(`FreshStart`); that whoever waits for a Stop waits for one under way (`Backed`) needs that
the client tells of an operation only while that is its batch (`Settled`), that without a
connection nothing is under way (`CutIsKnown`), and that the flags of a Stop, of a start,
of a close and of the end of the program exclude each other (`Agrees`). `LocalIsQuiet` keeps
the two ways of recording apart: while `~kindLeft`, no change of the mode finds a selected
program (`ChangeModeGood`), and that is the only step that would break the invariant. `Calm` says that outside the pump no Stop is left unsent
that it could send.

The argument follows the structure of the code. A slot runs in the middle of operations
of the client, when `Safe` may not hold, but `Agrees` does. So each operation has a lemma
with `Agrees` as its hypothesis, and a relation of the session before to the session after
as its conclusion: `Keeps` for those of the pump, `Follows` for those of the client, both
transitive, so that a caller keeps what its callees keep. All of them assume
`PumpKeeps`, that the pump itself is such an operation. `WithinPumpKeeps` proves that of
the pump that only takes note; so the lemmas hold within a pass (`OnePassKeeps`), four
passes leave nothing to make up for (`PumpCalms`), and `PumpsKeep` is the same for the
pump outside. Then each slot leaves a `Good` session (`...Good`), which is the invariant
again and both action properties, each action is such a step (`...Step`), and the
theorems follow.

**Gaze output** (`GazePublisher_proofs`, from `GazeAssumption` and `LimitAssumption`).
`NothingStaysOpen` and `ActiveStaysOpen` share one inductive invariant, since a tracker
is closed by the step that makes another one active or makes its `OpenAsync` stale: no
two trackers that wait, or are active, have the same number; an `OpenAsync` with the
present lifecycle generation is for a tracker that is held; and one restart at most is
under way, which can begin only after the first start got its answer.
`WorkerKeepsItsStream` is inductive with the shape of `thread`. Every step leaves both
queues alone, empties them, or is one of four operations (`EveryQueueStep`).
`QueuesStayInOrder`, on which `SamplesLeaveInOrder` rests, needs that samples, the reading
in conversion and raw readings lie in this order, and that none is later than the last
reading accepted while there is a tracker. For `SamplesLeaveInOrder`, `Past` is the set of
samples that come before all that is on its way; it only grows (`PastNext`), and what
was sent, or is being sent, is in it.

`PublisherStaysSafe` joins `ActiveStaysOpen` and `WorkerKeepsItsStream` with the types,
which are the limits of the code: queues no longer than `MaxQueuedSamples`, one start and
one restart at a time, numbers given once. `PublisherInv` is what these need: numbers of
watchers and trackers are given in turn, each `OpenAsync` waits for a tracker of its own,
and what the main thread and the publisher are doing fits the session.

**Live streams** (last part of `PreviewRecordings_proofs`, without an assumption on the constants).
`FollowsNoOther`: `KeepsToItsSource` is inductive together with the fact that between two
workers nothing is connected and no source is remembered, since the binding changes
then; `OpenKeeps` shows that what is opened is the wanted source, or becomes it.
`OnlyReceivedIsShown`: the strengthening is that a fresh sample makes `latest` a sample;
the zeros with which an inlet begins are only there while it has none.

**Preview panel** (`PreviewPanel_proofs`, from `FilesAssumption` and `ClockAssumption`).
`SourcesStayApart`: live worker and loader never run together (playback of what is loaded is another
matter, section 3). That is inductive only with
`FinishedIsLast`, that the report of a loader's end is its last one and comes when its
thread is over: a second one would delete the next loader. `PositionStaysKept`, an action
property: play, pause, speed and the loop switch leave the position, for every timeline,
speed and moment. It needs that a clock rests within its timeline (`ClockInv`), and what
each operation of the clock does (`ReanchorFacts` and the lemmas after it). `PreviewTypesStay` adds the types.

**Calibration** (second part of `PreviewPanel_proofs`, from `CalibrationAssumption` and
`StoresAssumption`, which the app keeps for its own files). `StairStaysTheMeasured` and
`StoredStaysKept` rest on `CalibrationInv`. That an alignment stays with the stair position
it was solved for is not inductive alone: an entry may be saved over only while it stays
measured, and the entries of the window have to be those that a restart would load
again, with the built-in setup where `load()` would leave it, or a restart could move it away
from its alignment. `StoredStaysKept` says of every step that no entry goes and none is
changed but by saving over the entry the calibration came from. `DrawnStaysAsInUse` follows
from what each step does to the worker's transform.

**Recordings** (`PreviewRecordings_proofs`, from `RecordingsAssumption`).
`TimesKeepGoingUp`, `ListsStayEven`, `EndsStayKept` and `NearestStayShown` are the four
properties of the run, for every file, every limit and every set of streams. Even are the
samples of each XDF stream and the frames of a CSV; of joined streams and their frames
only the number is bounded. The ends kept are the rows of a CSV, and of an XDF the kept
samples of the pieces, not those of the file (`recordings_last_sample`). `LoadInv`
says what is so in each phase of a load: of the rows, the first is kept, the last is kept
or pending, and none between was due (`Read`); each stream holds exactly the samples on
its stride, with the newest pending when it is not due (`Grid`); after the end of the
chunks its list is even and its corrected times go up (`Indexed`); and the frames made of
the joined streams have the ends and the nearest samples. The lemmas carry most of it:
what halving keeps (`Halved`), the repair of times (`RepairedTimes`), sorting by rank
(`RankOf`, `MergedEnds`), joining of what may overlap (`StitchedTimes`), and the binary
search (`NearestIs`). An induction over numbers is done with their least element
(`LeastNumber`), the one over a recursive function with `Recursion` and `StaysIn`, for which
the predicate is a set and the step a function. `BoundCacheEnds` and `EnforcedEnds` show
that the halving has passes enough: what is over a limit after them has nothing left to
halve, where the reader throws.

**Portable launcher** (`PortableLauncher_proofs`, from `LauncherAssumption` and
`PackedAssumption`: the packaging writes one checksum, that of the ZIP, which
`package_gui_single_exe.ps1` makes sure of).
`LauncherInv` says at each call what is held, which files are whole, and how the
destination looks; it is inductive, one step per action. `OnlyTheBuiltRuns` adds
`FoundIsBuilt`: what passes the comparison of checksums is the ZIP of that executable,
undamaged. `LaunchLeavesNothing` follows from the invariant alone: the destination is
touched only after this run made it, and no handle is left when folders are removed; when a listing
throws, the process is over with the obstacle noted.
`SoundOneAnswers`: an executable that is `PackedRight` starts, unless a call fails. Its
footer is the last one within reach (`PackedFooter`), for every size, signature and set of
places that look like a footer, so that the search finds it (`PackedIsFound`), and from
there nothing but a failed call makes the result other than 0 (`Answering`).

**Only model-checked.** All liveness (`CloseEnds`, `SequencesEnd` and their like), which
TLAPS does not reach. Every invariant and action property of a passing run is a theorem.

## 5. Not modelled

* *Frame clock* (`ViconFrameClock.h`): arithmetic of one function on doubles, without any
  interleaving; `tests/` has cases for its wrap. The bridge takes any time that it may
  give, so that no property rests on it.
* *Model target* (`ModelTargetPoseReference.cs`): an average of poses in one Unity
  callback; what could go wrong is numerical.
* *Rules without state*: the setup check, the checks of a finished file, stream inventory
  and status texts. Their verdicts are inputs of `SessionWindow`; to repeat their tables
  in TLA+ would be to write them twice.
* *Conversions*: the session file, the templates of file names, schemas, command line and
  addresses.
* *Loops of discovery and verification*: both are one pass with an interruption; what
  they report, and when, is in `SessionWindow`.
* *Numerics* of the preview: quaternions, averaging, meshes and projections.
* *Widgets and layout*, image export, fields and settings.
* *Of the gaze app*: the schedule of the catch-up, its suspension after three empty
  results, delivery counters and measured rates. Captures are numbers that go up, so that
  a span of ticks is not a time.
* *Build and packaging scripts*: not part of what runs; `PackedAssumption` is what the
  launcher relies on, and `PackedRight` what it has to start.

What would be worth adding: an abstract specification of a session that `SessionWindow`
implements, as `RecorderControl` is for the client, and the client of `SessionWindow` as
an abstraction of `LabRecorderClient`, which the two models now only share by the names of
their operations.
