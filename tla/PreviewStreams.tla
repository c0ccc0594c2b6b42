---------------------------- MODULE PreviewStreams ----------------------------
(***************************************************************************)
(* One role of the live preview (PreviewStreamWorker): how the worker finds *)
(* the stream of the role among those with its name, keeps to it while      *)
(* outlets come and go, and builds frames from its samples; and how the     *)
(* panel remembers the source that the worker reports.                      *)
(*                                                                         *)
(* An outlet is its uid, its source ID (0 when it names none) and its       *)
(* layout of channels; only outlets with the name of the role count.  An    *)
(* inlet of liblsl goes on by itself with an outlet of the same source and  *)
(* layout.  The other roles are inputs of a pass.  Left out: texts, rates,  *)
(* counters of the deliveries, transforms and the values in a sample.       *)
(***************************************************************************)
EXTENDS Integers, Sequences, FiniteSets

CONSTANTS
    Sources,        \* the source IDs that publishers give
    StreamLayouts,
    Master,         \* the role is the markers, whose samples make frames by themselves
    MaxUid,         \* bound: no more outlets are created than this
    MaxSignals      \* bound: with more signals on their way the worker waits to connect

NoSource == 0
SourceIds == Sources \cup {NoSource}
ASSUME StreamsAssumption == Sources \subseteq Nat \ {0} /\ Master \in BOOLEAN /\ MaxUid \in Nat
                             /\ MaxSignals \in Nat

VARIABLES
    outlets, created,       \* the streams on the network, and how many there ever were
    panel,                  \* the binding that the panel keeps: source and reconnection
    worker,                 \* "none", "running", "stopping" or "ended"
    binding, bound,         \* the worker's binding, and bound_source_id
    pc,                     \* "poll" when the pass has tried to connect, else "connect"
    inlet,                  \* the outlet that the inlet was opened for, or NoOutlet
    feed,                   \* the uid of the outlet that feeds the inlet, or 0
    hasSample, quiet,       \* since the last sample or the opening: 0, over 500, over 2000 ms
    mayResolve,             \* next_resolve_ms has come
    latest,                 \* latest_sample: the "zeros" of a new inlet, or a "sample"
    frame,                  \* the mailbox: "empty", or what this role has in the frame
    signals                 \* streamIdentityChanged on its way to the panel

network == <<outlets, created>>
stream == <<bound, inlet, feed, hasSample, quiet, mayResolve, latest>>
run == <<worker, binding, pc>>
streamVars == <<network, panel, run, stream, frame, signals>>

NoOutlet == [uid |-> 0, source |-> NoSource, layout |-> 0]
Modes == {"source-id", "follow-name"}
Connected == inlet # NoOutlet
Live == worker \in {"running", "stopping"}

StreamsInit ==
    /\ outlets = {} /\ created = 0
    /\ panel \in [source : SourceIds, mode : Modes]
    /\ worker = "none" /\ binding = panel /\ bound = NoSource /\ pc = "connect"
    /\ inlet = NoOutlet /\ feed = 0 /\ hasSample = FALSE /\ quiet = 0 /\ mayResolve = TRUE
    /\ latest = "zeros" /\ frame = "empty" /\ signals = <<>>

(***************************************************************************)
(* The network.                                                             *)
(***************************************************************************)
Publish(source, layout) ==
    /\ created < MaxUid
    /\ created' = created + 1
    /\ outlets' = outlets \cup {[uid |-> created', source |-> source, layout |-> layout]}
    /\ UNCHANGED <<panel, run, stream, frame, signals>>

Vanish(outlet) ==
    /\ outlet \in outlets
    /\ outlets' = outlets \ {outlet}
    /\ feed' = IF feed = outlet.uid THEN 0 ELSE feed
    /\ UNCHANGED <<created, panel, run, bound, inlet, hasSample, quiet, mayResolve, latest,
                   frame, signals>>

\* liblsl recovers an inlet of a stream that names its source.
Rejoin ==
    /\ Connected /\ feed = 0 /\ inlet.source # NoSource
    /\ \E o \in outlets : /\ o.source = inlet.source /\ o.layout = inlet.layout
                          /\ feed' = o.uid
    /\ UNCHANGED <<network, panel, run, bound, inlet, hasSample, quiet, mayResolve, latest,
                   frame, signals>>

(***************************************************************************)
(* Choosing a stream.                                                       *)
(***************************************************************************)
\* Mutant: a source that is gone is replaced by the only other stream of the name.
SelectByName(found, source, mode) ==
    LET exact == {o \in found : o.source = source}
    IN IF source # NoSource /\ exact # {} THEN {o \in exact : \A p \in exact : p.uid <= o.uid}
       ELSE IF Cardinality(found) > 1 /\ mode # "follow-name" THEN {}
       ELSE {o \in found : \A p \in found : o.source <= p.source}

\* selectStreamIdentity: what it may choose, nothing when the source is not there or the
\* choice is unclear.  Of one source the newest is taken; following a name, the first
\* by source, then by host, session and uid, which the model does not order.
SelectStreamIdentity(found, source, mode) ==
    LET exact == {o \in found : o.source = source}
    IN IF source # NoSource /\ exact # {} THEN {o \in exact : \A p \in exact : p.uid <= o.uid}
       ELSE IF source # NoSource /\ mode = "source-id" THEN {}
       ELSE IF Cardinality(found) > 1 /\ mode # "follow-name" THEN {}
       ELSE {o \in found : \A p \in found : o.source <= p.source}

\* The binding's source comes before the one found at the last connection.
WantedSource == IF binding.source # NoSource THEN binding.source ELSE bound

Signal(source, opened) == [source |-> source, opened |-> opened]

\* replaceInventory: a signal for every candidate, in the order of their sources.
CandidateSignals(found) ==
    LET of(n) == CHOOSE o \in found : Cardinality({p \in found :
                     p.source < o.source \/ (p.source = o.source /\ p.uid < o.uid)}) = n - 1
    IN [n \in 1..Cardinality(found) |-> Signal(of(n).source, FALSE)]

ClearSample == hasSample' = FALSE

\* Mutant: the sample of the former inlet counts as one of the new inlet.
OpenStreamKeepsSample(chosen) ==
    /\ inlet' = chosen /\ feed' = chosen.uid
    /\ latest' = "zeros" /\ quiet' = 0
    /\ bound' = IF binding.mode = "source-id" /\ chosen.source # NoSource
                THEN chosen.source ELSE bound
    /\ signals' = IF worker = "running" THEN Append(signals, Signal(chosen.source, TRUE))
                  ELSE signals
    /\ UNCHANGED hasSample

\* An interrupted worker does not report what it opened.
OpenStream(chosen) ==
    /\ inlet' = chosen /\ feed' = chosen.uid
    /\ latest' = "zeros" /\ quiet' = 0 /\ ClearSample
    /\ bound' = IF binding.mode = "source-id" /\ chosen.source # NoSource
                THEN chosen.source ELSE bound
    /\ signals' = IF worker = "running" THEN Append(signals, Signal(chosen.source, TRUE))
                  ELSE signals

(***************************************************************************)
(* The worker: every pass first connects what is not connected, or has been *)
(* silent for 2 s, at most once a second; then it polls.                    *)
(***************************************************************************)
\* Mutant: an inlet is never looked up again.
WantsConnectionIfNone == mayResolve /\ ~Connected

WantsConnection == mayResolve /\ (~Connected \/ quiet = 2)

Connecting ==
    /\ Live /\ pc = "connect" /\ WantsConnection
    /\ pc' = "poll" /\ mayResolve' = FALSE
    /\ UNCHANGED <<worker, binding, panel, network>>

\* After connecting, or with nothing to connect; an interrupted worker may poll once more.
Polling ==
    /\ Live /\ (pc = "poll" \/ ~WantsConnection \/ worker = "stopping")
    /\ pc' = "connect"
    /\ UNCHANGED <<worker, binding, panel, network, mayResolve>>

\* connectStream, with what the resolver found in 50 ms.
ConnectStream(found) ==
    /\ Connecting /\ Len(signals) <= MaxSignals
    /\ LET choices == SelectStreamIdentity(found, WantedSource, binding.mode)
       IN \/ /\ choices = {}
             /\ signals' = signals \o CandidateSignals(found)
             /\ UNCHANGED <<bound, inlet, feed, hasSample, quiet, latest>>
          \/ \E chosen \in choices :
                IF Connected /\ chosen.uid = inlet.uid
                THEN UNCHANGED <<bound, inlet, feed, hasSample, quiet, latest, signals>>
                ELSE OpenStream(chosen)
    /\ UNCHANGED frame

\* What liblsl throws closes the inlet, while connecting and while polling.
LoseInlet ==
    /\ inlet' = NoOutlet /\ feed' = 0 /\ ClearSample
    /\ quiet' = 0
    /\ UNCHANGED <<bound, latest, frame, signals>>

ConnectThrows ==
    /\ Connecting
    /\ LoseInlet

\* A stream that names no source cannot be recovered.
PollThrows ==
    /\ Connected /\ feed = 0 /\ inlet.source = NoSource
    /\ Polling
    /\ LoseInlet

\* assemblePreviewFrame: whether this role makes a frame by itself, and whether its
\* latest sample is part of a frame that is as near in time as `near' says.
MakesFrame(updated, fresh) == updated /\ (Master \/ fresh)
InFrame(updated, fresh, near) == (Master /\ updated) \/ (fresh /\ near)

\* pollStream, and the frame: `others' updated in the same pass.
Poll(updated, others, near) ==
    /\ Polling
    /\ updated => Connected /\ feed # 0
    /\ ~others => near
    /\ hasSample' = (hasSample \/ updated)
    /\ quiet' = IF updated THEN 0 ELSE quiet
    /\ latest' = IF updated THEN "sample" ELSE latest
    /\ LET fresh == hasSample' /\ quiet' = 0
       IN frame' = IF ~MakesFrame(updated, fresh) /\ ~others THEN frame
                   ELSE IF InFrame(updated, fresh, near) THEN latest' ELSE "no part"
    /\ UNCHANGED <<bound, inlet, feed, signals>>

\* Time passes: the look-up may be repeated after a second.
Wait ==
    /\ Live
    /\ quiet' = IF Connected /\ quiet < 2 THEN quiet + 1 ELSE quiet
    /\ mayResolve' \in {TRUE, mayResolve \/ quiet = quiet'}
    /\ UNCHANGED <<network, panel, run, bound, inlet, feed, hasSample, latest, frame, signals>>

\* run() ends: all inlets are closed, and the state of the streams is of no more use.
RunEnds ==
    /\ worker = "stopping"
    /\ worker' = "ended"
    /\ inlet' = NoOutlet /\ feed' = 0
    /\ bound' = NoSource /\ hasSample' = FALSE /\ quiet' = 0 /\ mayResolve' = TRUE
    /\ latest' = "zeros"
    /\ UNCHANGED <<network, panel, binding, pc, frame, signals>>

(***************************************************************************)
(* The panel.                                                               *)
(***************************************************************************)
StartPreview ==
    /\ worker = "none"
    /\ worker' = "running" /\ binding' = panel /\ pc' = "connect"
    /\ UNCHANGED <<network, panel, stream, frame, signals>>

StopPreview ==
    /\ worker = "running"
    /\ worker' = "stopping"
    /\ UNCHANGED <<network, panel, binding, pc, stream, frame, signals>>

\* The slot of streamIdentityChanged: an empty source is filled in.
HandleIdentity ==
    /\ signals # <<>>
    /\ signals' = Tail(signals)
    /\ panel' = IF panel.mode = "source-id" /\ panel.source = NoSource
                THEN [panel EXCEPT !.source = Head(signals).source] ELSE panel
    /\ UNCHANGED <<network, run, stream, frame>>

\* The slot of finished comes after the signals that the worker emitted before.
PreviewFinished ==
    /\ worker = "ended" /\ signals = <<>>
    /\ worker' = "none" /\ frame' = "empty"
    /\ UNCHANGED <<network, panel, binding, pc, stream, signals>>

\* displayLatestLiveFrame takes the frame out of the mailbox.
DisplayLatestLiveFrame ==
    /\ worker # "none" /\ frame # "empty"
    /\ frame' = "empty"
    /\ UNCHANGED <<network, panel, run, stream, signals>>

\* The user picks another configuration, also while the preview runs.
ApplySessionConfiguration(new) ==
    /\ panel' = new
    /\ UNCHANGED <<network, run, stream, frame, signals>>

Network ==
    \/ \E source \in SourceIds, layout \in StreamLayouts : Publish(source, layout)
    \/ \E outlet \in outlets : Vanish(outlet)
    \/ Rejoin

Worker ==
    \/ ConnectThrows \/ PollThrows \/ RunEnds
    \/ \E found \in SUBSET outlets : ConnectStream(found)
    \/ \E updated, others, near \in BOOLEAN : Poll(updated, others, near)

Panel ==
    \/ StartPreview \/ StopPreview \/ HandleIdentity \/ PreviewFinished
    \/ DisplayLatestLiveFrame
    \/ \E new \in [source : SourceIds, mode : Modes] : ApplySessionConfiguration(new)

StreamsNext == Network \/ Worker \/ Panel \/ Wait

\* The thread runs, time passes, and the resolver finds again and again what is there.
Fairness ==
    /\ WF_streamVars(Worker) /\ WF_streamVars(Wait) /\ WF_streamVars(HandleIdentity)
    /\ SF_streamVars(ConnectStream(outlets))

StreamsSpec == StreamsInit /\ [][StreamsNext]_streamVars /\ Fairness

(***************************************************************************)
(* Properties.                                                              *)
(***************************************************************************)
\* The types.
TypeOK ==
    /\ outlets \subseteq [uid : 1..created, source : SourceIds, layout : StreamLayouts]
    /\ created \in 0..MaxUid /\ feed \in 0..created
    /\ panel \in [source : SourceIds, mode : Modes]
    /\ binding \in [source : SourceIds, mode : Modes]
    /\ worker \in {"none", "running", "stopping", "ended"} /\ pc \in {"connect", "poll"}
    /\ quiet \in 0..2 /\ hasSample \in BOOLEAN /\ mayResolve \in BOOLEAN
    /\ bound \in SourceIds /\ latest \in {"zeros", "sample"}
    /\ frame \in {"empty", "no part", "zeros", "sample"}

\* Following a source ID, the worker is connected to no other source than the one of its
\* binding, or without one the first that it found with an ID, whatever other streams of
\* the name appear while that one is away (connectStream, selectStreamIdentity).
KeepsToItsSource ==
    binding.mode = "source-id" /\ Connected /\ WantedSource # NoSource
        => inlet.source = WantedSource

\* What a frame shows of this role is a sample that the open inlet received: never the
\* zeros of an inlet that was just opened, however streams are replaced between the
\* passes in which other roles make frames (openStream, assemblePreviewFrame).
FramesHoldSamples == frame # "zeros"

\* If the followed source is published at last by one outlet, whatever its layout, and the
\* preview goes on, its samples reach the worker again and again: also when liblsl cannot
\* rejoin and only the look-up of a silent stream finds it (run, kSilentStreamRecheckMs).
FollowsReplacement ==
    \A uid \in 1..MaxUid :
        <>[](/\ worker = "running" /\ binding.mode = "source-id" /\ WantedSource # NoSource
             /\ \E o \in outlets : o.uid = uid /\ o.source = WantedSource
             /\ \A o \in outlets : o.source = WantedSource => o.uid = uid)
        => []<>(feed = uid)
=============================================================================
