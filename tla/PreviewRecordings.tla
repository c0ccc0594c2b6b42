-------------------------- MODULE PreviewRecordings --------------------------
(***************************************************************************)
(* Reading a recording for playback: the merged CSV file (PreviewCsv.cpp),  *)
(* or the streams of an XDF file (PreviewXdfReader.cpp), their mapping to   *)
(* roles (PreviewXdfMapping.cpp) and the frames made of them                *)
(* (PreviewXdf.cpp).  A long file is thinned while it is read: whenever a   *)
(* list is full, every other item goes and the stride doubles.              *)
(*                                                                         *)
(* The input is a file that is made up as it is read.  A sample is its      *)
(* number in its stream, the time in the file and the time it is given; a   *)
(* time is a whole number of ticks, a tick being the step to the next       *)
(* double.  Memory counts samples and frames, each of the same size.  The   *)
(* layout of a stream is its role and the key by which pieces are joined.   *)
(* Left out: the values of samples, the bytes of chunks and the texts.      *)
(***************************************************************************)
EXTENDS Integers, SequencesExt, FiniteSetsExt

CONSTANTS
    Streams,        \* stream ids, from 1
    Layouts,        \* [role, key]: what a stream header may say
    FirstTimes,     \* of a stream
    Steps,          \* between two samples, as the file has them
    RowTimes,       \* of a row of the CSV file
    MaxRows,        \* bound: rows of the CSV file
    MaxSamples,     \* bound: samples of a stream
    MaxFrames,      \* maximum_preview_frames
    Memory,         \* maximum_memory_bytes in samples, or 0: no limit
    Tolerance       \* match_tolerance_seconds

ASSUME RecordingsAssumption ==
    /\ Streams \subseteq Nat \ {0} /\ IsFiniteSet(Streams)
    /\ FirstTimes \subseteq Int /\ Steps \subseteq Int /\ RowTimes \subseteq Nat
    /\ MaxFrames \in Nat /\ Memory \in Nat /\ Tolerance \in Nat

VARIABLES
    phase,      \* "start", "rows", "chunks", "indexed", "loaded" or "failed"
    streams,    \* streams_by_id
    chunk,      \* the stream whose samples chunk is being read, or 0
    joined,     \* for each role the samples of its joined pieces
    master,     \* the role of the main stream
    recording   \* the frames, and the rows read so far

vars == <<phase, streams, chunk, joined, master, recording>>

Missing == 0 - 1
NoLayout == [role |-> "unknown", key |-> 0]
MasterRoles == <<"markers", "segments", "gaze">>
Numeric(s) == s.layout.role # "text"

NewStream == [layout |-> NoLayout, count |-> 0, kept |-> <<>>, stride |-> 1,
              pending |-> <<>>, last |-> 0]

NewRecording == [frames |-> <<>>, stride |-> 1, count |-> 0, end |-> 0,
                 pending |-> <<>>, firstLsl |-> Missing]

Init ==
    /\ phase = "start" /\ chunk = 0 /\ master = "none"
    /\ streams = [s \in Streams |-> NewStream]
    /\ joined = [r \in {} |-> <<>>]
    /\ recording = NewRecording

--------------------------------------------------------------------------
\* Thinning

KeepEveryOther(seq, keepLast) ==
    LET n == Len(seq)
        half == [k \in 1..((n + 1) \div 2) |-> seq[2 * k - 1]]
    IN IF keepLast /\ n > 2 /\ n % 2 = 0 THEN Append(half, seq[n]) ELSE half

\* Mutant: the newest frame may go as well.
CompactFramesAny(r) ==
    [r EXCEPT !.frames = KeepEveryOther(@, FALSE), !.stride = 2 * @]

CompactFrames(r) ==
    [r EXCEPT !.frames = KeepEveryOther(@, TRUE), !.stride = 2 * @]

FramesOver(r) ==
    \/ Len(r.frames) > Max({2, MaxFrames})
    \/ Memory > 0 /\ Len(r.frames) > Memory

\* With two frames left nothing more can go: the reader throws if it is still over.
Bounded(r) ==
    IF FramesOver(r) /\ Len(r.frames) > 2 THEN CompactFrames(r) ELSE r

\* Again and again: each pass takes a frame at least.
BoundCache(r) ==
    LET pass[n \in Nat] == IF n = 0 THEN r ELSE Bounded(pass[n - 1])
    IN pass[Len(r.frames)]

AppendBounded(r, frame) == BoundCache([r EXCEPT !.frames = Append(@, frame)])

--------------------------------------------------------------------------
\* The merged CSV file

OpenCsv ==
    /\ phase = "start"
    /\ phase' = "rows"
    /\ UNCHANGED <<streams, chunk, joined, master, recording>>

FirstLsl(rel, lsl) ==
    IF rel = Missing /\ lsl # Missing /\ recording.firstLsl = Missing
    THEN lsl ELSE recording.firstLsl

RowTime(rel, lsl) ==
    IF rel # Missing THEN rel
    ELSE IF lsl # Missing THEN lsl - FirstLsl(rel, lsl)
    ELSE recording.count

KeepRow(rel, lsl) ==
    LET time == RowTime(rel, lsl)
        frame == [i |-> recording.count, t |-> time]
        read == [recording EXCEPT !.count = @ + 1, !.end = time,
                                  !.firstLsl = FirstLsl(rel, lsl)]
    IN IF recording.count % recording.stride = 0
       THEN [AppendBounded(read, frame) EXCEPT !.pending = <<>>]
       ELSE [read EXCEPT !.pending = <<frame>>]

\* A time that goes back, or a limit that two frames exceed, ends the load.
ReadRow(rel, lsl) ==
    /\ phase = "rows" /\ recording.count < MaxRows
    /\ IF \/ recording.count > 0 /\ RowTime(rel, lsl) < recording.end
          \/ FramesOver(KeepRow(rel, lsl))
       THEN phase' = "failed" /\ UNCHANGED recording
       ELSE recording' = KeepRow(rel, lsl) /\ UNCHANGED phase
    /\ UNCHANGED <<streams, chunk, joined, master>>

EndOfRows ==
    /\ phase = "rows"
    /\ LET whole == IF recording.pending = <<>> THEN recording
                    ELSE AppendBounded(recording, recording.pending[1])
       IN /\ recording' = BoundCache(whole)
          /\ phase' = IF FramesOver(BoundCache(whole)) THEN "failed" ELSE "loaded"
    /\ UNCHANGED <<streams, chunk, joined, master>>

--------------------------------------------------------------------------
\* The chunks of an XDF file

OpenXdf ==
    /\ phase = "start"
    /\ phase' = "chunks"
    /\ UNCHANGED <<streams, chunk, joined, master, recording>>

MaxStored ==
    Max({2, IF Memory > 0 THEN Min({MaxFrames, Memory}) ELSE MaxFrames})

CompactSamples(s, keepLast) ==
    [s EXCEPT !.kept = KeepEveryOther(@, keepLast), !.stride = 2 * @]

\* The bytes of a stream, in samples.
Size(s) == Len(s.kept) + Len(s.pending)

BudgetOver(all) ==
    Memory > 0 /\ MapThenSumSet(LAMBDA s : Size(all[s]), DOMAIN all) > Memory

\* The largest stream that still has more than two samples, the first of equals.
Candidates(all) == {s \in DOMAIN all : Len(all[s].kept) > 2}

Heaviest(all) ==
    CHOOSE s \in Candidates(all) : \A o \in Candidates(all) :
        \/ Size(all[s]) > Size(all[o])
        \/ Size(all[s]) = Size(all[o]) /\ s <= o

Reduced(all, keepLast) ==
    IF BudgetOver(all) /\ Candidates(all) # {}
    THEN [all EXCEPT ![Heaviest(all)] = CompactSamples(@, keepLast)]
    ELSE all

\* Again and again: each pass takes a sample at least, and no stream has more than it may.
EnforceBudget(all, keepLast) ==
    LET pass[n \in Nat] == IF n = 0 THEN all ELSE Reduced(pass[n - 1], keepLast)
    IN pass[Cardinality(DOMAIN all) * MaxStored]

\* The streams within the budget, or the end of the load when there is no way.
SetWithinBudget(all) ==
    /\ streams' = EnforceBudget(all, FALSE)
    /\ phase' = IF BudgetOver(streams') THEN "failed" ELSE phase

ReadHeader(s, layout) ==
    /\ phase = "chunks" /\ chunk = 0
    /\ streams[s].layout = NoLayout         \* one header for each stream
    /\ SetWithinBudget([streams EXCEPT ![s].layout = layout])
    /\ UNCHANGED <<chunk, joined, master, recording>>

\* A missing time is the last one (end_timestamp) and a step, by the rate.
SampleTimes(s) ==
    IF s.count = 0 \/ ~Numeric(s) THEN FirstTimes ELSE {s.last + d : d \in Steps}

\* Mutant: a list that is full loses its samples, and the stride stays.
StoreSampleSameStride(s, time) ==
    LET room == IF Len(s.kept) >= MaxStored
                THEN [s EXCEPT !.kept = KeepEveryOther(@, FALSE)] ELSE s
        sample == [i |-> s.count, raw |-> time, t |-> time]
    IN [room EXCEPT
        !.count = @ + 1, !.last = time,
        !.kept = IF s.count % room.stride = 0 THEN Append(@, sample) ELSE @,
        !.pending = IF s.count % room.stride = 0 THEN <<>> ELSE <<sample>>]

StoreSample(s, time) ==
    LET room == IF Len(s.kept) >= MaxStored THEN CompactSamples(s, FALSE) ELSE s
        sample == [i |-> s.count, raw |-> time, t |-> time]
        onGrid == s.count % room.stride = 0
    IN [room EXCEPT
        !.count = @ + 1, !.last = time,
        !.kept = IF onGrid THEN Append(@, sample) ELSE @,
        !.pending = IF onGrid THEN <<>> ELSE <<sample>>]

CountSample(s) == [s EXCEPT !.count = @ + 1]

\* One sample of a chunk; those of text streams are counted only.  Samples of
\* a stream without a header are an error.
ReadSample(s, time) ==
    /\ phase = "chunks" /\ chunk \in {0, s}
    /\ streams[s].layout # NoLayout /\ streams[s].count < MaxSamples
    /\ chunk' = s
    /\ streams' = [streams EXCEPT ![s] =
           IF Numeric(@) THEN StoreSample(@, time) ELSE CountSample(@)]
    /\ UNCHANGED <<phase, joined, master, recording>>

EndOfChunk ==
    /\ phase = "chunks" /\ chunk # 0
    /\ chunk' = 0
    /\ SetWithinBudget(streams)
    /\ UNCHANGED <<joined, master, recording>>

--------------------------------------------------------------------------
\* The end of the file, and a final chunk that was cut off

RetainFinalSample(s) ==
    [s EXCEPT
        !.pending = <<>>,
        !.kept = IF s.pending = <<>> THEN @
                 ELSE IF Len(@) >= MaxStored THEN Append(Front(@), s.pending[1])
                 ELSE @ \o s.pending]

\* The line through the clock offsets may be as steep as to stop the time.
CorrectTimes(kept, stopped) ==
    [k \in 1..Len(kept) |->
        IF stopped THEN [kept[k] EXCEPT !.raw = kept[1].raw] ELSE kept[k]]

\* Mutant: the times after a repaired one are not shifted.
RepairTimesUnshifted(kept) ==
    LET time[k \in 1..Len(kept)] ==
            IF k = 1 THEN kept[1].raw
            ELSE LET before == time[k - 1]
                 IN IF kept[k].raw <= before THEN before + 1 ELSE kept[k].raw
    IN [k \in 1..Len(kept) |-> [kept[k] EXCEPT !.t = time[k]]]

\* Each time is shifted as far as the one before it, and further if it is not later.
RepairTimes(kept) ==
    LET time[k \in 1..Len(kept)] ==
            IF k = 1 THEN kept[1].raw
            ELSE LET before == time[k - 1]
                     due == kept[k].raw + (before - kept[k - 1].raw)
                 IN IF due <= before THEN before + 1 ELSE due
    IN [k \in 1..Len(kept) |-> [kept[k] EXCEPT !.t = time[k]]]

EndOfChunks(stopped) ==
    /\ phase = "chunks" /\ chunk = 0
    /\ LET final == [s \in Streams |->
               LET whole == RetainFinalSample(streams[s])
               IN [whole EXCEPT !.kept = RepairTimes(CorrectTimes(@, s \in stopped))]]
           within == EnforceBudget(final, TRUE)
       IN /\ streams' = within
          /\ phase' = IF BudgetOver(within) THEN "failed" ELSE "indexed"
    /\ UNCHANGED <<chunk, joined, master, recording>>

\* Broken data, a limit of the file exceeded, or the user cancels.
GiveUp ==
    /\ phase \in {"rows", "chunks", "indexed"}
    /\ phase' = "failed"
    /\ UNCHANGED <<streams, chunk, joined, master, recording>>

--------------------------------------------------------------------------
\* Which streams are drawn

Usable == {s \in Streams : /\ Numeric(streams[s]) /\ streams[s].kept # <<>>
                           /\ streams[s].layout.role # "unknown"}
Groups == {streams[s].layout : s \in Usable}
Roles == {g.role : g \in Groups}
GroupsOf(role) == {g \in Groups : g.role = role}
Members(g) == {s \in Usable : streams[s].layout = g}
NeedsMapping == \E role \in Roles : Cardinality(GroupsOf(role)) > 1

Requested(role, ids) == {g \in GroupsOf(role) : Members(g) \cap ids # {}}

\* The group of each role, or none when the mapping does not decide.
Selected(role, ids) ==
    IF Cardinality(Requested(role, ids)) = 1 THEN Requested(role, ids)
    ELSE IF Requested(role, ids) = {} /\ Cardinality(GroupsOf(role)) = 1
    THEN GroupsOf(role) ELSE {}

\* The times of the pieces in the order in which the heap gives them: that of the
\* times, since those of a piece go up, and for equal ones of the pieces.
Items(g) == {x \in Members(g) \X (1..MaxStored) : x[2] <= Len(streams[x[1]].kept)}
ItemTime(x) == streams[x[1]].kept[x[2]].t
Before(x, y) ==
    \/ ItemTime(x) < ItemTime(y)
    \/ ItemTime(x) = ItemTime(y) /\ x[1] < y[1]
    \/ ItemTime(x) = ItemTime(y) /\ x[1] = y[1] /\ x[2] < y[2]

Rank(x, items) == Cardinality({y \in items : Before(y, x)})

Merged(g) ==
    [k \in 1..Cardinality(Items(g)) |->
        ItemTime(CHOOSE x \in Items(g) : Rank(x, Items(g)) = k - 1)]

\* One more time is joined to what was kept of those before it.
Join(a, time) ==
    LET room == IF Len(a.kept) >= Max({2, MaxFrames}) THEN CompactSamples(a, FALSE) ELSE a
        onGrid == a.count % room.stride = 0
        later == room.kept = <<>> \/ time > Last(room.kept)
    IN [room EXCEPT
        !.count = @ + 1,
        !.kept = IF onGrid /\ later THEN Append(@, time) ELSE @,
        !.pending = IF onGrid THEN <<>> ELSE <<time>>]

\* Joined pieces hold a time once, except that the last one may be there twice.
Stitched(g) ==
    LET merged == Merged(g)
        join[n \in 0..Len(merged)] == IF n = 0 THEN NewStream ELSE Join(join[n - 1], merged[n])
        all == join[Len(merged)]
    IN [stride |-> all.stride,
        times |-> IF all.pending # <<>> /\ Len(all.kept) >= Max({2, MaxFrames})
                  THEN Front(all.kept) \o all.pending ELSE all.kept \o all.pending]

--------------------------------------------------------------------------
\* Frames

Distance(a, b) == IF a < b THEN b - a ELSE a - b

\* Mutant: the sample that is due, never the one before it.
NearestSampleNext(times, at) ==
    LET notEarlier == {k \in 1..Len(times) : times[k] >= at}
        found == IF notEarlier = {} THEN Len(times) ELSE Min(notEarlier)
    IN IF Distance(times[found], at) <= Tolerance THEN found ELSE 0

\* The first sample not before the time or the one before that, or 0: too far.
NearestSample(times, at) ==
    LET notEarlier == {k \in 1..Len(times) : times[k] >= at}
        next == IF notEarlier = {} THEN Len(times) + 1 ELSE Min(notEarlier)
        found == IF \/ next > Len(times)
                    \/ /\ next > 1
                       /\ Distance(times[next - 1], at) < Distance(times[next], at)
                 THEN next - 1 ELSE next
    IN IF Distance(times[found], at) <= Tolerance THEN found ELSE 0

\* Builds the frames for a mapping: the streams asked for and the main one
\* (0: the first role there is).  The loader asks the user when it needs one.
BuildRecording(ids, mainId) ==
    /\ phase = "indexed"
    /\ ~NeedsMapping => ids = {} /\ mainId = 0
    /\ Groups # {}
    /\ \A role \in Roles : Selected(role, ids) # {}
    /\ LET group == [role \in Roles |-> CHOOSE g \in Selected(role, ids) : TRUE]
           stitched == [role \in Roles |-> Stitched(group[role])]
           able == {k \in 1..Len(MasterRoles) : MasterRoles[k] \in Roles}
           named == {k \in able : mainId \in Members(group[MasterRoles[k]])}
           choice == IF mainId = 0 THEN able ELSE named
       IN /\ choice # {}
          /\ master' = MasterRoles[Min(choice)]
          /\ joined' = [role \in Roles |-> stitched[role].times]
          /\ LET times == joined'[master']
                 frame(k) == [i |-> k, t |-> times[k] - times[1],
                              match |-> [role \in Roles |->
                                  IF role = master' THEN k
                                  ELSE NearestSample(joined'[role], times[k])]]
                 read[k \in 0..Len(times)] ==
                     IF k = 0 THEN [NewRecording EXCEPT !.stride = stitched[master'].stride]
                     ELSE AppendBounded(read[k - 1], frame(k))
             IN recording' = BoundCache(read[Len(times)])
    /\ phase' = IF FramesOver(recording') THEN "failed" ELSE "loaded"
    /\ UNCHANGED <<streams, chunk>>

Next ==
    \/ OpenCsv \/ OpenXdf \/ EndOfRows \/ EndOfChunk \/ GiveUp
    \/ \E rel, lsl \in RowTimes \cup {Missing} : ReadRow(rel, lsl)
    \/ \E s \in Streams : \/ \E layout \in Layouts : ReadHeader(s, layout)
                          \/ \E time \in SampleTimes(streams[s]) : ReadSample(s, time)
    \/ \E stopped \in SUBSET Streams : EndOfChunks(stopped)
    \/ \E ids \in SUBSET Streams, mainId \in Streams \cup {0} : BuildRecording(ids, mainId)

Spec == Init /\ [][Next]_vars

--------------------------------------------------------------------------
\* Properties

\* The times of a stream that was read always go up, and two kept samples are
\* never closer than their corrected times say: a repair shifts what follows.
\* (correctAndRepairTimestamps, over what the thinning left)
TimesGoUp ==
    phase \in {"indexed", "loaded"} =>
        \A s \in Streams : LET kept == streams[s].kept IN
            \A k \in 2..Len(kept) :
                kept[k].t - kept[k-1].t >= Max({1, kept[k].raw - kept[k-1].raw})

\* However often the samples of a stream or the frames of a CSV were halved, the
\* list keeps its first item, its limit, and no two neighbours further apart than
\* its stride says; frames of joined streams keep their limit. (parseSamplesChunk,
\* enforceIndexMemoryBudget, appendBoundedPreviewFrame)
ThinnedEvenly ==
    LET even(list, stride, count) ==
            /\ count > 0 => list # <<>> /\ list[1].i = 0
            /\ \A k \in 2..Len(list) : list[k].i - list[k-1].i \in 1..stride
    IN phase # "failed" =>
        /\ \A s \in Streams : /\ Len(streams[s].kept) <= MaxStored
                              /\ Numeric(streams[s]) => even(streams[s].kept,
                                     streams[s].stride, streams[s].count)
        /\ Len(recording.frames) <= Max({2, MaxFrames})
        /\ DOMAIN joined = {} =>
               even(recording.frames, recording.stride, recording.count)

\* What is played begins and ends with the first and the last row of a CSV, or with
\* the earliest and the latest time that was kept of the main stream's pieces,
\* however they overlap. (compactFrames, pending_last_frame, stitchGroup)
EndsAreKept ==
    LET frames == recording.frames
        spans(pieces) ==
            Last(frames).t = Max({Last(streams[s].kept).t : s \in pieces})
                             - Min({streams[s].kept[1].t : s \in pieces})
    IN phase = "loaded" =>
        IF DOMAIN joined = {}
        THEN frames # <<>> => /\ frames[1].i = 0
                              /\ Last(frames).i = recording.count - 1
        ELSE /\ frames[1].t = 0
             /\ \E g \in GroupsOf(master) : spans(Members(g))

\* A frame shows of every other stream the sample closest in time, and nothing
\* only if no sample is within the limit. (nearestSampleIndex on joined pieces)
FramesMatchNearest ==
    phase = "loaded" =>
        \A f \in 1..Len(recording.frames), role \in DOMAIN joined :
            LET frame == recording.frames[f]
                at == frame.t + joined[master][1]
                far(k) == Distance(joined[role][k], at)
                m == frame.match[role]
            IN \A k \in 1..Len(joined[role]) :
                   IF m = 0 THEN far(k) > Tolerance ELSE far(m) <= far(k)

\* "... the newest is held so the stream's last sample is never lost."
\* (PreviewXdfReader.cpp:461)
LastSampleIsKept ==
    phase = "indexed" =>
        \A s \in Streams : Numeric(streams[s]) /\ streams[s].count > 0 =>
            Last(streams[s].kept).i = streams[s].count - 1
=============================================================================
