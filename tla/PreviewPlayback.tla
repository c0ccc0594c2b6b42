---------------------------- MODULE PreviewPlayback ----------------------------
(***************************************************************************)
(* PreviewPlaybackClock: where in a recording the playback is.  A clock is  *)
(* a record with the members of the class.  Times are whole ticks; `now' is *)
(* the monotonic time that the caller passes.  A timeline is the sequence   *)
(* of frame times less the first one, which never decreases: setTimeline    *)
(* throws for others, and both readers of files sort or refuse them.        *)
(***************************************************************************)
EXTENDS Integers, Sequences

Timelines == {t \in Seq(Nat) : \A i \in 1..Len(t) : /\ i = 1 => t[i] = 0
                                                    /\ i > 1 => t[i-1] <= t[i]}

Duration(c) == IF c.timeline = <<>> THEN 0 ELSE c.timeline[Len(c.timeline)]

Clamp(x, high) == IF x < 0 THEN 0 ELSE IF x > high THEN high ELSE x

\* What the clock would show if the recording had no end.
Reached(c, now) ==
    c.paused + IF c.playing /\ now > c.anchor THEN (now - c.anchor) * c.speed ELSE 0

Position(c, now) ==
    IF c.looping /\ Duration(c) > 0 /\ Reached(c, now) > Duration(c)
    THEN Reached(c, now) % Duration(c)
    ELSE Clamp(Reached(c, now), Duration(c))

AtEnd(c, now) ==
    c.timeline # <<>> /\ ~c.looping /\ Position(c, now) >= Duration(c)

\* The last frame that is due, as an index of the recording (1 is the first).
FrameIndex(c, now) ==
    LET due == {i \in 1..Len(c.timeline) : c.timeline[i] <= Position(c, now)}
    IN IF due = {} THEN 1 ELSE CHOOSE i \in due : \A j \in due : j <= i

SetTimeline(c, timeline) ==
    [c EXCEPT !.timeline = timeline, !.playing = FALSE, !.paused = 0, !.anchor = 0]

Reanchor(c, now) ==
    IF c.playing THEN [c EXCEPT !.paused = Position(c, now), !.anchor = now] ELSE c

\* Nothing happens when the clock already plays.
Play(c, now) ==
    IF c.playing \/ c.timeline = <<>> THEN c
    ELSE [c EXCEPT !.anchor = now, !.playing = TRUE]

Pause(c, now) ==
    IF c.playing THEN [c EXCEPT !.paused = Position(c, now), !.playing = FALSE] ELSE c

\* Mutant: the time that was played counts at the new speed.
SetSpeedUnanchored(c, speed, now) == [c EXCEPT !.speed = speed]

SetSpeed(c, speed, now) == [Reanchor(c, now) EXCEPT !.speed = speed]

SetLooping(c, looping, now) == [Reanchor(c, now) EXCEPT !.looping = looping]

Seek(c, position, now) ==
    [c EXCEPT !.paused = Clamp(position, Duration(c)), !.anchor = now]

InitialClock == [timeline |-> <<>>, playing |-> FALSE, looping |-> FALSE,
                 paused |-> 0, anchor |-> 0, speed |-> 1]

Clocks == [timeline : Timelines, playing : BOOLEAN, looping : BOOLEAN,
           paused : Nat, anchor : Nat, speed : Nat \ {0}]
=============================================================================
