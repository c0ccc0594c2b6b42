------------------------ MODULE SessionWindow_proofs ------------------------
EXTENDS SessionWindow, TLAPS

(***************************************************************************)
(* The proofs about the session of the window, for all modes, ports, kinds   *)
(* of recorders and bounds.                                                  *)
(*                                                                           *)
(* The first part is about the pump. SessionWindow takes SessionOperations   *)
(* twice: with PumpAgain, which only notes that another pass is due, and     *)
(* with pumpSession, which makes one pass with these operations and up to    *)
(* three more. WithinPumpKeeps shows that PumpAgain is what the operations   *)
(* expect of their pump, so that the lemmas of SessionOperations hold within *)
(* a pass; PumpsKeep then shows it of pumpSession, so that they hold outside *)
(* it.                                                                       *)
(*                                                                           *)
(* The second part is about the slots. Follows is what an operation of the   *)
(* client does to the session, half done or not; Safe and Calm together are  *)
(* the inductive invariant; Step and InOrder are the action properties, of   *)
(* two sessions; Good(s, t) says that a slot that makes t of s keeps all of  *)
(* these. Every slot has its lemma (...Good), every action follows from that *)
(* of its slot (...Step), and the theorems from those.                       *)
(***************************************************************************)

(* Both instances have the same sessions. *)
LEMMA SameSessions == Within!Sessions = Sessions
BY DEF Within!Sessions, Within!Windows, Within!Clients, Within!Processes,
  Within!Bridges, Within!Previews, Within!Batches, Within!Operations,
  Within!Lifecycles, Sessions, Windows, Clients, Processes, Bridges,
  Previews, Batches, Operations, Lifecycles

(* Within a pass it is the same as outside: it calls no pump. *)
LEMMA SameAgrees == ASSUME NEW s PROVE Within!Agrees(s) <=> Agrees(s)
BY DEF Within!Agrees, Agrees, Within!isConnected, isConnected,
  Within!Selected, Selected, Within!Running, Running,
  Within!ownsRunningProcess, ownsRunningProcess, Within!Wanted, Wanted,
  Within!Closing, Closing

(* Within a pass it is the same as outside: it calls no pump. *)
LEMMA SameStays ==
  ASSUME NEW s, NEW t PROVE Within!Stays(s, t) <=> Stays(s, t)
BY DEF Within!Closing, Within!startingSession, Within!stoppingSession,
  Within!isConnected, Within!ownsRunningProcess, Within!Selected,
  Within!Running, Within!Wanted, Within!verificationActive, Within!Keeps,
  Within!Stays, Within!Moves, Within!SameProgram, Within!LocalIsQuiet,
  Within!StopGoesOn, Within!StopIsOnItsWay, Within!Agrees, Within!CutIsKnown,
  Within!FreshStart, Within!FileIsAlone, Within!Settled, Within!Backed,
  Within!ClosedSafely, Within!AllQuiet, Within!recordingActiveOrPending,
  Within!effectiveRecordingState, Within!effectiveOperationState,
  Within!selectedStreamRecording, Within!desiredRecordingState,
  Within!recorderConnectionLostExternally, Within!shutdownReady,
  Within!shutdownSettledSafely, Closing, startingSession, stoppingSession,
  isConnected, ownsRunningProcess, Selected, Running, Wanted,
  verificationActive, Keeps, Stays, Moves, SameProgram, LocalIsQuiet,
  StopGoesOn, StopIsOnItsWay, Agrees, CutIsKnown, FreshStart, FileIsAlone,
  Settled, Backed, ClosedSafely, AllQuiet, recordingActiveOrPending,
  effectiveRecordingState, effectiveOperationState, selectedStreamRecording,
  desiredRecordingState, recorderConnectionLostExternally, shutdownReady,
  shutdownSettledSafely

(* Within a pass the pump leaves a note, and every part as it is. *)
LEMMA WithinPumpKeeps == Within!PumpKeeps(Sessions)
<1>. SUFFICES ASSUME NEW s \in Within!Sessions, Within!Agrees(s)
              PROVE  LET t == PumpAgain(s) IN
                     /\ t \in Within!Sessions /\ Within!Agrees(t)
                     /\ Within!Keeps(s, t) /\ Within!StopGoesOn(t)
  BY SameSessions DEF Within!PumpKeeps
<1>. DEFINE t == PumpAgain(s)
<1>1. s \in Sessions /\ Agrees(s)
  BY SameSessions, SameAgrees
<1>2. /\ t \in Sessions /\ t.again
      /\ t.window = s.window /\ t.client = s.client /\ t.process = s.process
      /\ t.bridge = s.bridge /\ t.preview = s.preview
  BY <1>1 DEF PumpAgain, Sessions
<1>3. Within!PumpAsks(Sessions)
  BY <1>1, <1>2, SameSessions, SameAgrees DEF Within!PumpAsks
<1>4. Within!StopGoesOn(t)
  BY <1>2, <1>3, SameSessions DEF Within!StopGoesOn
<1>. HIDE DEF t
<1>5. Agrees(t)
  BY <1>1, <1>2, SMTT(30) DEF Closing, startingSession, stoppingSession,
    isConnected, ownsRunningProcess, Selected, Running, Wanted,
    verificationActive, Keeps, Stays, Moves, SameProgram, LocalIsQuiet,
    StopGoesOn, StopIsOnItsWay, Agrees, CutIsKnown, FreshStart, FileIsAlone,
    Settled, Backed, ClosedSafely, AllQuiet, recordingActiveOrPending,
    effectiveRecordingState, effectiveOperationState, selectedStreamRecording,
    desiredRecordingState, recorderConnectionLostExternally, shutdownReady,
    shutdownSettledSafely, Sessions, Windows, Clients, Processes, Bridges,
    Previews, Batches, Operations, Lifecycles
<1>6. Stays(s, t)
  BY <1>1, <1>2, SMTT(30) DEF Closing, startingSession, stoppingSession,
    isConnected, ownsRunningProcess, Selected, Running, Wanted,
    verificationActive, Keeps, Stays, Moves, SameProgram, LocalIsQuiet,
    StopGoesOn, StopIsOnItsWay, Agrees, CutIsKnown, FreshStart, FileIsAlone,
    Settled, Backed, ClosedSafely, AllQuiet, recordingActiveOrPending,
    effectiveRecordingState, effectiveOperationState, selectedStreamRecording,
    desiredRecordingState, recorderConnectionLostExternally, shutdownReady,
    shutdownSettledSafely, Sessions, Windows, Clients, Processes, Bridges,
    Previews, Batches, Operations, Lifecycles
<1>7. Within!Keeps(s, t)
  BY <1>4, <1>6, SameStays DEF Within!Keeps
<1>. QED BY <1>2, <1>4, <1>5, <1>7, SameSessions, SameAgrees DEF t

(* What holds between two passes of the pump. *)
Passed(s) ==
  /\ s \in Sessions /\ Agrees(s)
  /\ s.again \/ StopIsOnItsWay(s)
  /\ stoppingSession(s) => ~s.window.pendingStart
  /\ stoppingSession(s) /\ Running(s) => Wanted(s)

(* Within a pass it is the same as outside: it calls no pump. *)
LEMMA SameStop ==
  ASSUME NEW s
  PROVE  /\ Within!StopIsOnItsWay(s) <=> StopIsOnItsWay(s)
         /\ Within!Sent(s) <=> Sent(s)
         /\ Within!Running(s) <=> Running(s)
         /\ Within!Wanted(s) <=> Wanted(s)
         /\ Within!stoppingSession(s) <=> stoppingSession(s)
BY DEF Within!StopIsOnItsWay, Within!Sent, Within!Closing,
  Within!startingSession, Within!stoppingSession, Within!isConnected,
  Within!ownsRunningProcess, Within!Selected, Within!Running, Within!Wanted,
  Within!verificationActive, Within!Keeps, Within!Stays, Within!Moves,
  Within!SameProgram, Within!LocalIsQuiet, Within!StopGoesOn,
  Within!StopIsOnItsWay, Within!Agrees, Within!CutIsKnown, Within!FreshStart,
  Within!FileIsAlone, Within!Settled, Within!Backed, Within!ClosedSafely,
  Within!AllQuiet, Within!recordingActiveOrPending,
  Within!effectiveRecordingState, Within!effectiveOperationState,
  Within!selectedStreamRecording, Within!desiredRecordingState,
  Within!recorderConnectionLostExternally, Within!shutdownReady,
  Within!shutdownSettledSafely, StopIsOnItsWay, Sent, Closing, startingSession,
  stoppingSession, isConnected, ownsRunningProcess, Selected, Running, Wanted,
  verificationActive, Keeps, Stays, Moves, SameProgram, LocalIsQuiet,
  StopGoesOn, StopIsOnItsWay, Agrees, CutIsKnown, FreshStart, FileIsAlone,
  Settled, Backed, ClosedSafely, AllQuiet, recordingActiveOrPending,
  effectiveRecordingState, effectiveOperationState, selectedStreamRecording,
  desiredRecordingState, recorderConnectionLostExternally, shutdownReady,
  shutdownSettledSafely

(* The operations within a pass, with the pump that only takes note. *)
LEMMA OnePassKeeps ==
  ASSUME NEW s \in Sessions, Agrees(s)
  PROVE  LET t == OnePass(s) IN
         /\ Passed(t) /\ Stays(s, t)
         /\ Running(s) /\ (Wanted(s) \/ ~stoppingSession(s)) /\ ~s.client.shutdown
              => Sent(t)
<1>. DEFINE u == [s EXCEPT !.again = FALSE]
            t == Within!Pass(u)
<1>1. /\ u \in Sessions
      /\ u.window = s.window /\ u.client = s.client /\ u.process = s.process
      /\ u.bridge = s.bridge /\ u.preview = s.preview
  BY DEF Sessions
<1>2. OnePass(s) = t
  BY DEF OnePass
<1>. HIDE DEF u
<1>3. Agrees(u) /\ Stays(s, u)
  BY <1>1, SMTT(30) DEF Closing, startingSession, stoppingSession, isConnected,
    ownsRunningProcess, Selected, Running, Wanted, verificationActive, Keeps,
    Stays, Moves, SameProgram, LocalIsQuiet, StopGoesOn, StopIsOnItsWay,
    Agrees, CutIsKnown, FreshStart, FileIsAlone, Settled, Backed, ClosedSafely,
    AllQuiet, recordingActiveOrPending, effectiveRecordingState,
    effectiveOperationState, selectedStreamRecording, desiredRecordingState,
    recorderConnectionLostExternally, shutdownReady, shutdownSettledSafely,
    Sessions, Windows, Clients, Processes, Bridges, Previews, Batches,
    Operations, Lifecycles
<1>4. /\ t \in Within!Sessions /\ Within!Agrees(t) /\ Within!Keeps(u, t)
      /\ Within!StopGoesOn(t)
      /\ Within!stoppingSession(t) => ~t.window.pendingStart
      /\ Within!stoppingSession(t) /\ Within!Running(t) => Within!Wanted(t)
      /\ Within!Running(u) /\ (Within!Wanted(u) \/ ~Within!stoppingSession(u))
         /\ ~u.client.shutdown
           => Within!Sent(t)
  BY <1>1, <1>3, WithinPumpKeeps, Within!PassKeeps, SameSessions, SameAgrees
<1>. HIDE DEF t
<1>5. Passed(t)
  BY <1>4, SameSessions, SameAgrees, SameStop DEF Passed, Within!StopGoesOn
<1>6. Stays(s, t)
  BY <1>1, <1>3, <1>4, <1>5, SameStays, StaysTransitive DEF Within!Keeps,
    Passed
<1>7. Running(s) /\ (Wanted(s) \/ ~stoppingSession(s)) /\ ~s.client.shutdown => Sent(t)
  BY <1>1, <1>4, SameStop DEF Running, Wanted, Selected, ownsRunningProcess,
    stoppingSession
<1>. QED BY <1>2, <1>5, <1>6, <1>7

(* From the second pass on, a Stop that is pending has been sent. *)
LEMMA SecondPass ==
  ASSUME NEW s, Passed(s)
  PROVE  LET t == PassAgain(s) IN
         Passed(t) /\ Stays(s, t) /\ StopIsOnItsWay(t)
<1>. DEFINE t == OnePass(s)
<1>0. s \in Sessions /\ Agrees(s)
  BY DEF Passed
<1>1. CASE ~s.again
  <2>1. Stays(s, s)
    BY <1>0, KeepsReflexive DEF Keeps
  <2>. QED BY <1>1, <2>1 DEF PassAgain, Passed
<1>2. CASE s.again
  <2>1. PassAgain(s) = t
    BY <1>2 DEF PassAgain
  <2>2. /\ Passed(t) /\ Stays(s, t)
        /\ Running(s) /\ (Wanted(s) \/ ~stoppingSession(s)) /\ ~s.client.shutdown => Sent(t)
    BY <1>0, OnePassKeeps
  <2>. HIDE DEF t
  <2>3. StopIsOnItsWay(t)
    BY <1>0, <2>2, SMTT(30) DEF Passed, StopIsOnItsWay, Sent, Stays, Moves,
      SameProgram, Agrees, Running, Wanted, Selected, ownsRunningProcess,
      stoppingSession, Closing
  <2>. QED BY <2>1, <2>2, <2>3
<1>. QED BY <1>1, <1>2

(* What the pump leaves settled when it is through. *)
Calm(s) ==
  /\ StopIsOnItsWay(s)
  /\ stoppingSession(s) => ~s.window.pendingStart

(* Four passes are enough. *)
LEMMA PumpCalms ==
  ASSUME NEW s \in Sessions, Agrees(s)
  PROVE  LET t == pumpSession(s) IN
         t \in Sessions /\ Agrees(t) /\ Stays(s, t) /\ Calm(t) /\ ~t.again
<1>. DEFINE a == OnePass(s)
            b == PassAgain(a)
            c == PassAgain(b)
            d == PassAgain(c)
            t == [d EXCEPT !.again = FALSE]
<1>1. pumpSession(s) = t
  BY DEF pumpSession
<1>2. Passed(a) /\ Stays(s, a)
  BY OnePassKeeps
<1>. HIDE DEF a
<1>3. Passed(b) /\ Stays(a, b)
  BY <1>2, SecondPass
<1>. HIDE DEF b
<1>4. Passed(c) /\ Stays(b, c)
  BY <1>3, SecondPass
<1>. HIDE DEF c
<1>5. Passed(d) /\ Stays(c, d) /\ StopIsOnItsWay(d)
  BY <1>4, SecondPass
<1>. HIDE DEF d
<1>6. /\ t \in Sessions /\ ~t.again
      /\ t.window = d.window /\ t.client = d.client /\ t.process = d.process
      /\ t.bridge = d.bridge /\ t.preview = d.preview
  BY <1>5 DEF Passed, Sessions
<1>. HIDE DEF t
<1>7. Agrees(t) /\ Stays(d, t) /\ Calm(t)
  BY <1>5, <1>6, SMTT(30) DEF Closing, startingSession, stoppingSession,
    isConnected, ownsRunningProcess, Selected, Running, Wanted,
    verificationActive, Keeps, Stays, Moves, SameProgram, LocalIsQuiet,
    StopGoesOn, StopIsOnItsWay, Agrees, CutIsKnown, FreshStart, FileIsAlone,
    Settled, Backed, ClosedSafely, AllQuiet, recordingActiveOrPending,
    effectiveRecordingState, effectiveOperationState, selectedStreamRecording,
    desiredRecordingState, recorderConnectionLostExternally, shutdownReady,
    shutdownSettledSafely, Sessions, Windows, Clients, Processes, Bridges,
    Previews, Batches, Operations, Lifecycles, Calm, Passed
<1>8. Stays(s, b)
  BY <1>2, <1>3, StaysTransitive DEF Passed
<1>9. Stays(s, c)
  BY <1>3, <1>4, <1>8, StaysTransitive DEF Passed
<1>10. Stays(s, d)
  BY <1>4, <1>5, <1>9, StaysTransitive DEF Passed
<1>11. Stays(s, t)
  BY <1>5, <1>6, <1>7, <1>10, StaysTransitive DEF Passed
<1>. QED BY <1>1, <1>6, <1>7, <1>11

(* So the pump itself does what the operations expect of it. *)
LEMMA PumpsKeep == PumpKeeps(Sessions)
BY PumpCalms DEF PumpKeeps, Keeps, StopGoesOn, Calm

(* Outside a pass the pump leaves no note. *)
LEMMA PumpDoesNotAsk == ~PumpAsks(Sessions)
BY PumpCalms DEF PumpAsks

USE DEF Closing, startingSession, stoppingSession, isConnected,
  ownsRunningProcess, Selected, Running, Wanted, verificationActive

(* What a step of the client does to the session, half done or not. *)
Follows(s, t) ==
  /\ Moves(s, t)
  /\ FreshStart(s) => FreshStart(t)
  /\ FreshStart(s) /\ FileIsAlone(s) => FileIsAlone(t)
  /\ CutIsKnown(s) => CutIsKnown(t)
  /\ ClosedSafely(s) => ClosedSafely(t)
  /\ stoppingSession(s) /\ ~s.bridge.stop /\ t.bridge.stop => AllQuiet(t)
  /\ ~startingSession(s) /\ AllQuiet(s) => AllQuiet(t)
  /\ Calm(s) => Calm(t)
  /\ ~isConnected(s) /\ s.client.batch = "None" => t.client.batch = "None"

(* What holds between any two slots, but not in the middle of an operation   *)
(* of the client.                                                            *)
Sound(s) ==
  /\ FreshStart(s) /\ FileIsAlone(s) /\ Settled(s) /\ Backed(s)
  /\ ClosedSafely(s)

(* The relation passes from one operation to the next. *)
LEMMA FollowsTransitive ==
  ASSUME NEW s \in Sessions, NEW t \in Sessions, NEW u \in Sessions,
         Follows(s, t), Follows(t, u)
  PROVE  Follows(s, u)
<1>1. Moves(s, u)
  BY MovesTransitive DEF Follows
<1>2. stoppingSession(s) /\ ~s.bridge.stop /\ u.bridge.stop => AllQuiet(u)
  BY SMTT(30) DEF Follows, Moves, Sessions, Windows, Clients, Processes,
    Bridges, Previews, Batches, Operations, Lifecycles
<1>3. ~startingSession(s) /\ AllQuiet(s) => AllQuiet(u)
  BY SMTT(30) DEF Follows, Moves, Sessions, Windows, Clients, Processes,
    Bridges, Previews, Batches, Operations, Lifecycles
<1>4. ~isConnected(s) /\ s.client.batch = "None" => u.client.batch = "None"
  BY DEF Follows, Moves
<1>. QED BY <1>1, <1>2, <1>3, <1>4 DEF Follows

(* See FollowsTransitive. *)
LEMMA SameProgramTransitive ==
  ASSUME NEW s \in Sessions, NEW t \in Sessions, NEW u \in Sessions,
         SameProgram(s, t), Moves(t, u), SameProgram(t, u)
  PROVE  SameProgram(s, u)
BY SMTT(30) DEF SameProgram, Moves, Sessions, Windows, Clients, Processes,
  Bridges, Previews, Batches, Operations, Lifecycles

(* What the pump does follows too. *)
LEMMA KeepsFollows ==
  ASSUME NEW s \in Sessions, NEW t \in Sessions, Keeps(s, t)
  PROVE  /\ Follows(s, t)
         /\ Backed(s) => Backed(t)
         /\ Settled(s) => Settled(t)
         /\ Sound(s) => Sound(t)
<1>1. Calm(s) => Calm(t)
  BY PumpDoesNotAsk, SMTT(30) DEF Calm, Keeps, StopGoesOn, Stays, Moves,
    Sessions, Windows, Clients, Processes, Bridges, Previews, Batches,
    Operations, Lifecycles
<1>2. ~isConnected(s) /\ s.client.batch = "None" => t.client.batch = "None"
  BY DEF Keeps, Stays
<1>3. Follows(s, t)
  BY <1>1, <1>2 DEF Follows, Keeps, Stays
<1>. QED BY <1>3 DEF Keeps, Stays, Sound

(* The pump, by what it leaves. *)
LEMMA PumpFollows ==
  ASSUME NEW s \in Sessions, Agrees(s)
  PROVE  LET t == pumpSession(s) IN
         /\ t \in Sessions /\ Agrees(t) /\ Keeps(s, t) /\ Calm(t)
         /\ Follows(s, t)
         /\ Sound(s) => Sound(t)
         /\ Backed(s) => Backed(t)
         /\ Settled(s) => Settled(t)
<1>1. LET t == pumpSession(s) IN
      t \in Sessions /\ Agrees(t) /\ Keeps(s, t) /\ Calm(t)
  BY PumpCalms DEF Keeps, StopGoesOn, Calm
<1>. QED BY <1>1, KeepsFollows

(* An operation that returns early leaves everything as it is. *)
LEMMA FollowsReflexive ==
  ASSUME NEW s \in Sessions, Agrees(s)
  PROVE  Follows(s, s)
BY KeepsReflexive, KeepsFollows

(* The client tells which operation it is at. *)
LEMMA updateOperationStateFollows ==
  ASSUME NEW s \in Sessions, Agrees(s)
  PROVE  LET t == updateOperationState(s) IN
         /\ t \in Sessions /\ Agrees(t) /\ Follows(s, t)
         /\ Settled(t)
         /\ Backed(s) => Backed(t)
         /\ SameProgram(s, t) /\ (isConnected(t) <=> isConnected(s))
<1>1. CASE Resting(s.client) = s.client.operation
  <2>1. Settled(s)
    BY <1>1, SMTT(30) DEF Settled, Resting
  <2>2. SameProgram(s, s)
    BY KeepsReflexive DEF Keeps, Stays
  <2>. QED BY <1>1, <2>1, <2>2, FollowsReflexive DEF updateOperationState
<1>2. CASE Resting(s.client) # s.client.operation
  <2>. DEFINE o == Resting(s.client)
              u == [s EXCEPT !.client.operation = o]
              t == pumpSession(u)
  <2>1. s.client.batch = "None" /\ o \in {"Idle", "ShuttingDown"}
    BY <1>2 DEF Agrees, Resting
  <2>2. updateOperationState(s) = t
    BY <1>2 DEF updateOperationState
  <2>. HIDE DEF o
  <2>3. u \in Sessions
    BY <2>1 DEF Sessions, Clients, Operations
  <2>4. Agrees(u)
    BY <2>1, SMTT(30) DEF Sessions, Windows, Clients, Processes, Bridges,
      Previews, Batches, Operations, Lifecycles, Keeps, Stays, Moves,
      SameProgram, LocalIsQuiet, StopGoesOn, StopIsOnItsWay, Agrees,
      CutIsKnown, FreshStart, FileIsAlone, Settled, Backed, ClosedSafely,
      AllQuiet, recordingActiveOrPending, effectiveRecordingState,
      effectiveOperationState, selectedStreamRecording, desiredRecordingState,
      recorderConnectionLostExternally, shutdownReady, shutdownSettledSafely
  <2>5. Follows(s, u)
    BY <2>1, SMTT(30) DEF Sessions, Windows, Clients, Processes, Bridges,
      Previews, Batches, Operations, Lifecycles, Keeps, Stays, Moves,
      SameProgram, LocalIsQuiet, StopGoesOn, StopIsOnItsWay, Agrees,
      CutIsKnown, FreshStart, FileIsAlone, Settled, Backed, ClosedSafely,
      AllQuiet, recordingActiveOrPending, effectiveRecordingState,
      effectiveOperationState, selectedStreamRecording, desiredRecordingState,
      recorderConnectionLostExternally, shutdownReady, shutdownSettledSafely,
      Follows, Calm
  <2>6. /\ Settled(u) /\ (Backed(s) => Backed(u)) /\ SameProgram(s, u)
        /\ isConnected(u) <=> isConnected(s)
    BY <2>1, SMTT(30) DEF Sessions, Windows, Clients, Processes, Bridges,
      Previews, Batches, Operations, Lifecycles, Keeps, Stays, Moves,
      SameProgram, LocalIsQuiet, StopGoesOn, StopIsOnItsWay, Agrees,
      CutIsKnown, FreshStart, FileIsAlone, Settled, Backed, ClosedSafely,
      AllQuiet, recordingActiveOrPending, effectiveRecordingState,
      effectiveOperationState, selectedStreamRecording, desiredRecordingState,
      recorderConnectionLostExternally, shutdownReady, shutdownSettledSafely
  <2>. HIDE DEF u
  <2>7. /\ t \in Sessions /\ Agrees(t) /\ Follows(u, t) /\ Keeps(u, t)
        /\ Settled(t) /\ (Backed(u) => Backed(t))
    BY <2>3, <2>4, <2>6, PumpFollows
  <2>. HIDE DEF t
  <2>8. Follows(s, t)
    BY <2>3, <2>5, <2>7, FollowsTransitive
  <2>9. SameProgram(s, t) /\ (isConnected(t) <=> isConnected(s))
    BY <2>3, <2>6, <2>7, SMTT(30) DEF Keeps, Stays, SameProgram, Sessions,
      Windows, Clients, Processes, Bridges, Previews, Batches, Operations,
      Lifecycles, Moves
  <2>. QED BY <2>2, <2>6, <2>7, <2>8, <2>9
<1>. QED BY <1>1, <1>2

(* A check of the file is asked for, unless the window closes or one is      *)
(* under way.                                                                *)
LEMMA requestVerificationUpdates ==
  ASSUME NEW s \in Sessions
  PROVE  LET t == requestVerification(s) IN
         /\ t \in Sessions /\ WindowOnly(s, t)
         /\ t.window.sequence = s.window.sequence
         /\ t.window.every = s.window.every
         /\ t.window.probe = s.window.probe
         /\ t.window.deadline = s.window.deadline
         /\ t.window.finalizing = s.window.finalizing
         /\ t.window.pendingStart = s.window.pendingStart
         /\ t.window.pendingStop = s.window.pendingStop
         /\ t.window.stopRequested = s.window.stopRequested
         /\ t.window.verification = IF Closing(s) \/ verificationActive(s)
                                       THEN s.window.verification ELSE "Waiting"
<1>. DEFINE v == [s EXCEPT !.window.verification = "Waiting"]
<1>1. /\ v \in Sessions /\ WindowOnly(s, v)
      /\ v.window.sequence = s.window.sequence
      /\ v.window.every = s.window.every
      /\ v.window.probe = s.window.probe
      /\ v.window.deadline = s.window.deadline
      /\ v.window.finalizing = s.window.finalizing
      /\ v.window.pendingStart = s.window.pendingStart
      /\ v.window.pendingStop = s.window.pendingStop
      /\ v.window.stopRequested = s.window.stopRequested
      /\ v.window.verification = "Waiting"
  BY DEF Sessions, Windows, WindowOnly
<1>2. requestVerification(s) = IF Closing(s) \/ verificationActive(s) THEN s ELSE v
  BY DEF requestVerification
<1>. HIDE DEF v
<1>. QED BY <1>1, <1>2 DEF WindowOnly

(* Two states that differ in what is being looked for, and not found. *)
ButForProbe(s, t) ==
  /\ WindowOnly(s, t)
  /\ t.window.sequence = s.window.sequence
  /\ t.window.every = s.window.every
  /\ t.window.verification = s.window.verification
  /\ t.window.deadline = s.window.deadline
  /\ t.window.finalizing = s.window.finalizing
  /\ t.window.pendingStart = s.window.pendingStart
  /\ t.window.pendingStop = s.window.pendingStop
  /\ t.window.stopRequested = s.window.stopRequested

(* The recorder is launched. *)
LEMMA LaunchFollows ==
  ASSUME NEW s \in Sessions, NEW a \in Sessions, Agrees(s), Agrees(a),
         ButForProbe(s, a), ~a.window.probe \/ s.window.probe,
         s.window.probe \/ startingSession(s),
         ~Closing(s), ~s.window.finalizing, s.window.every,
         s.process.os = "NotRunning"
  PROVE  LET t == startProcess(a, "GraphicalRecorder") IN
         /\ t \in Sessions /\ Agrees(t) /\ Follows(s, t)
         /\ Backed(s) => Backed(t)
         /\ Settled(s) => Settled(t)
<1>. DEFINE new == [kind |-> "GraphicalRecorder", state |-> "Launching",
                    os |-> "NotRunning", stopRequested |-> FALSE,
                    ending |-> FALSE]
            v == [a EXCEPT !.process = new]
            p == pumpSession(v)
            t == [p EXCEPT !.process.os = "Starting"]
<1>1. startProcess(a, "GraphicalRecorder") = t
  BY DEF startProcess
<1>2. /\ v \in Sessions /\ v.window = a.window /\ v.client = a.client
      /\ v.bridge = a.bridge /\ v.preview = a.preview
      /\ v.process.kind = "GraphicalRecorder"
      /\ v.process.state = "Launching" /\ v.process.os = "NotRunning"
      /\ ~v.process.stopRequested /\ ~v.process.ending
  BY DEF Sessions, Processes
<1>. HIDE DEF v
<1>3. Agrees(v)
  BY <1>2, SMTT(30) DEF Sessions, Windows, Clients, Processes, Bridges,
    Previews, Batches, Operations, Lifecycles, Agrees
<1>4. ~Selected(s)
  BY DEF Agrees
<1>5. /\ FreshStart(s) => FreshStart(v)
      /\ FileIsAlone(s) => FileIsAlone(v)
      /\ CutIsKnown(s) => CutIsKnown(v)
      /\ Backed(s) => Backed(v)
      /\ Settled(s) => Settled(v)
      /\ AllQuiet(s) => AllQuiet(v)
  BY <1>2, <1>4, SMTT(30) DEF Sessions, Windows, Clients, Processes, Bridges,
    Previews, Batches, Operations, Lifecycles, Keeps, Stays, Moves,
    SameProgram, LocalIsQuiet, StopGoesOn, StopIsOnItsWay, Agrees, CutIsKnown,
    FreshStart, FileIsAlone, Settled, Backed, ClosedSafely, AllQuiet,
    recordingActiveOrPending, effectiveRecordingState, effectiveOperationState,
    selectedStreamRecording, desiredRecordingState,
    recorderConnectionLostExternally, shutdownReady, shutdownSettledSafely,
    ButForProbe, WindowOnly
<1>6. p \in Sessions /\ Agrees(p) /\ Keeps(v, p) /\ Calm(p)
  BY <1>2, <1>3, PumpFollows
<1>. HIDE DEF p
<1>7. /\ t \in Sessions /\ t.window = p.window /\ t.client = p.client
      /\ t.bridge = p.bridge /\ t.preview = p.preview
      /\ t.process.kind = p.process.kind
      /\ t.process.state = p.process.state /\ t.process.os = "Starting"
      /\ t.process.stopRequested = p.process.stopRequested
      /\ t.process.ending = p.process.ending
  BY <1>6 DEF Sessions, Processes
<1>. HIDE DEF t
<1>8. /\ t.process.kind = "GraphicalRecorder"
      /\ t.process.state = "Launching"
      /\ ~t.process.stopRequested
  BY <1>2, <1>6, <1>7 DEF Keeps, Stays, SameProgram
<1>9. Agrees(t)
  BY <1>6, <1>7, <1>8, SMTT(30) DEF Sessions, Windows, Clients, Processes,
    Bridges, Previews, Batches, Operations, Lifecycles, Agrees
<1>10. /\ FreshStart(p) => FreshStart(t)
       /\ FileIsAlone(p) => FileIsAlone(t)
       /\ CutIsKnown(p) => CutIsKnown(t)
       /\ Backed(p) => Backed(t)
       /\ Settled(p) => Settled(t)
       /\ AllQuiet(p) => AllQuiet(t)
       /\ Calm(p) => Calm(t)
  BY <1>6, <1>7, <1>8, SMTT(30) DEF Sessions, Windows, Clients, Processes,
    Bridges, Previews, Batches, Operations, Lifecycles, Keeps, Stays, Moves,
    SameProgram, LocalIsQuiet, StopGoesOn, StopIsOnItsWay, Agrees, CutIsKnown,
    FreshStart, FileIsAlone, Settled, Backed, ClosedSafely, AllQuiet,
    recordingActiveOrPending, effectiveRecordingState, effectiveOperationState,
    selectedStreamRecording, desiredRecordingState,
    recorderConnectionLostExternally, shutdownReady, shutdownSettledSafely,
    Calm
<1>11. ~t.window.finalizing
  BY <1>2, <1>6, <1>7 DEF Keeps, Stays, Moves, ButForProbe
<1>12. Launched(s, t)
  BY <1>2, <1>6, <1>7, <1>8, SMTT(30) DEF Sessions, Windows, Clients,
    Processes, Bridges, Previews, Batches, Operations, Lifecycles, Launched,
    Keeps, Stays, Moves, SameProgram, ButForProbe, WindowOnly
<1>13. Moves(s, t)
  <2>1. Moves(v, p)
    BY <1>6 DEF Keeps, Stays
  <2>2. t.window.every
    BY <1>2, <1>7, <2>1 DEF Moves, ButForProbe
  <2>3. LocalIsQuiet(t)
    BY <2>2 DEF LocalIsQuiet
  <2>41. t.window.every = s.window.every
    BY <1>2, <1>7, <2>1 DEF Moves, ButForProbe, WindowOnly
  <2>42. t.window.deadline = s.window.deadline
    BY <1>2, <1>7, <2>1 DEF Moves, ButForProbe, WindowOnly
  <2>43. t.client.startMay => s.client.startMay
    BY <1>2, <1>7, <2>1 DEF Moves, ButForProbe, WindowOnly
  <2>44. t.client.shutdown = s.client.shutdown
    BY <1>2, <1>7, <2>1 DEF Moves, ButForProbe, WindowOnly
  <2>45. isConnected(t) => isConnected(s)
    BY <1>2, <1>7, <2>1 DEF Moves, ButForProbe, WindowOnly
  <2>8. \/ t.window.verification = s.window.verification
        \/ s.window.verification = "None" /\ t.window.verification = "Waiting"
    BY <1>2, <1>7, <2>1 DEF Moves, ButForProbe, WindowOnly
  <2>9. t.client.batch = s.client.batch \/ t.client.batch \in {"None", "Stopping"}
    BY <1>2, <1>7, <2>1 DEF Moves, ButForProbe, WindowOnly
  <2>5. s.client.startMay /\ t.client.startMay /\ Wanted(s) => Wanted(t)
    BY <1>2, <1>7, <2>1 DEF Moves, ButForProbe, WindowOnly
  <2>6. /\ t.window.sequence = s.window.sequence \/ t.window.sequence = "None"
        /\ s.window.finalizing => t.window.finalizing
        /\ t.window.finalizing => s.window.finalizing \/ Closing(s)
        /\ Closing(s) => Closing(t) \/ t.window.finalizing
        /\ t.window.probe => s.window.probe \/ startingSession(s)
        /\ t.window.pendingStart => s.window.pendingStart \/ startingSession(s)
    BY <1>2, <1>7, <2>1 DEF Moves, ButForProbe, WindowOnly
  <2>7. /\ s.bridge.stop => t.bridge.stop
        /\ ~stoppingSession(s) /\ ~s.bridge.stop => ~t.bridge.stop
        /\ \/ t.bridge.thread = s.bridge.thread
           \/ startingSession(s) /\ s.bridge.thread = "None"
        /\ t.window.finalizing => s.window.finalizing \/ t.bridge.thread = "None"
    BY <1>2, <1>7, <2>1 DEF Moves, ButForProbe, WindowOnly
  <2>. QED BY <1>12, <2>3, <2>41, <2>42, <2>43, <2>44, <2>45, <2>5, <2>6, <2>7,
    <2>8, <2>9 DEF Moves
<1>14. /\ stoppingSession(s) /\ ~s.bridge.stop /\ t.bridge.stop => AllQuiet(t)
       /\ ~startingSession(s) /\ AllQuiet(s) => AllQuiet(t)
  BY <1>2, <1>5, <1>6, <1>7, <1>10 DEF Keeps, Stays, ButForProbe, WindowOnly
<1>16. ~isConnected(s) /\ s.client.batch = "None" => t.client.batch = "None"
  BY <1>2, <1>6, <1>7 DEF Keeps, Stays, ButForProbe, WindowOnly
<1>15. Follows(s, t)
  BY <1>5, <1>6, <1>10, <1>11, <1>13, <1>14, <1>16 DEF Follows, Keeps, Stays,
    ClosedSafely
<1>. QED BY <1>1, <1>5, <1>6, <1>7, <1>9, <1>10, <1>15 DEF Keeps, Stays

(* A connection that is gone is reported, and may start the recorder. *)
LEMMA ConnectionGoneFollows ==
  ASSUME NEW s \in Sessions, NEW state \in {"Disconnected", "Error"},
         Agrees([s EXCEPT !.client.connection = state]), ~isConnected(s),
         s.window.finalizing => ~s.window.probe
  PROVE  LET t == setConnectionState(s, state) IN
         /\ t \in Sessions /\ Agrees(t) /\ Follows(s, t)
         /\ Backed(s) => Backed(t)
         /\ Settled(s) => Settled(t)
         /\ ~isConnected(t)
         /\ ~s.window.probe => SameProgram(s, t)
<1>. DEFINE c == [s EXCEPT !.client.connection = state]
            e == [c EXCEPT !.window.probe = FALSE]
            a == [e EXCEPT !.window.attempted = TRUE]
            l == startProcess(a, "GraphicalRecorder")
            r == ReactToConnection(c, state)
            t == setConnectionState(s, state)
<1>1. /\ c \in Sessions /\ Agrees(c) /\ ~isConnected(c)
      /\ ClientOnly(s, c) /\ c.client.connection = state
  BY DEF Sessions, Clients, ClientOnly
<1>2. /\ Follows(s, c) /\ SameProgram(s, c)
      /\ Backed(s) => Backed(c)
      /\ Settled(s) => Settled(c)
  BY SMTT(30) DEF Sessions, Windows, Clients, Processes, Bridges, Previews,
    Batches, Operations, Lifecycles, Keeps, Stays, Moves, SameProgram,
    LocalIsQuiet, StopGoesOn, StopIsOnItsWay, Agrees, CutIsKnown, FreshStart,
    FileIsAlone, Settled, Backed, ClosedSafely, AllQuiet,
    recordingActiveOrPending, effectiveRecordingState, effectiveOperationState,
    selectedStreamRecording, desiredRecordingState,
    recorderConnectionLostExternally, shutdownReady, shutdownSettledSafely,
    Follows, Calm
<1>3. t = pumpSession(scheduleFilenameSync(r))
  BY DEF setConnectionState
<1>. HIDE DEF c
<1>4. e \in Sessions /\ Agrees(e) /\ Keeps(c, e)
  BY <1>1, EndProbeKeeps
<1>5. /\ ButForProbe(c, e) /\ ~e.window.probe
  BY <1>1 DEF Sessions, Windows, ButForProbe, WindowOnly
<1>6. r \in {c, e} \/ (c.window.probe /\ r = launchConfiguredRecorder(e))
  BY DEF ReactToConnection, EndProbe
<1>. HIDE DEF e
<1>7. a \in Sessions /\ Agrees(a) /\ Keeps(e, a)
  BY <1>4, AttemptedFlagKeeps
<1>8. ButForProbe(e, a) /\ ~a.window.probe
  BY <1>4, <1>5 DEF Sessions, Windows, ButForProbe, WindowOnly
<1>9. launchConfiguredRecorder(e) \in {e, a}
      \/ (/\ ~Closing(e) /\ e.window.every /\ ~ownsRunningProcess(e)
          /\ launchConfiguredRecorder(e) = l)
  BY DEF launchConfiguredRecorder, StartGraphical
<1>. HIDE DEF a
<1>10. ButForProbe(c, a)
  BY <1>5, <1>8 DEF ButForProbe, WindowOnly
<1>11. Keeps(c, a)
  BY <1>1, <1>4, <1>7, KeepsTransitive
<1>12. /\ r \in Sessions /\ Agrees(r) /\ Follows(c, r)
       /\ Backed(c) => Backed(r)
       /\ Settled(c) => Settled(r)
       /\ ~c.window.probe => SameProgram(c, r)
  <2>1. CASE r \in {c, e, a}
    <3>1. r \in Sessions /\ Agrees(r) /\ Keeps(c, r)
      BY <1>1, <1>4, <1>7, <1>11, <2>1, KeepsReflexive
    <3>. QED BY <1>1, <3>1, KeepsFollows DEF Keeps, Stays
  <2>2. CASE /\ c.window.probe /\ r = l
             /\ ~Closing(e) /\ e.window.every /\ ~ownsRunningProcess(e)
    <3>1. ~Closing(c) /\ c.window.every /\ c.process.os = "NotRunning"
      BY <1>1, <1>5, <2>2 DEF ButForProbe, WindowOnly, Agrees
    <3>2. ~c.window.finalizing
      BY <1>1, <2>2 DEF ClientOnly
    <3>. QED BY <1>1, <1>7, <1>8, <1>10, <2>2, <3>1, <3>2, LaunchFollows
  <2>. QED BY <1>6, <1>9, <2>1, <2>2
<1>. HIDE DEF r
<1>13. ~isConnected(r)
  BY <1>1, <1>12 DEF Follows, Moves
<1>14. scheduleFilenameSync(r) = r
  BY <1>12, <1>13 DEF scheduleFilenameSync, recorderCanStart, Agrees
<1>. HIDE DEF t
<1>15. /\ t \in Sessions /\ Agrees(t) /\ Follows(r, t) /\ Keeps(r, t)
       /\ Backed(r) => Backed(t)
       /\ Settled(r) => Settled(t)
  BY <1>3, <1>12, <1>14, PumpFollows
<1>16. Follows(c, t)
  BY <1>1, <1>12, <1>15, FollowsTransitive
<1>17. Follows(s, t)
  BY <1>1, <1>2, <1>15, <1>16, FollowsTransitive
<1>18. ~s.window.probe => SameProgram(s, t)
  <2>. SUFFICES ASSUME ~s.window.probe PROVE SameProgram(s, t)
    OBVIOUS
  <2>1. SameProgram(c, r) /\ SameProgram(r, t)
    BY <1>1, <1>12, <1>15 DEF ClientOnly, Keeps, Stays
  <2>2. /\ t.window.deadline = r.window.deadline
        /\ t.client.startMay = r.client.startMay
        /\ r.window.deadline = c.window.deadline
        /\ r.client.startMay = c.client.startMay \/ ~r.client.startMay
    BY <1>1, <1>12, <1>15 DEF Keeps, Stays, Follows, Moves, Sessions, Clients
  <2>. QED BY <1>1, <1>2, <1>12, <1>15, <2>1, <2>2, SMTT(30) DEF SameProgram,
    Sessions, Windows, Clients, Processes, Bridges, Previews, Batches,
    Operations, Lifecycles
<1>. QED BY <1>2, <1>12, <1>13, <1>15, <1>17, <1>18 DEF t, Keeps, Stays

(* A command that failed, other than a Stop, is only told. *)
LEMMA FailureFollows ==
  ASSUME NEW s \in Sessions, Agrees(s), NEW batch, batch # "Stopping"
  PROVE  LET t == commandFinished(s, batch, FALSE) IN
         t \in Sessions /\ Agrees(t) /\ Keeps(s, t) /\ Calm(t)
<1>1. commandFinished(s, batch, FALSE) = pumpSession(s)
  BY DEF commandFinished
<1>. QED BY <1>1, PumpFollows

(* A Stop that was refused is asked for again. *)
LEMMA StopRefusedFollows ==
  ASSUME NEW s \in Sessions, Agrees(s), s.client.operation = "Stopping",
         s.client.batch = "None", ~Selected(s),
         s.client.shutdown \/ ~verificationActive(s)
  PROVE  LET t == commandFinished(s, "Stopping", FALSE) IN
         /\ t \in Sessions /\ Agrees(t) /\ Follows(s, t) /\ Backed(t)
         /\ SameProgram(s, t) /\ t.client.batch = "None"
         /\ isConnected(t) <=> isConnected(s)
<1>. DEFINE u == [s EXCEPT !.window.stopRequested = FALSE]
            v == [u EXCEPT !.window.pendingStop = TRUE]
            r == StopRefused(s)
            t == pumpSession(r)
<1>1. commandFinished(s, "Stopping", FALSE) = t
  BY DEF commandFinished
<1>2. /\ u \in Sessions /\ OnlyWishes(s, u)
      /\ ~u.window.stopRequested /\ u.window.pendingStart = s.window.pendingStart
  BY DEF Sessions, Windows, OnlyWishes, WindowOnly
<1>3. r = IF s.window.stopRequested /\ ~Closing(s) THEN v ELSE s
  BY DEF StopRefused
<1>. HIDE DEF u
<1>4. /\ v \in Sessions /\ OnlyWishes(u, v)
      /\ v.window.stopRequested = u.window.stopRequested
      /\ v.window.pendingStart = u.window.pendingStart
      /\ v.window.pendingStop
  BY <1>2 DEF Sessions, Windows, OnlyWishes, WindowOnly
<1>. HIDE DEF v
<1>5. /\ r \in Sessions /\ OnlyWishes(s, r)
      /\ r.window.pendingStart = s.window.pendingStart
      /\ \/ r.window.stopRequested = s.window.stopRequested
            /\ r.window.pendingStop = s.window.pendingStop
            /\ (s.window.stopRequested => Closing(s))
         \/ ~r.window.stopRequested /\ r.window.pendingStop
            /\ s.window.stopRequested /\ ~Closing(s)
  BY <1>2, <1>3, <1>4 DEF OnlyWishes, WindowOnly
<1>. HIDE DEF r
<1>6. Agrees(r)
  BY <1>5, SMTT(30) DEF Sessions, Windows, Clients, Processes, Bridges,
    Previews, Batches, Operations, Lifecycles, Agrees, OnlyWishes, WindowOnly
<1>7. Moves(s, r) /\ SameProgram(s, r)
  BY <1>5, SMTT(30) DEF Sessions, Windows, Clients, Processes, Bridges,
    Previews, Batches, Operations, Lifecycles, Moves, SameProgram,
    LocalIsQuiet, OnlyWishes, WindowOnly
<1>8. Backed(r) /\ ~AllQuiet(s)
  BY <1>5, SMTT(30) DEF Sessions, Windows, Clients, Processes, Bridges,
    Previews, Batches, Operations, Lifecycles, Keeps, Stays, Moves,
    SameProgram, LocalIsQuiet, StopGoesOn, StopIsOnItsWay, Agrees, CutIsKnown,
    FreshStart, FileIsAlone, Settled, Backed, ClosedSafely, AllQuiet,
    recordingActiveOrPending, effectiveRecordingState, effectiveOperationState,
    selectedStreamRecording, desiredRecordingState,
    recorderConnectionLostExternally, shutdownReady, shutdownSettledSafely,
    OnlyWishes, WindowOnly
<1>9. /\ FreshStart(s) => FreshStart(r)
      /\ FileIsAlone(s) => FileIsAlone(r)
      /\ CutIsKnown(s) => CutIsKnown(r)
      /\ ClosedSafely(s) => ClosedSafely(r)
      /\ Calm(s) => Calm(r)
      /\ r.bridge = s.bridge /\ r.client = s.client
  BY <1>5, SMTT(30) DEF Sessions, Windows, Clients, Processes, Bridges,
    Previews, Batches, Operations, Lifecycles, Keeps, Stays, Moves,
    SameProgram, LocalIsQuiet, StopGoesOn, StopIsOnItsWay, Agrees, CutIsKnown,
    FreshStart, FileIsAlone, Settled, Backed, ClosedSafely, AllQuiet,
    recordingActiveOrPending, effectiveRecordingState, effectiveOperationState,
    selectedStreamRecording, desiredRecordingState,
    recorderConnectionLostExternally, shutdownReady, shutdownSettledSafely,
    Calm, OnlyWishes, WindowOnly
<1>10. Follows(s, r)
  BY <1>7, <1>8, <1>9 DEF Follows
<1>11. /\ t \in Sessions /\ Agrees(t) /\ Keeps(r, t) /\ Follows(r, t) /\ Backed(t)
  BY <1>5, <1>6, <1>8, PumpFollows
<1>. HIDE DEF t
<1>12. Follows(s, t)
  BY <1>5, <1>10, <1>11, FollowsTransitive
<1>13. SameProgram(s, t) /\ t.client.batch = "None" /\ (isConnected(t) <=> isConnected(s))
  BY <1>5, <1>7, <1>11, SMTT(30) DEF Sessions, Windows, Clients, Processes,
    Bridges, Previews, Batches, Operations, Lifecycles, Keeps, Stays, Moves,
    SameProgram, OnlyWishes, WindowOnly
<1>. QED BY <1>1, <1>11, <1>12, <1>13

(* A Stop that the recorder confirmed asks for the check of the file. *)
LEMMA StopConfirmedFollows ==
  ASSUME NEW s \in Sessions, Agrees(s), s.client.operation = "Stopping",
         s.client.batch = "None", ~s.client.startMay, ~Selected(s),
         ~s.window.pendingStart,
         s.client.shutdown \/ ~s.window.pendingStop,
         s.client.shutdown \/ s.window.verification \in {"None", "Waiting"}
  PROVE  LET t == commandFinished(s, "Stopping", TRUE) IN
         /\ t \in Sessions /\ Agrees(t) /\ Follows(s, t) /\ SameProgram(s, t)
         /\ Backed(t) /\ FreshStart(t) /\ FileIsAlone(t)
<1>. DEFINE r == requestVerification(s)
            t == pumpSession(r)
<1>1. commandFinished(s, "Stopping", TRUE) = t
  BY DEF commandFinished
<1>2. /\ r \in Sessions /\ WindowOnly(s, r)
      /\ r.window.sequence = s.window.sequence
      /\ r.window.every = s.window.every
      /\ r.window.probe = s.window.probe
      /\ r.window.deadline = s.window.deadline
      /\ r.window.finalizing = s.window.finalizing
      /\ r.window.pendingStart = s.window.pendingStart
      /\ r.window.pendingStop = s.window.pendingStop
      /\ r.window.stopRequested = s.window.stopRequested
      /\ r.window.verification = IF Closing(s) \/ verificationActive(s)
                                    THEN s.window.verification ELSE "Waiting"
  BY requestVerificationUpdates
<1>. HIDE DEF r
<1>3. Agrees(r)
  BY <1>2, SMTT(30) DEF Sessions, Windows, Clients, Processes, Bridges,
    Previews, Batches, Operations, Lifecycles, Agrees, WindowOnly
<1>4. Moves(s, r) /\ SameProgram(s, r)
  BY <1>2, SMTT(30) DEF Sessions, Windows, Clients, Processes, Bridges,
    Previews, Batches, Operations, Lifecycles, Moves, SameProgram,
    LocalIsQuiet, WindowOnly
<1>5. Backed(r) /\ ~AllQuiet(s)
  BY <1>2, SMTT(30) DEF Sessions, Windows, Clients, Processes, Bridges,
    Previews, Batches, Operations, Lifecycles, Keeps, Stays, Moves,
    SameProgram, LocalIsQuiet, StopGoesOn, StopIsOnItsWay, Agrees, CutIsKnown,
    FreshStart, FileIsAlone, Settled, Backed, ClosedSafely, AllQuiet,
    recordingActiveOrPending, effectiveRecordingState, effectiveOperationState,
    selectedStreamRecording, desiredRecordingState,
    recorderConnectionLostExternally, shutdownReady, shutdownSettledSafely,
    WindowOnly
<1>6. FreshStart(r) /\ FileIsAlone(r)
  BY <1>2, SMTT(30) DEF Sessions, Windows, Clients, Processes, Bridges,
    Previews, Batches, Operations, Lifecycles, Keeps, Stays, Moves,
    SameProgram, LocalIsQuiet, StopGoesOn, StopIsOnItsWay, Agrees, CutIsKnown,
    FreshStart, FileIsAlone, Settled, Backed, ClosedSafely, AllQuiet,
    recordingActiveOrPending, effectiveRecordingState, effectiveOperationState,
    selectedStreamRecording, desiredRecordingState,
    recorderConnectionLostExternally, shutdownReady, shutdownSettledSafely,
    WindowOnly
<1>7. /\ CutIsKnown(s) => CutIsKnown(r)
      /\ ClosedSafely(s) => ClosedSafely(r)
      /\ Calm(s) => Calm(r)
      /\ r.bridge = s.bridge /\ r.client = s.client
  BY <1>2, SMTT(30) DEF Sessions, Windows, Clients, Processes, Bridges,
    Previews, Batches, Operations, Lifecycles, Keeps, Stays, Moves,
    SameProgram, LocalIsQuiet, StopGoesOn, StopIsOnItsWay, Agrees, CutIsKnown,
    FreshStart, FileIsAlone, Settled, Backed, ClosedSafely, AllQuiet,
    recordingActiveOrPending, effectiveRecordingState, effectiveOperationState,
    selectedStreamRecording, desiredRecordingState,
    recorderConnectionLostExternally, shutdownReady, shutdownSettledSafely,
    Calm, WindowOnly
<1>8. Follows(s, r)
  BY <1>4, <1>5, <1>6, <1>7 DEF Follows
<1>9. t \in Sessions /\ Agrees(t) /\ Keeps(r, t) /\ Follows(r, t) /\ Backed(t)
  BY <1>2, <1>3, <1>5, PumpFollows
<1>. HIDE DEF t
<1>10. Follows(s, t) /\ FreshStart(t) /\ FileIsAlone(t)
  BY <1>2, <1>6, <1>8, <1>9, FollowsTransitive DEF Follows
<1>11. SameProgram(s, t)
  BY <1>2, <1>4, <1>9, SameProgramTransitive DEF Keeps, Stays
<1>. QED BY <1>1, <1>9, <1>10, <1>11

(* A client that shuts down goes on with it. *)
LEMMA continueShutdownFollows ==
  ASSUME NEW s \in Sessions, Agrees(s), Settled(s)
  PROVE  LET t == continueShutdown(s) IN
         /\ t \in Sessions /\ Agrees(t) /\ Follows(s, t) /\ SameProgram(s, t)
         /\ Settled(t)
         /\ Backed(s) => Backed(t)
<1>1. CASE ~s.client.shutdown
  BY <1>1, KeepsReflexive, KeepsFollows DEF continueShutdown, Keeps, Stays
<1>2. CASE /\ s.client.shutdown
           /\ \/ s.client.batch # "None"
              \/ ~(s.client.startMay \/ s.client.recording = "Recording")
  BY <1>2, updateOperationStateFollows DEF continueShutdown
<1>3. CASE /\ s.client.shutdown /\ s.client.batch = "None"
           /\ s.client.startMay \/ s.client.recording = "Recording"
           /\ isConnected(s)
  <2>1. MayBegin(s, "Stopping") /\ s.client.operation # "Stopping"
    BY <1>3 DEF MayBegin, Settled
  <2>2. PICK o \in Sessions :
          /\ beginBatch(s, "Stopping") = pumpSession(o)
          /\ ButForBatch(s, o)
          /\ o.client.batch = "Stopping" /\ o.client.operation = "Stopping"
    BY <2>1, BatchBegins DEF Batches
  <2>. DEFINE t == pumpSession(o)
  <2>3. continueShutdown(s) = t
    BY <1>3, <2>2 DEF continueShutdown
  <2>4. ~Selected(s) /\ ~AllQuiet(s)
    BY <1>3 DEF Agrees, AllQuiet, recordingActiveOrPending
  <2>5. Agrees(o)
    BY <1>3, <2>2, <2>4, SMTT(30) DEF Sessions, Windows, Clients, Processes,
      Bridges, Previews, Batches, Operations, Lifecycles, Agrees, ButForBatch,
      ClientOnly
  <2>6. Moves(s, o) /\ SameProgram(s, o)
    BY <1>3, <2>2, SMTT(30) DEF Sessions, Windows, Clients, Processes, Bridges,
      Previews, Batches, Operations, Lifecycles, Moves, SameProgram,
      LocalIsQuiet, ButForBatch, ClientOnly
  <2>7. /\ FreshStart(s) => FreshStart(o)
        /\ FreshStart(s) /\ FileIsAlone(s) => FileIsAlone(o)
        /\ CutIsKnown(s) => CutIsKnown(o)
        /\ ClosedSafely(s) => ClosedSafely(o)
        /\ Calm(s) => Calm(o)
        /\ o.bridge = s.bridge /\ Settled(o)
        /\ Backed(s) => Backed(o)
    BY <1>3, <2>2, <2>4, SMTT(30) DEF Sessions, Windows, Clients, Processes,
      Bridges, Previews, Batches, Operations, Lifecycles, Keeps, Stays, Moves,
      SameProgram, LocalIsQuiet, StopGoesOn, StopIsOnItsWay, Agrees,
      CutIsKnown, FreshStart, FileIsAlone, Settled, Backed, ClosedSafely,
      AllQuiet, recordingActiveOrPending, effectiveRecordingState,
      effectiveOperationState, selectedStreamRecording, desiredRecordingState,
      recorderConnectionLostExternally, shutdownReady, shutdownSettledSafely,
      Calm, ButForBatch, ClientOnly
  <2>8. Follows(s, o)
    BY <1>3, <2>4, <2>6, <2>7 DEF Follows
  <2>9. /\ t \in Sessions /\ Agrees(t) /\ Keeps(o, t) /\ Follows(o, t)
        /\ Settled(t) /\ (Backed(s) => Backed(t))
    BY <2>2, <2>5, <2>7, PumpFollows
  <2>. HIDE DEF t
  <2>10. Follows(s, t)
    BY <2>2, <2>8, <2>9, FollowsTransitive
  <2>11. SameProgram(s, t)
    BY <2>2, <2>6, <2>9, SameProgramTransitive DEF Keeps, Stays
  <2>. QED BY <2>3, <2>9, <2>10, <2>11
<1>4. CASE /\ s.client.shutdown /\ s.client.batch = "None"
           /\ s.client.startMay \/ s.client.recording = "Recording"
           /\ ~isConnected(s)
  <2>. DEFINE r == setRecordingState(s, "Unknown")
              t == updateOperationState(r)
  <2>1. continueShutdown(s) = t
    BY <1>4 DEF continueShutdown
  <2>2. r \in Sessions /\ Agrees(r) /\ Keeps(s, r)
    BY PumpsKeep, RecordingUnknownKeeps
  <2>. HIDE DEF r
  <2>3. Follows(s, r) /\ (Backed(s) => Backed(r)) /\ SameProgram(s, r)
    BY <2>2, KeepsFollows DEF Keeps, Stays
  <2>4. /\ t \in Sessions /\ Agrees(t) /\ Follows(r, t) /\ Settled(t)
        /\ Backed(r) => Backed(t)
        /\ SameProgram(r, t)
    BY <2>2, updateOperationStateFollows
  <2>. HIDE DEF t
  <2>5. Follows(s, t)
    BY <2>2, <2>3, <2>4, FollowsTransitive
  <2>6. SameProgram(s, t)
    BY <2>2, <2>3, <2>4, SameProgramTransitive DEF Follows
  <2>. QED BY <2>1, <2>3, <2>4, <2>5, <2>6
<1>. QED BY <1>1, <1>2, <1>3, <1>4

(* What is left to do when the window has heard of the end of a batch. *)
LEMMA BatchToldFollows ==
  ASSUME NEW s \in Sessions, Agrees(s), Backed(s), FreshStart(s),
         FileIsAlone(s), ClosedSafely(s)
  PROVE  LET t == continueShutdown(updateOperationState(s)) IN
         /\ t \in Sessions /\ Agrees(t) /\ Follows(s, t) /\ SameProgram(s, t)
         /\ Sound(t)
<1>. DEFINE u == updateOperationState(s)
            t == continueShutdown(u)
<1>1. /\ u \in Sessions /\ Agrees(u) /\ Follows(s, u) /\ SameProgram(s, u)
      /\ Settled(u) /\ Backed(u)
  BY updateOperationStateFollows
<1>. HIDE DEF u
<1>2. /\ t \in Sessions /\ Agrees(t) /\ Follows(u, t) /\ SameProgram(u, t)
      /\ Settled(t) /\ Backed(t)
  BY <1>1, continueShutdownFollows
<1>. HIDE DEF t
<1>3. Follows(s, t)
  BY <1>1, <1>2, FollowsTransitive
<1>4. SameProgram(s, t)
  BY <1>1, <1>2, SameProgramTransitive DEF Follows
<1>5. Sound(t)
  BY <1>2, <1>3 DEF Follows, Sound
<1>. QED BY <1>2, <1>3, <1>4, <1>5 DEF t, u

(* The batch that is over, before anybody is told. *)
LEMMA BatchGoneFollows ==
  ASSUME NEW s \in Sessions, Agrees(s), Sound(s), s.client.batch # "None"
  PROVE  LET t == [s EXCEPT !.client.batch = "None"] IN
         /\ t \in Sessions /\ Agrees(t) /\ Follows(s, t) /\ SameProgram(s, t)
         /\ FreshStart(t) /\ FileIsAlone(t) /\ ClosedSafely(t)
         /\ s.client.batch # "Stopping" => Backed(t)
         /\ ButForBatch(s, t)
         /\ t.client.batch = "None" /\ t.client.operation = s.client.batch
<1>. DEFINE t == [s EXCEPT !.client.batch = "None"]
<1>1. /\ t \in Sessions /\ ButForBatch(s, t) /\ t.client.batch = "None"
      /\ t.client.operation = s.client.batch
  BY DEF Sessions, Clients, Batches, ButForBatch, ClientOnly, Agrees
<1>. HIDE DEF t
<1>2. Agrees(t)
  BY <1>1, SMTT(30) DEF Sessions, Windows, Clients, Processes, Bridges,
    Previews, Batches, Operations, Lifecycles, Agrees, ButForBatch, ClientOnly
<1>3. Moves(s, t) /\ SameProgram(s, t)
  BY <1>1, SMTT(30) DEF Sessions, Windows, Clients, Processes, Bridges,
    Previews, Batches, Operations, Lifecycles, Moves, SameProgram,
    LocalIsQuiet, ButForBatch, ClientOnly
<1>4. /\ FreshStart(t) /\ FileIsAlone(t) /\ ClosedSafely(t)
      /\ s.client.batch # "Stopping" => Backed(t)
      /\ CutIsKnown(s) => CutIsKnown(t)
      /\ Calm(s) => Calm(t)
  BY <1>1, SMTT(30) DEF Sessions, Windows, Clients, Processes, Bridges,
    Previews, Batches, Operations, Lifecycles, Keeps, Stays, Moves,
    SameProgram, LocalIsQuiet, StopGoesOn, StopIsOnItsWay, Agrees, CutIsKnown,
    FreshStart, FileIsAlone, Settled, Backed, ClosedSafely, AllQuiet,
    recordingActiveOrPending, effectiveRecordingState, effectiveOperationState,
    selectedStreamRecording, desiredRecordingState,
    recorderConnectionLostExternally, shutdownReady, shutdownSettledSafely,
    Sound, Calm, ButForBatch, ClientOnly
<1>5. AllQuiet(s) => AllQuiet(t)
  BY <1>1, SMTT(30) DEF Sessions, Windows, Clients, Processes, Bridges,
    Previews, Batches, Operations, Lifecycles, Keeps, Stays, Moves,
    SameProgram, LocalIsQuiet, StopGoesOn, StopIsOnItsWay, Agrees, CutIsKnown,
    FreshStart, FileIsAlone, Settled, Backed, ClosedSafely, AllQuiet,
    recordingActiveOrPending, effectiveRecordingState, effectiveOperationState,
    selectedStreamRecording, desiredRecordingState,
    recorderConnectionLostExternally, shutdownReady, shutdownSettledSafely,
    ButForBatch, ClientOnly
<1>6. Follows(s, t)
  BY <1>1, <1>3, <1>4, <1>5 DEF Follows, ButForBatch, ClientOnly
<1>. QED BY <1>1, <1>2, <1>3, <1>4, <1>6 DEF t

(* A batch that fails: what it was told of is told to the window. *)
LEMMA BatchFailedFollows ==
  ASSUME NEW s \in Sessions, Agrees(s), Sound(s)
  PROVE  LET t == finishActiveBatch(s, FALSE) IN
         /\ t \in Sessions /\ Agrees(t) /\ Follows(s, t) /\ SameProgram(s, t)
         /\ Sound(t)
         /\ ~isConnected(s) => t.client.batch = "None"
<1>1. CASE s.client.batch = "None"
  BY <1>1, KeepsReflexive, KeepsFollows DEF finishActiveBatch, Keeps, Stays
<1>2. CASE s.client.batch # "None"
  <2>. DEFINE f == [s EXCEPT !.client.batch = "None"]
              r == setRecordingState(f, "Unknown")
              c == commandFinished(r, s.client.batch, FALSE)
              t == continueShutdown(updateOperationState(c))
  <2>1. finishActiveBatch(s, FALSE) = t
    BY <1>2 DEF finishActiveBatch, Outcome, ForgetStart
  <2>2. /\ f \in Sessions /\ Agrees(f) /\ Follows(s, f) /\ SameProgram(s, f)
        /\ FreshStart(f) /\ FileIsAlone(f) /\ ClosedSafely(f)
        /\ s.client.batch # "Stopping" => Backed(f)
        /\ ButForBatch(s, f)
        /\ f.client.batch = "None" /\ f.client.operation = s.client.batch
    BY <1>2, BatchGoneFollows
  <2>. HIDE DEF f
  <2>3. r \in Sessions /\ Agrees(r) /\ Keeps(f, r)
    BY <2>2, PumpsKeep, RecordingUnknownKeeps
  <2>. HIDE DEF r
  <2>4. /\ Follows(f, r) /\ SameProgram(f, r)
        /\ r.client.batch = "None" /\ r.client.operation = s.client.batch
        /\ s.client.batch # "Stopping" => Backed(r)
        /\ FreshStart(r) /\ FileIsAlone(r) /\ ClosedSafely(r)
    <3>1. s.client.batch # "Idle"
      BY DEF Sessions, Clients, Batches
    <3>. QED BY <2>2, <2>3, <3>1, KeepsFollows DEF Keeps, Stays
  <2>5. /\ c \in Sessions /\ Agrees(c) /\ Follows(r, c) /\ SameProgram(r, c)
        /\ Backed(c)
    <3>1. CASE s.client.batch # "Stopping"
      <4>1. c \in Sessions /\ Agrees(c) /\ Keeps(r, c)
        BY <2>3, <3>1, FailureFollows
      <4>. HIDE DEF c
      <4>. QED BY <2>3, <2>4, <3>1, <4>1, KeepsFollows DEF Keeps, Stays
    <3>2. CASE s.client.batch = "Stopping"
      <4>1. ~Selected(s) /\ (s.client.shutdown \/ ~verificationActive(s))
        BY <3>2 DEF Agrees, Sound, FileIsAlone
      <4>2. ~Selected(f) /\ (f.client.shutdown \/ ~verificationActive(f))
        BY <2>2, <4>1 DEF ButForBatch, ClientOnly
      <4>3. ~Selected(r) /\ (r.client.shutdown \/ ~verificationActive(r))
        BY <2>3, <4>2 DEF Keeps, Stays, Moves, SameProgram
      <4>. QED BY <2>3, <2>4, <3>2, <4>3, StopRefusedFollows
    <3>. QED BY <3>1, <3>2
  <2>. HIDE DEF c
  <2>6. /\ Follows(f, c) /\ SameProgram(f, c)
        /\ FreshStart(c) /\ FileIsAlone(c) /\ ClosedSafely(c)
    BY <2>2, <2>3, <2>4, <2>5, FollowsTransitive, SameProgramTransitive DEF
      Follows
  <2>7. Follows(s, c) /\ SameProgram(s, c)
    BY <2>2, <2>5, <2>6, FollowsTransitive, SameProgramTransitive DEF Follows
  <2>8. /\ t \in Sessions /\ Agrees(t) /\ Follows(c, t) /\ SameProgram(c, t)
        /\ Sound(t)
    BY <2>5, <2>6, BatchToldFollows
  <2>. HIDE DEF t
  <2>9. Follows(s, t) /\ SameProgram(s, t) /\ Follows(f, t)
    BY <2>2, <2>5, <2>6, <2>7, <2>8, FollowsTransitive, SameProgramTransitive
      DEF Follows
  <2>10. ~isConnected(s) => t.client.batch = "None"
    BY <2>2, <2>9 DEF Follows, ButForBatch
  <2>. QED BY <2>1, <2>8, <2>9, <2>10
<1>. QED BY <1>1, <1>2

(* A Stop is confirmed: the recording is known to have stopped, then the   *)
(* start is forgotten, and then the command is told to have succeeded.     *)
LEMMA StopToldFollows ==
  ASSUME NEW s \in Sessions, Agrees(s), Sound(s), s.client.batch = "Stopping",
         NEW f \in Sessions, Agrees(f), ButForBatch(s, f),
         f.client.batch = "None", f.client.operation = "Stopping",
         FreshStart(f), FileIsAlone(f), ClosedSafely(f)
  PROVE  LET k == ForgetStart(setRecordingState(f, "Stopped"), TRUE)
             c == commandFinished(k, "Stopping", TRUE)
         IN  /\ c \in Sessions /\ Agrees(c) /\ Follows(s, c)
             /\ SameProgram(s, c) /\ Backed(c)
<1>. DEFINE v == [f EXCEPT !.client.recording = "Stopped"]
            q == IF f.client.recording = "Stopped" THEN f ELSE ReactToRecording(v)
            r == setRecordingState(f, "Stopped")
            k == ForgetStart(r, TRUE)
            c == commandFinished(k, "Stopping", TRUE)
<1>1. /\ v \in Sessions /\ ClientOnly(f, v) /\ v.client.recording = "Stopped"
      /\ v.client.connection = f.client.connection
      /\ v.client.socket = f.client.socket
      /\ v.client.operation = f.client.operation
      /\ v.client.batch = f.client.batch
      /\ v.client.startMay = f.client.startMay
      /\ v.client.shutdown = f.client.shutdown
  BY DEF Sessions, Clients, ClientOnly
<1>2. r = IF f.client.recording = "Stopped" THEN f ELSE pumpSession(q)
  BY DEF setRecordingState
<1>. HIDE DEF v
<1>3. /\ ~Selected(s) /\ ~s.window.pendingStart
      /\ ~s.client.shutdown =>
           /\ s.window.stopRequested /\ ~s.window.pendingStop
           /\ ~Closing(s) /\ ~verificationActive(s)
      /\ s.client.shutdown => ~startingSession(s)
  BY DEF Agrees, Sound, FreshStart, FileIsAlone
<1>4. /\ q \in Sessions /\ q.bridge = f.bridge /\ q.preview = f.preview
      /\ q.process = f.process
      /\ q.client.recording = "Stopped"
      /\ q.client.connection = f.client.connection
      /\ q.client.socket = f.client.socket
      /\ q.client.operation = f.client.operation
      /\ q.client.batch = f.client.batch
      /\ q.client.startMay = f.client.startMay
      /\ q.client.shutdown = f.client.shutdown
      /\ q.window.sequence = f.window.sequence
      /\ q.window.every = f.window.every
      /\ q.window.probe = f.window.probe
      /\ q.window.deadline = f.window.deadline
      /\ q.window.finalizing = f.window.finalizing
      /\ q.window.pendingStart = f.window.pendingStart
      /\ q.window.pendingStop = f.window.pendingStop
      /\ q.window.stopRequested = f.window.stopRequested
      /\ \/ q.window.verification = f.window.verification
         \/ f.window.verification = "None" /\ q.window.verification = "Waiting"
      /\ q # f /\ ~f.client.shutdown => verificationActive(q)
  <2>1. CASE f.client.recording = "Stopped"
    BY <2>1
  <2>2. CASE f.client.recording # "Stopped"
    <3>1. q = IF v.window.stopRequested THEN requestVerification(v) ELSE v
      BY <1>1, <2>2 DEF ReactToRecording
    <3>. HIDE DEF q
    <3>2. ~f.client.shutdown => v.window.stopRequested /\ ~Closing(v)
      BY <1>1, <1>3 DEF ButForBatch, ClientOnly
    <3>. QED
      BY <1>1, <3>1, <3>2, requestVerificationUpdates DEF ClientOnly,
        WindowOnly
  <2>. QED BY <2>1, <2>2
<1>. HIDE DEF q
<1>5. Agrees(q)
  BY <1>3, <1>4, SMTT(30) DEF Sessions, Windows, Clients, Processes, Bridges,
    Previews, Batches, Operations, Lifecycles, Agrees, ButForBatch, ClientOnly
<1>6. Moves(s, q) /\ SameProgram(s, q)
  BY <1>4, SMTT(30) DEF Sessions, Windows, Clients, Processes, Bridges,
    Previews, Batches, Operations, Lifecycles, Moves, SameProgram,
    LocalIsQuiet, ButForBatch,
    ClientOnly
<1>7. /\ r \in Sessions /\ Agrees(r) /\ Keeps(q, r)
      /\ r.client.recording # "Recording"
      /\ f.client.shutdown \/ r = f \/ verificationActive(r)
  <2>1. CASE f.client.recording = "Stopped"
    <3>1. q = f /\ r = f
      BY <1>2, <2>1 DEF q
    <3>. QED BY <3>1, <2>1, KeepsReflexive
  <2>2. CASE f.client.recording # "Stopped"
    <3>1. r = pumpSession(q)
      BY <1>2, <2>2
    <3>2. r \in Sessions /\ Agrees(r) /\ Keeps(q, r)
      BY <1>4, <1>5, <3>1, PumpFollows
    <3>. HIDE DEF r
    <3>3. ~f.client.shutdown => verificationActive(q)
      BY <1>4, <2>2
    <3>. QED BY <1>4, <3>2, <3>3 DEF Keeps, Stays
  <2>. QED BY <2>1, <2>2
<1>. HIDE DEF r
<1>8. /\ (~s.window.pendingStart /\ ~s.window.pendingStop) \/ s.client.shutdown
      /\ r.client.batch = "None" /\ r.client.operation = "Stopping"
      /\ r.client.shutdown = s.client.shutdown
      /\ isConnected(r) <=> isConnected(s)
      /\ ~Selected(r)
      /\ \/ r.window.verification = s.window.verification
         \/ s.window.verification = "None" /\ r.window.verification = "Waiting"
  BY <1>3, <1>4, <1>7 DEF Keeps, Stays, Moves, SameProgram, ButForBatch,
    ClientOnly
<1>9. FreshStart(q) /\ ClosedSafely(q)
  BY <1>3, <1>4, SMTT(30) DEF Sessions, Windows, Clients, Processes, Bridges,
    Previews, Batches, Operations, Lifecycles, Keeps, Stays, Moves,
    SameProgram, LocalIsQuiet, StopGoesOn, StopIsOnItsWay, Agrees, CutIsKnown,
    FreshStart, FileIsAlone, Settled, Backed, ClosedSafely, AllQuiet,
    recordingActiveOrPending, effectiveRecordingState, effectiveOperationState,
    selectedStreamRecording, desiredRecordingState,
    recorderConnectionLostExternally, shutdownReady, shutdownSettledSafely,
    ButForBatch, ClientOnly, Sound
<1>10. FreshStart(r) /\ ClosedSafely(r)
  BY <1>7, <1>9 DEF Keeps, Stays
<1>11. ~r.window.pendingStart
  <2>1. CASE s.client.shutdown
    BY <1>3, <1>4, <1>7, <2>1 DEF Keeps, Stays, Moves, ButForBatch, ClientOnly
  <2>2. CASE ~s.client.shutdown /\ r = f
    BY <1>3, <2>2 DEF ButForBatch, ClientOnly
  <2>3. CASE ~s.client.shutdown /\ verificationActive(r)
    BY <1>10, <2>3 DEF FreshStart
  <2>. QED BY <1>7, <2>1, <2>2, <2>3 DEF ButForBatch, ClientOnly
<1>12. s.client.shutdown \/ ~r.window.pendingStop
  <2>. SUFFICES ASSUME ~s.client.shutdown PROVE ~r.window.pendingStop
    OBVIOUS
  <2>1. q.window.stopRequested /\ ~q.window.pendingStop
    BY <1>3, <1>4 DEF ButForBatch, ClientOnly
  <2>. QED BY <1>7, <2>1 DEF Keeps, Stays, Agrees
<1>13. /\ k \in Sessions /\ ClientOnly(r, k) /\ ~k.client.startMay
       /\ k.client.connection = r.client.connection
       /\ k.client.socket = r.client.socket
       /\ k.client.operation = r.client.operation
       /\ k.client.batch = r.client.batch
       /\ k.client.recording = r.client.recording
       /\ k.client.shutdown = r.client.shutdown
  BY <1>7 DEF ForgetStart, Sessions, Clients, ClientOnly
<1>. HIDE DEF k
<1>14. Agrees(k)
  BY <1>7, <1>13, SMTT(30) DEF Sessions, Windows, Clients, Processes, Bridges,
    Previews, Batches, Operations, Lifecycles, Agrees, ClientOnly
<1>15. Moves(s, k) /\ SameProgram(s, k)
  <2>1. Moves(s, r)
    BY <1>4, <1>6, <1>7, MovesTransitive DEF Keeps, Stays
  <2>2. SameProgram(s, r)
    BY <1>4, <1>6, <1>7, SameProgramTransitive DEF Keeps, Stays
  <2>3. Moves(r, k) /\ SameProgram(r, k)
    BY <1>7, <1>8, <1>13, SMTT(30) DEF Sessions, Windows, Clients, Processes,
      Bridges, Previews, Batches, Operations, Lifecycles, Moves, SameProgram,
      LocalIsQuiet,
      ClientOnly
  <2>. QED BY <1>7, <1>13, <2>1, <2>2, <2>3, MovesTransitive,
    SameProgramTransitive
<1>16. /\ FreshStart(k) /\ FileIsAlone(k) /\ ClosedSafely(k)
  BY <1>3, <1>8, <1>10, <1>11, <1>12, <1>13, SMTT(30)
    DEF Sessions, Windows, Clients, Processes, Bridges, Previews, Batches,
      Operations, Lifecycles, Keeps, Stays, Moves, SameProgram, LocalIsQuiet,
      StopGoesOn, StopIsOnItsWay, Agrees, CutIsKnown, FreshStart, FileIsAlone,
      Settled, Backed, ClosedSafely, AllQuiet, recordingActiveOrPending,
      effectiveRecordingState, effectiveOperationState,
      selectedStreamRecording, desiredRecordingState,
      recorderConnectionLostExternally, shutdownReady, shutdownSettledSafely,
      ClientOnly, Sound
<1>17. CutIsKnown(s) => CutIsKnown(k)
  BY <1>8, <1>13 DEF CutIsKnown
<1>18. Calm(s) => Calm(k)
  <2>1. Calm(s) => Calm(q)
    BY <1>4, SMTT(30) DEF Sessions, Windows, Clients, Processes, Bridges,
      Previews, Batches, Operations, Lifecycles, Calm, StopIsOnItsWay,
      ButForBatch, ClientOnly
  <2>2. Calm(q) => Calm(r)
    BY <1>4, <1>7, KeepsFollows DEF Follows
  <2>3. Calm(r) => Calm(k)
    BY <1>7, <1>13 DEF Calm, StopIsOnItsWay, ClientOnly
  <2>. QED BY <2>1, <2>2, <2>3
<1>19. stoppingSession(s) /\ ~s.bridge.stop => ~k.bridge.stop
  <2>1. ~AllQuiet(r)
    BY <1>8 DEF AllQuiet, recordingActiveOrPending, effectiveOperationState
  <2>2. stoppingSession(q) /\ ~q.bridge.stop => ~r.bridge.stop
    BY <1>4, <1>7, <2>1 DEF Keeps, Stays, Bridges, Sessions
  <2>. QED BY <1>4, <1>13, <2>2 DEF ButForBatch, ClientOnly
<1>20. Follows(s, k)
  <2>1. ~AllQuiet(s)
    BY <1>3 DEF AllQuiet, recordingActiveOrPending, effectiveOperationState,
      Agrees
  <2>. QED BY <1>15, <1>16, <1>17, <1>18, <1>19, <2>1 DEF Follows
<1>21. /\ c \in Sessions /\ Agrees(c) /\ Follows(k, c) /\ SameProgram(k, c)
       /\ Backed(c)
  <2>1. /\ k.client.operation = "Stopping" /\ k.client.batch = "None"
        /\ ~k.client.startMay /\ ~Selected(k) /\ ~k.window.pendingStart
        /\ k.client.shutdown \/ ~k.window.pendingStop
        /\ k.client.shutdown \/ k.window.verification \in {"None", "Waiting"}
    BY <1>3, <1>8, <1>11, <1>12, <1>13 DEF ClientOnly
  <2>. QED BY <1>13, <1>14, <2>1, StopConfirmedFollows
<1>. HIDE DEF c
<1>22. Follows(s, c) /\ SameProgram(s, c)
  BY <1>13, <1>15, <1>20, <1>21, FollowsTransitive, SameProgramTransitive
    DEF Follows
<1>. QED BY <1>21, <1>22 DEF c, k, r

(* A batch that the recorder confirmed. *)
LEMMA BatchConfirmedFollows ==
  ASSUME NEW s \in Sessions, Agrees(s), Sound(s),
         s.client.batch = "Starting" => s.client.startMay
  PROVE  LET t == finishActiveBatch(s, TRUE) IN
         /\ t \in Sessions /\ Agrees(t) /\ Follows(s, t) /\ SameProgram(s, t)
         /\ Sound(t)
<1>1. CASE s.client.batch = "None"
  BY <1>1, KeepsReflexive, KeepsFollows DEF finishActiveBatch, Keeps, Stays
<1>2. CASE s.client.batch # "None"
  <2>. DEFINE f == [s EXCEPT !.client.batch = "None"]
              r == setRecordingState(f, Outcome(s, TRUE))
              k == ForgetStart(r, s.client.batch = "Stopping")
              c == commandFinished(k, s.client.batch, TRUE)
              t == continueShutdown(updateOperationState(c))
  <2>1. finishActiveBatch(s, TRUE) = t
    BY <1>2 DEF finishActiveBatch
  <2>2. /\ f \in Sessions /\ Agrees(f) /\ Follows(s, f) /\ SameProgram(s, f)
        /\ FreshStart(f) /\ FileIsAlone(f) /\ ClosedSafely(f)
        /\ s.client.batch # "Stopping" => Backed(f)
        /\ ButForBatch(s, f)
        /\ f.client.batch = "None" /\ f.client.operation = s.client.batch
    BY <1>2, BatchGoneFollows
  <2>. HIDE DEF f
  <2>3. /\ c \in Sessions /\ Agrees(c) /\ Follows(s, c) /\ SameProgram(s, c)
        /\ Backed(c)
    <3>1. CASE s.client.batch = "Stopping"
      <4>1. Outcome(s, TRUE) = "Stopped"
        BY <3>1 DEF Outcome
      <4>. QED BY <2>2, <3>1, <4>1, StopToldFollows
    <3>2. CASE s.client.batch = "Starting"
      <4>. DEFINE v == [f EXCEPT !.client.recording = "Recording"]
                  w == IF f.client.recording = "Recording" THEN f ELSE v
      <4>1. /\ v \in Sessions /\ ClientOnly(f, v)
            /\ v.client.recording = "Recording"
            /\ v.client.connection = f.client.connection
            /\ v.client.socket = f.client.socket
            /\ v.client.operation = f.client.operation
            /\ v.client.batch = f.client.batch
            /\ v.client.startMay = f.client.startMay
            /\ v.client.shutdown = f.client.shutdown
        BY <2>2 DEF Sessions, Clients, ClientOnly
      <4>2. c = pumpSession(r)
        BY <3>2 DEF ForgetStart, commandFinished
      <4>3. r = w \/ r = pumpSession(w)
        <5>1. Outcome(s, TRUE) = "Recording"
          BY <3>2 DEF Outcome
        <5>2. ReactToRecording(v) = v
          BY <4>1 DEF ReactToRecording
        <5>. QED BY <5>1, <5>2 DEF setRecordingState
      <4>. HIDE DEF v
      <4>4. /\ w \in Sessions /\ ClientOnly(f, w)
            /\ w.client.recording = "Recording"
            /\ w.client.connection = f.client.connection
            /\ w.client.socket = f.client.socket
            /\ w.client.operation = f.client.operation
            /\ w.client.batch = f.client.batch
            /\ w.client.startMay = f.client.startMay
            /\ w.client.shutdown = f.client.shutdown
        BY <2>2, <4>1 DEF ClientOnly
      <4>. HIDE DEF w
      <4>5. f.client.startMay
        BY <2>2, <3>2 DEF ButForBatch
      <4>6. Agrees(w)
        BY <2>2, <4>4, <4>5, SMTT(30) DEF Sessions, Windows, Clients,
          Processes, Bridges, Previews, Batches, Operations, Lifecycles,
          Agrees, ClientOnly
      <4>7. Moves(s, w) /\ SameProgram(s, w)
        BY <2>2, <4>4, SMTT(30) DEF Sessions, Windows, Clients, Processes,
          Bridges, Previews, Batches, Operations, Lifecycles, Moves,
          SameProgram, LocalIsQuiet,
          ButForBatch, ClientOnly
      <4>8. Backed(w) /\ FreshStart(w) /\ FileIsAlone(w) /\ ClosedSafely(w)
        BY <2>2, <3>2, <4>4, SMTT(30) DEF Sessions, Windows, Clients,
          Processes, Bridges, Previews, Batches, Operations, Lifecycles, Keeps,
          Stays, Moves, SameProgram, LocalIsQuiet, StopGoesOn, StopIsOnItsWay,
          Agrees, CutIsKnown, FreshStart, FileIsAlone, Settled, Backed,
          ClosedSafely, AllQuiet, recordingActiveOrPending,
          effectiveRecordingState, effectiveOperationState,
          selectedStreamRecording, desiredRecordingState,
          recorderConnectionLostExternally, shutdownReady,
          shutdownSettledSafely, ClientOnly
      <4>9. /\ CutIsKnown(s) => CutIsKnown(w)
            /\ Calm(s) => Calm(w)
            /\ ~AllQuiet(s) /\ w.bridge = s.bridge
        BY <2>2, <3>2, <4>4, <4>5, SMTT(30) DEF Sessions, Windows, Clients,
          Processes, Bridges, Previews, Batches, Operations, Lifecycles, Keeps,
          Stays, Moves, SameProgram, LocalIsQuiet, StopGoesOn, StopIsOnItsWay,
          Agrees, CutIsKnown, FreshStart, FileIsAlone, Settled, Backed,
          ClosedSafely, AllQuiet, recordingActiveOrPending,
          effectiveRecordingState, effectiveOperationState,
          selectedStreamRecording, desiredRecordingState,
          recorderConnectionLostExternally, shutdownReady,
          shutdownSettledSafely, Calm, ClientOnly,
          ButForBatch
      <4>10. Follows(s, w)
        BY <3>2, <4>7, <4>8, <4>9 DEF Follows
      <4>11. /\ r \in Sessions /\ Agrees(r) /\ Keeps(w, r) /\ Follows(w, r)
             /\ Backed(r)
        BY <4>3, <4>4, <4>6, <4>8, KeepsReflexive, KeepsFollows, PumpFollows
      <4>. HIDE DEF r
      <4>12. /\ c \in Sessions /\ Agrees(c) /\ Keeps(r, c) /\ Follows(r, c)
             /\ Backed(c)
        BY <4>2, <4>11, PumpFollows
      <4>. HIDE DEF c
      <4>13. Follows(s, r) /\ SameProgram(s, r)
        BY <4>4, <4>7, <4>10, <4>11, FollowsTransitive, SameProgramTransitive
          DEF Keeps, Stays
      <4>. QED BY <4>11, <4>12, <4>13, FollowsTransitive, SameProgramTransitive
             DEF Keeps, Stays
    <3>3. CASE s.client.batch \notin {"Starting", "Stopping"}
      <4>1. r = f
        <5>1. Outcome(s, TRUE) = f.client.recording
          BY <2>2, <3>3 DEF Outcome, ButForBatch
        <5>. QED BY <5>1 DEF setRecordingState
      <4>2. c = pumpSession(f)
        BY <3>3, <4>1 DEF ForgetStart, commandFinished
      <4>3. c \in Sessions /\ Agrees(c) /\ Keeps(f, c) /\ Follows(f, c) /\ Backed(c)
        BY <2>2, <3>3, <4>2, PumpFollows
      <4>. HIDE DEF c
      <4>. QED BY <2>2, <4>3, FollowsTransitive, SameProgramTransitive
             DEF Keeps, Stays
    <3>. QED BY <3>1, <3>2, <3>3
  <2>. HIDE DEF c
  <2>4. FreshStart(c) /\ FileIsAlone(c) /\ ClosedSafely(c)
    BY <2>3 DEF Follows, Sound
  <2>5. /\ t \in Sessions /\ Agrees(t) /\ Follows(c, t) /\ SameProgram(c, t)
        /\ Sound(t)
    BY <2>3, <2>4, BatchToldFollows
  <2>. HIDE DEF t
  <2>6. Follows(s, t) /\ SameProgram(s, t)
    BY <2>3, <2>5, FollowsTransitive, SameProgramTransitive DEF Follows
  <2>. QED BY <2>1, <2>5, <2>6
<1>. QED BY <1>1, <1>2

(* The client forgets what it knew of the recording. *)
LEMMA RecordingUnknown ==
  ASSUME NEW s \in Sessions, Agrees(s)
  PROVE  LET t == setRecordingState(s, "Unknown") IN
         /\ t \in Sessions /\ Agrees(t) /\ Keeps(s, t)
         /\ t.client.recording = "Unknown"
<1>. DEFINE u == [s EXCEPT !.client.recording = "Unknown"]
            t == setRecordingState(s, "Unknown")
<1>1. t \in Sessions /\ Agrees(t) /\ Keeps(s, t)
  BY PumpsKeep, RecordingUnknownKeeps
<1>2. CASE s.client.recording = "Unknown"
  BY <1>1, <1>2 DEF setRecordingState
<1>3. CASE s.client.recording # "Unknown"
  <2>1. u \in Sessions /\ u.client.recording = "Unknown"
    BY DEF Sessions, Clients
  <2>2. Agrees(u)
    BY SMTT(30) DEF Sessions, Windows, Clients, Processes, Bridges, Previews,
      Batches, Operations, Lifecycles, Agrees
  <2>3. t = pumpSession(u)
    BY <1>3, <2>1 DEF setRecordingState, ReactToRecording
  <2>. HIDE DEF u
  <2>4. Keeps(u, t)
    BY <2>1, <2>2, <2>3, PumpFollows
  <2>. QED BY <1>1, <2>1, <2>4 DEF Keeps, Stays
<1>. QED BY <1>2, <1>3

(* Without a connection, and with none reported, nothing is known of the   *)
(* recording once the batch is given up.                                   *)
LEMMA onDisconnectedFollows ==
  ASSUME NEW s \in Sessions, Sound(s), ~isConnected(s), ~s.window.probe,
         Agrees([s EXCEPT !.client.connection = "Disconnected"]),
         s.client.connection # "Error"
  PROVE  LET t == onDisconnected(s) IN
         /\ t \in Sessions /\ Agrees(t) /\ Follows(s, t) /\ SameProgram(s, t)
         /\ Sound(t) /\ CutIsKnown(t) /\ ~isConnected(t)
<1>. DEFINE d == setConnectionState(s, "Disconnected")
            f == finishActiveBatch(d, FALSE)
            r == setRecordingState(f, "Unknown")
            t == updateOperationState(r)
<1>1. onDisconnected(s) = t
  BY DEF onDisconnected, NowDisconnected
<1>2. /\ d \in Sessions /\ Agrees(d) /\ Follows(s, d) /\ SameProgram(s, d)
      /\ Sound(d) /\ ~isConnected(d)
  <2>1. LET state == "Disconnected" IN
        /\ d \in Sessions /\ Agrees(d) /\ Follows(s, d) /\ SameProgram(s, d)
        /\ Backed(s) => Backed(d)
        /\ Settled(s) => Settled(d)
        /\ ~isConnected(d)
    BY ConnectionGoneFollows
  <2>. HIDE DEF d
  <2>. QED BY <2>1 DEF Sound, Follows
<1>. HIDE DEF d
<1>3. /\ f \in Sessions /\ Agrees(f) /\ Follows(d, f) /\ SameProgram(d, f)
      /\ Sound(f) /\ f.client.batch = "None"
  BY <1>2, BatchFailedFollows
<1>. HIDE DEF f
<1>4. /\ r \in Sessions /\ Agrees(r) /\ Keeps(f, r)
      /\ r.client.recording = "Unknown"
  BY <1>3, RecordingUnknown
<1>. HIDE DEF r
<1>5. Follows(f, r) /\ SameProgram(f, r) /\ Sound(r)
  BY <1>3, <1>4, KeepsFollows DEF Keeps, Stays
<1>6. ~isConnected(r) /\ CutIsKnown(r)
  BY <1>2, <1>3, <1>4, <1>5 DEF Keeps, Stays, Follows, Moves, CutIsKnown
<1>7. /\ t \in Sessions /\ Agrees(t) /\ Follows(r, t) /\ SameProgram(r, t)
      /\ Settled(t) /\ Backed(t)
  BY <1>4, <1>5, updateOperationStateFollows DEF Sound
<1>. HIDE DEF t
<1>8. Sound(t) /\ CutIsKnown(t) /\ ~isConnected(t)
  BY <1>5, <1>6, <1>7 DEF Sound, Follows, Moves
<1>9. Follows(s, f) /\ SameProgram(s, f)
  BY <1>2, <1>3, FollowsTransitive, SameProgramTransitive DEF Follows
<1>10. Follows(s, r) /\ SameProgram(s, r)
  BY <1>3, <1>4, <1>5, <1>9, FollowsTransitive, SameProgramTransitive
    DEF Follows
<1>11. Follows(s, t) /\ SameProgram(s, t)
  BY <1>4, <1>7, <1>10, FollowsTransitive, SameProgramTransitive DEF Follows
<1>. QED BY <1>1, <1>7, <1>8, <1>11 DEF t

(* A connection that is cut leaves what follows from it to be told. *)
LEMMA abortFollows ==
  ASSUME NEW s \in Sessions, Agrees(s), Sound(s), CutIsKnown(s)
  PROVE  LET t == abort(s) IN
         /\ t \in Sessions /\ Agrees(t) /\ Follows(s, t) /\ SameProgram(s, t)
         /\ Sound(t) /\ CutIsKnown(t) /\ ~isConnected(t)
<1>. DEFINE c == [s EXCEPT !.client.socket = "Closed"]
            e == [c EXCEPT !.client.connection = "Disconnected"]
            t == onDisconnected(c)
<1>1. CASE ~isConnected(s)
  <2>1. c \in Sessions /\ Agrees(c) /\ Keeps(s, c) /\ ~isConnected(c)
    BY <1>1, SocketKeeps
  <2>2. abort(s) = c
    BY <1>1 DEF abort
  <2>. HIDE DEF c
  <2>3. Follows(s, c) /\ SameProgram(s, c) /\ Sound(c) /\ CutIsKnown(c)
    BY <2>1, KeepsFollows DEF Keeps, Stays
  <2>. QED BY <2>1, <2>2, <2>3
<1>2. CASE isConnected(s)
  <2>1. /\ c \in Sessions /\ ClientOnly(s, c) /\ ~isConnected(c)
        /\ c.client.connection = s.client.connection
        /\ c.client.recording = s.client.recording
        /\ c.client.operation = s.client.operation
        /\ c.client.batch = s.client.batch
        /\ c.client.startMay = s.client.startMay
        /\ c.client.shutdown = s.client.shutdown
    BY DEF Sessions, Clients, ClientOnly
  <2>2. abort(s) = t
    BY <1>2 DEF abort
  <2>. HIDE DEF c
  <2>3. /\ e \in Sessions /\ ClientOnly(c, e)
        /\ e.client.connection = "Disconnected"
        /\ e.client.socket = c.client.socket
        /\ e.client.recording = c.client.recording
        /\ e.client.operation = c.client.operation
        /\ e.client.batch = c.client.batch
        /\ e.client.startMay = c.client.startMay
        /\ e.client.shutdown = c.client.shutdown
    BY <2>1 DEF Sessions, Clients, ClientOnly
  <2>4. Agrees(e)
    <3>. HIDE DEF e
    <3>. QED BY <1>2, <2>1, <2>3, SMTT(30) DEF Sessions, Windows, Clients,
      Processes, Bridges, Previews, Batches, Operations, Lifecycles, Agrees,
      ClientOnly
  <2>5. ~c.window.probe /\ c.client.connection = "Connected"
    BY <1>2, <2>1 DEF Agrees, ClientOnly
  <2>6. FreshStart(c) /\ FileIsAlone(c) /\ Settled(c) /\ Backed(c)
    BY <2>1, SMTT(30) DEF Sessions, Windows, Clients, Processes, Bridges,
      Previews, Batches, Operations, Lifecycles, Keeps, Stays, Moves,
      SameProgram, LocalIsQuiet, StopGoesOn, StopIsOnItsWay, Agrees,
      CutIsKnown, FreshStart, FileIsAlone, Settled, Backed, ClosedSafely,
      AllQuiet, recordingActiveOrPending, effectiveRecordingState,
      effectiveOperationState, selectedStreamRecording, desiredRecordingState,
      recorderConnectionLostExternally, shutdownReady, shutdownSettledSafely,
      ClientOnly, Sound
  <2>7. ClosedSafely(c)
    BY <1>2, <2>1, <2>5 DEF Sound, ClosedSafely, ClientOnly,
      recorderConnectionLostExternally
  <2>8. /\ t \in Sessions /\ Agrees(t) /\ Follows(c, t) /\ SameProgram(c, t)
        /\ Sound(t) /\ CutIsKnown(t) /\ ~isConnected(t)
    <3>1. Sound(c)
      BY <2>6, <2>7 DEF Sound
    <3>. QED BY <2>1, <2>4, <2>5, <3>1, onDisconnectedFollows
  <2>. HIDE DEF t
  <2>9. Moves(s, c) /\ SameProgram(s, c)
    BY <2>1, SMTT(30) DEF Sessions, Windows, Clients, Processes, Bridges,
      Previews, Batches, Operations, Lifecycles, Moves, SameProgram,
      LocalIsQuiet, ClientOnly
  <2>10. /\ Calm(s) => Calm(c)
         /\ AllQuiet(s) => AllQuiet(c)
         /\ c.bridge = s.bridge
    BY <2>1, SMTT(30) DEF Sessions, Windows, Clients, Processes, Bridges,
      Previews, Batches, Operations, Lifecycles, Keeps, Stays, Moves,
      SameProgram, LocalIsQuiet, StopGoesOn, StopIsOnItsWay, Agrees,
      CutIsKnown, FreshStart, FileIsAlone, Settled, Backed, ClosedSafely,
      AllQuiet, recordingActiveOrPending, effectiveRecordingState,
      effectiveOperationState, selectedStreamRecording, desiredRecordingState,
      recorderConnectionLostExternally, shutdownReady, shutdownSettledSafely,
      Calm, ClientOnly
  <2>11. Moves(s, t) /\ SameProgram(s, t)
    BY <2>1, <2>8, <2>9, MovesTransitive, SameProgramTransitive DEF Follows
  <2>12. Follows(s, t)
    BY <1>2, <2>1, <2>8, <2>10, <2>11 DEF Follows, Sound, ClientOnly
  <2>. QED BY <2>2, <2>8, <2>11, <2>12
<1>. QED BY <1>1, <1>2

(* A connection that fails: its end is told first, then the error. *)
LEMMA failActiveConnectionFollows ==
  ASSUME NEW s \in Sessions, Agrees(s), Sound(s), CutIsKnown(s),
         ~s.window.finalizing
  PROVE  LET t == failActiveConnection(s) IN
         /\ t \in Sessions /\ Agrees(t) /\ Follows(s, t)
         /\ Sound(t) /\ CutIsKnown(t)
<1>. DEFINE a == abort(s)
            e == [a EXCEPT !.client.connection = "Error"]
            c == setConnectionState(a, "Error")
            f == finishActiveBatch(c, FALSE)
            t == updateOperationState(f)
<1>1. /\ a \in Sessions /\ Agrees(a) /\ Follows(s, a)
      /\ Sound(a) /\ CutIsKnown(a) /\ ~isConnected(a)
  BY abortFollows
<1>2. failActiveConnection(s) = t
  <2>1. setRecordingState(a, "Unknown") = a
    BY <1>1 DEF setRecordingState, CutIsKnown
  <2>. QED BY <2>1 DEF failActiveConnection
<1>3. a.window.finalizing => ~a.window.probe
  <2>1. CASE isConnected(s)
    BY <1>1, <2>1 DEF Follows, Moves, Agrees
  <2>2. CASE ~isConnected(s)
    BY <2>2 DEF abort
  <2>. QED BY <2>1, <2>2
<1>. HIDE DEF a
<1>4. Agrees(e)
  BY <1>1, SMTT(30) DEF Sessions, Windows, Clients, Processes, Bridges,
    Previews, Batches, Operations, Lifecycles, Agrees
<1>5. /\ c \in Sessions /\ Agrees(c) /\ Follows(a, c)
      /\ Backed(c) /\ Settled(c)
  BY <1>1, <1>3, <1>4, ConnectionGoneFollows DEF Sound
<1>. HIDE DEF c
<1>6. Sound(c)
  BY <1>1, <1>5 DEF Sound, Follows
<1>7. f \in Sessions /\ Agrees(f) /\ Follows(c, f) /\ Sound(f)
  BY <1>5, <1>6, BatchFailedFollows
<1>. HIDE DEF f
<1>8. /\ t \in Sessions /\ Agrees(t) /\ Follows(f, t)
      /\ Backed(t) /\ Settled(t)
  BY <1>7, updateOperationStateFollows DEF Sound
<1>. HIDE DEF t
<1>9. Follows(s, c)
  BY <1>1, <1>5, FollowsTransitive
<1>10. Follows(s, f)
  BY <1>5, <1>7, <1>9, FollowsTransitive
<1>11. Follows(s, t)
  BY <1>7, <1>8, <1>10, FollowsTransitive
<1>12. Sound(t) /\ CutIsKnown(t)
  BY <1>7, <1>8, <1>11 DEF Sound, Follows
<1>. QED BY <1>2, <1>8, <1>11, <1>12 DEF t

(* Connecting anew: a connection that there is is cut first. *)
LEMMA connectToServerFollows ==
  ASSUME NEW s \in Sessions, Agrees(s), Sound(s), CutIsKnown(s)
  PROVE  LET t == connectToServer(s) IN
         /\ t \in Sessions /\ Agrees(t) /\ Follows(s, t) /\ SameProgram(s, t)
         /\ Sound(t) /\ CutIsKnown(t)
<1>. DEFINE a == abort(s)
            c == setConnectionState(a, "Connecting")
            t == [c EXCEPT !.client.socket = "Connecting"]
<1>1. CASE RefusesConnect(s)
  <2>. DEFINE p == pumpSession(s)
  <2>1. connectToServer(s) = p
    BY <1>1 DEF connectToServer
  <2>2. /\ p \in Sessions /\ Agrees(p) /\ Keeps(s, p) /\ Follows(s, p)
        /\ Sound(p)
    BY PumpFollows
  <2>. HIDE DEF p
  <2>. QED BY <2>1, <2>2 DEF Keeps, Stays
<1>2. CASE ~RefusesConnect(s)
  <2>1. /\ a \in Sessions /\ Agrees(a) /\ Follows(s, a) /\ SameProgram(s, a)
        /\ Sound(a) /\ CutIsKnown(a) /\ ~isConnected(a)
    BY abortFollows
  <2>2. connectToServer(s) = t
    <3>1. setRecordingState(a, "Unknown") = a
      BY <2>1 DEF setRecordingState, CutIsKnown
    <3>. QED BY <1>2, <3>1 DEF connectToServer
  <2>. HIDE DEF a
  <2>3. ~a.client.shutdown
    BY <1>2, <2>1 DEF RefusesConnect, Follows, Moves
  <2>4. c \in Sessions /\ Agrees(c) /\ Keeps(a, c)
    BY <2>1, <2>3, PumpsKeep, ConnectingKeeps
  <2>. HIDE DEF c
  <2>5. ~isConnected(c)
    BY <2>1, <2>4 DEF Keeps, Stays
  <2>6. t \in Sessions /\ Agrees(t) /\ Keeps(c, t)
    BY <2>4, <2>5, SocketKeeps
  <2>. HIDE DEF t
  <2>7. Keeps(a, t)
    BY <2>1, <2>4, <2>6, KeepsTransitive
  <2>8. /\ Follows(a, t) /\ SameProgram(a, t) /\ Sound(t) /\ CutIsKnown(t)
    BY <2>1, <2>6, <2>7, KeepsFollows DEF Keeps, Stays
  <2>9. Follows(s, t) /\ SameProgram(s, t)
    BY <2>1, <2>6, <2>8, FollowsTransitive, SameProgramTransitive DEF Follows
  <2>. QED BY <2>2, <2>6, <2>8, <2>9
<1>. QED BY <1>1, <1>2

(* The window connects anew. *)
LEMMA onConnectLabRecorderFollows ==
  ASSUME NEW s \in Sessions, Agrees(s), Sound(s), CutIsKnown(s)
  PROVE  LET t == onConnectLabRecorder(s) IN
         /\ t \in Sessions /\ Agrees(t) /\ Follows(s, t) /\ SameProgram(s, t)
         /\ Sound(t) /\ CutIsKnown(t)
<1>. DEFINE e == [s EXCEPT !.window.probe = FALSE]
            owns == OwnsGraphical(s)
            u == [e EXCEPT !.window.retry = owns]
            t == connectToServer(u)
<1>1. onConnectLabRecorder(s) \in {s, t}
  BY DEF onConnectLabRecorder
<1>2. e \in Sessions /\ Agrees(e) /\ Keeps(s, e)
  BY EndProbeKeeps
<1>. HIDE DEF e
<1>3. owns \in BOOLEAN
  BY DEF OwnsGraphical
<1>. HIDE DEF owns
<1>4. u \in Sessions /\ Agrees(u) /\ Keeps(e, u)
  BY <1>2, <1>3, RetryFlagKeeps
<1>. HIDE DEF u
<1>5. Keeps(s, u)
  BY <1>2, <1>4, KeepsTransitive
<1>6. Follows(s, u) /\ SameProgram(s, u) /\ Sound(u) /\ CutIsKnown(u)
  BY <1>4, <1>5, KeepsFollows DEF Keeps, Stays
<1>7. /\ t \in Sessions /\ Agrees(t) /\ Follows(u, t) /\ SameProgram(u, t)
      /\ Sound(t) /\ CutIsKnown(t)
  BY <1>4, <1>6, connectToServerFollows
<1>. HIDE DEF t
<1>8. Follows(s, t) /\ SameProgram(s, t)
  BY <1>4, <1>6, <1>7, FollowsTransitive, SameProgramTransitive DEF Follows
<1>9. Follows(s, s) /\ SameProgram(s, s)
  BY KeepsReflexive, KeepsFollows DEF Keeps, Stays
<1>. QED BY <1>1, <1>7, <1>8, <1>9

(* The timer that connects again. *)
LEMMA onLabRecorderRetryFollows ==
  ASSUME NEW s \in Sessions, Agrees(s), Sound(s), CutIsKnown(s),
         NEW expired \in BOOLEAN
  PROVE  LET t == onLabRecorderRetry(s, expired) IN
         /\ t \in Sessions /\ Agrees(t) /\ Follows(s, t) /\ SameProgram(s, t)
         /\ Sound(t) /\ CutIsKnown(t)
<1>. DEFINE u == [s EXCEPT !.window.retry = FALSE]
            t == connectToServer(s)
<1>1. onLabRecorderRetry(s, expired) \in {s, t, u}
  BY DEF onLabRecorderRetry
<1>2. u \in Sessions /\ Agrees(u) /\ Keeps(s, u)
  BY RetryFlagKeeps
<1>. HIDE DEF u
<1>3. Follows(s, u) /\ SameProgram(s, u) /\ Sound(u) /\ CutIsKnown(u)
  BY <1>2, KeepsFollows DEF Keeps, Stays
<1>4. /\ t \in Sessions /\ Agrees(t) /\ Follows(s, t) /\ SameProgram(s, t)
      /\ Sound(t) /\ CutIsKnown(t)
  BY connectToServerFollows
<1>. HIDE DEF t
<1>5. Follows(s, s) /\ SameProgram(s, s)
  BY KeepsReflexive, KeepsFollows DEF Keeps, Stays
<1>. QED BY <1>1, <1>2, <1>3, <1>4, <1>5

(* What the user lets go of: no batch, no connection, nothing recorded. *)
LEMMA disconnectFromServerFollows ==
  ASSUME NEW s \in Sessions, Agrees(s), Sound(s), CutIsKnown(s),
         ~Closing(s), ~s.window.finalizing
  PROVE  LET t == disconnectFromServer(s) IN
         /\ t \in Sessions /\ Agrees(t) /\ Follows(s, t)
         /\ Sound(t) /\ CutIsKnown(t) /\ ~isConnected(t)
<1>. DEFINE b == finishActiveBatch(s, FALSE)
            a == abort(b)
            k == [a EXCEPT !.client.startMay = FALSE]
            e == [k EXCEPT !.client.connection = "Disconnected"]
            c == setConnectionState(k, "Disconnected")
            t == updateOperationState(c)
<1>1. /\ b \in Sessions /\ Agrees(b) /\ Follows(s, b) /\ Sound(b)
  BY BatchFailedFollows
<1>2. CutIsKnown(b)
  BY <1>1 DEF Follows
<1>. HIDE DEF b
<1>3. /\ a \in Sessions /\ Agrees(a) /\ Follows(b, a)
      /\ Sound(a) /\ CutIsKnown(a) /\ ~isConnected(a)
  BY <1>1, <1>2, abortFollows
<1>4. disconnectFromServer(s) = t
  <2>1. setRecordingState(k, "Unknown") = k
    <3>1. k.client.recording = "Unknown"
      <4>1. a.client.recording = "Unknown"
        BY <1>3 DEF CutIsKnown
      <4>. HIDE DEF a
      <4>. QED BY <1>3, <4>1 DEF Sessions, Clients
    <3>. QED BY <3>1 DEF setRecordingState
  <2>. QED BY <2>1 DEF disconnectFromServer, b
<1>. HIDE DEF a
<1>5. /\ k \in Sessions /\ ClientOnly(a, k) /\ ~k.client.startMay
      /\ k.client.connection = a.client.connection
      /\ k.client.socket = a.client.socket
      /\ k.client.operation = a.client.operation
      /\ k.client.batch = a.client.batch
      /\ k.client.recording = a.client.recording
      /\ k.client.shutdown = a.client.shutdown
  BY <1>3 DEF Sessions, Clients, ClientOnly
<1>. HIDE DEF k
<1>6. a.client.recording = "Unknown" /\ a.client.batch = "None"
  BY <1>3 DEF CutIsKnown
<1>7. Follows(a, k)
  <2>1. Moves(a, k)
    BY <1>3, <1>5, SMTT(30) DEF Sessions, Windows, Clients, Processes, Bridges,
      Previews, Batches, Operations, Lifecycles, Moves, SameProgram,
      LocalIsQuiet,
      ClientOnly
  <2>2. /\ FreshStart(a) => FreshStart(k)
        /\ FileIsAlone(a) => FileIsAlone(k)
        /\ CutIsKnown(k)
        /\ ClosedSafely(a) => ClosedSafely(k)
        /\ AllQuiet(a) => AllQuiet(k)
        /\ Calm(a) => Calm(k)
    BY <1>3, <1>5, <1>6, SMTT(30) DEF Sessions, Windows, Clients, Processes,
      Bridges, Previews, Batches, Operations, Lifecycles, Keeps, Stays, Moves,
      SameProgram, LocalIsQuiet, StopGoesOn, StopIsOnItsWay, Agrees,
      CutIsKnown, FreshStart, FileIsAlone, Settled, Backed, ClosedSafely,
      AllQuiet, recordingActiveOrPending, effectiveRecordingState,
      effectiveOperationState, selectedStreamRecording, desiredRecordingState,
      recorderConnectionLostExternally, shutdownReady, shutdownSettledSafely,
      Calm, ClientOnly
  <2>. QED BY <1>5, <1>6, <2>1, <2>2 DEF Follows, ClientOnly
<1>8. Settled(k) /\ Backed(k)
  BY <1>3, <1>5, SMTT(30) DEF Sessions, Windows, Clients, Processes, Bridges,
    Previews, Batches, Operations, Lifecycles, Keeps, Stays, Moves,
    SameProgram, LocalIsQuiet, StopGoesOn, StopIsOnItsWay, Agrees, CutIsKnown,
    FreshStart, FileIsAlone, Settled, Backed, ClosedSafely, AllQuiet,
    recordingActiveOrPending, effectiveRecordingState, effectiveOperationState,
    selectedStreamRecording, desiredRecordingState,
    recorderConnectionLostExternally, shutdownReady, shutdownSettledSafely,
    Sound, ClientOnly
<1>9. e \in Sessions /\ Agrees(e)
  <2>1. /\ e \in Sessions /\ ClientOnly(k, e)
        /\ e.client.connection = "Disconnected"
        /\ e.client.socket = k.client.socket
        /\ e.client.recording = k.client.recording
        /\ e.client.operation = k.client.operation
        /\ e.client.batch = k.client.batch
        /\ e.client.startMay = k.client.startMay
        /\ e.client.shutdown = k.client.shutdown
    BY <1>5 DEF Sessions, Clients, ClientOnly
  <2>. HIDE DEF e
  <2>. QED BY <1>3, <1>5, <1>6, <2>1, SMTT(30) DEF Sessions, Windows, Clients,
    Processes, Bridges, Previews, Batches, Operations, Lifecycles, Agrees,
    ClientOnly
<1>10. ~isConnected(k) /\ ~k.window.finalizing
  BY <1>1, <1>3, <1>5 DEF Follows, Moves, ClientOnly
<1>11. /\ c \in Sessions /\ Agrees(c) /\ Follows(k, c)
       /\ Backed(c) /\ Settled(c) /\ ~isConnected(c)
  BY <1>5, <1>8, <1>9, <1>10, ConnectionGoneFollows
<1>. HIDE DEF c
<1>12. /\ t \in Sessions /\ Agrees(t) /\ Follows(c, t)
       /\ Backed(t) /\ Settled(t) /\ ~isConnected(t)
  BY <1>11, updateOperationStateFollows
<1>. HIDE DEF t
<1>13. Follows(s, a)
  BY <1>1, <1>3, FollowsTransitive
<1>14. Follows(s, k)
  BY <1>3, <1>5, <1>7, <1>13, FollowsTransitive
<1>15. Follows(s, c)
  BY <1>5, <1>11, <1>14, FollowsTransitive
<1>16. Follows(s, t)
  BY <1>11, <1>12, <1>15, FollowsTransitive
<1>17. Sound(t) /\ CutIsKnown(t)
  BY <1>12, <1>16 DEF Sound, Follows
<1>. QED BY <1>4, <1>12, <1>16, <1>17 DEF t

-----------------------------------------------------------------------------
(* What holds of the session between two slots; with Calm, the invariant.    *)
(* The last two parts are not promised to anybody, but needed: a session     *)
(* that records selected streams uses no recorder of the window, and Stop    *)
(* Session looks for none.                                                   *)
Safe(s) ==
  /\ s \in Sessions /\ s.window.every \in Modes
  /\ Agrees(s) /\ Sound(s) /\ CutIsKnown(s) /\ LocalIsQuiet(s)
  /\ stoppingSession(s) => ~s.window.probe

(* What a slot may set before it goes on. *)
Near(s, t) ==
  /\ t.process.kind = s.process.kind
  /\ t.process.ending => s.process.ending
  /\ s.process.os = "NotRunning" => t.process.os = "NotRunning"
  /\ t.client.startMay = s.client.startMay
  /\ t.client.batch = "Starting" => s.client.batch = "Starting"
  /\ s.client.startMay /\ Wanted(s) => Wanted(t)
  /\ stoppingSession(s) => stoppingSession(t)
  /\ Closing(s) => Closing(t)

(* The action properties of StopIsRespected, of a step from s to t. *)
Step(s, t) ==
  /\ s.client.startMay /\ t.client.startMay /\ Wanted(s) => Wanted(t)
  /\ ~s.process.ending /\ t.process.ending =>
       t.window.deadline \/ (~t.client.startMay /\ ~Selected(s))
  /\ stoppingSession(s) \/ Closing(s) =>
       /\ s.process.os = "NotRunning" => t.process.os # "Starting"
       /\ t.client.batch = "Starting" => s.client.batch = "Starting"

(* The action property StopsInOrder. *)
InOrder(s, t) ==
  stoppingSession(s) /\ ~s.bridge.stop /\ t.bridge.stop =>
    t.window.sequence = "Closing" \/ AllQuiet(t)

(* To set nothing is allowed. *)
LEMMA NearReflexive == ASSUME NEW s PROVE Near(s, s)
BY DEF Near

(* A slot that first sets what it may and then goes on makes a good step. *)
LEMMA ThenFollows ==
  ASSUME NEW o \in Sessions, NEW s \in Sessions, NEW t \in Sessions,
         Near(o, s), Safe(s), Agrees(t), Sound(t), Follows(s, t)
  PROVE  /\ Safe(t) /\ Step(o, t)
         /\ (~o.bridge.stop => ~s.bridge.stop) => InOrder(o, t)
<1>1. Moves(s, t)
  BY DEF Follows
<1>3. Safe(t)
  BY <1>1 DEF Safe, Follows, Moves
<1>4. Step(o, t)
  <2>1. o.client.startMay /\ t.client.startMay /\ Wanted(o) => Wanted(t)
    BY <1>1 DEF Near, Moves
  <2>2. ~o.process.ending /\ t.process.ending =>
          t.window.deadline \/ (~t.client.startMay /\ ~Selected(o))
    BY <1>1 DEF Near, Moves, SameProgram, Launched, Safe, Agrees, Selected
  <2>3. t.client.batch = "Starting" => o.client.batch = "Starting"
    BY <1>1 DEF Near, Moves
  <2>4. (stoppingSession(o) \/ Closing(o)) /\ o.process.os = "NotRunning" =>
          t.process.os # "Starting"
    <3>1. stoppingSession(o) \/ Closing(o) => SameProgram(s, t)
      BY <1>1 DEF Near, Moves, Launched, Safe
    <3>. QED BY <3>1 DEF SameProgram, Near
  <2>. QED BY <2>1, <2>2, <2>3, <2>4 DEF Step
<1>5. (~o.bridge.stop => ~s.bridge.stop) => InOrder(o, t)
  BY DEF InOrder, Near, Follows
<1>. QED BY <1>3, <1>4, <1>5

(* The user lets go of the recorder. *)
LEMMA onDetachLabRecorderStep ==
  ASSUME NEW o \in Sessions, NEW s \in Sessions, Near(o, s),
         ~o.bridge.stop => ~s.bridge.stop,
         s.window.every \in Modes, Agrees(s), Sound(s), CutIsKnown(s),
         Calm(s), ~Closing(s), ~s.window.finalizing,
         stoppingSession(s) => ~s.window.probe,
         ~recordingActiveOrPending(s)
  PROVE  LET t == onDetachLabRecorder(s) IN
         Safe(t) /\ Calm(t) /\ Step(o, t) /\ InOrder(o, t)
<1>. DEFINE e == [s EXCEPT !.window.probe = FALSE]
            u == [e EXCEPT !.window.retry = FALSE]
            d == disconnectFromServer(u)
            t == DetachOwned(d)
<1>1. onDetachLabRecorder(s) = t
  BY DEF onDetachLabRecorder
<1>2. e \in Sessions /\ Agrees(e) /\ Keeps(s, e)
  BY EndProbeKeeps
<1>. HIDE DEF e
<1>3. u \in Sessions /\ Agrees(u) /\ Keeps(e, u)
  BY <1>2, RetryFlagKeeps
<1>. HIDE DEF u
<1>4. Follows(s, u) /\ Sound(u)
  <2>1. Keeps(s, u)
    BY <1>2, <1>3, KeepsTransitive
  <2>. QED BY <1>3, <2>1, KeepsFollows
<1>5. ~u.window.finalizing /\ ~Closing(u) /\ CutIsKnown(u)
  BY <1>4 DEF Follows, Moves
<1>6. /\ d \in Sessions /\ Agrees(d) /\ Follows(u, d)
      /\ Sound(d) /\ CutIsKnown(d) /\ ~isConnected(d)
  BY <1>3, <1>4, <1>5, disconnectFromServerFollows
<1>. HIDE DEF d
<1>7. Follows(s, d)
  BY <1>3, <1>4, <1>6, FollowsTransitive
<1>8. /\ ~s.client.startMay /\ s.client.batch # "Starting"
      /\ s.window.pendingStart = FALSE /\ ~Running(s)
  BY DEF recordingActiveOrPending, effectiveRecordingState,
    effectiveOperationState, selectedStreamRecording, Agrees
<1>9. /\ ~d.client.startMay /\ d.client.batch # "Starting" /\ ~Running(d)
      /\ d.window.every = s.window.every
      /\ Calm(d) /\ (stoppingSession(d) => ~d.window.probe)
  BY <1>7, <1>8 DEF Follows, Moves, SameProgram, Launched
<1>10. CASE ~ownsRunningProcess(d)
  <2>1. t = d
    BY <1>10 DEF DetachOwned
  <2>2. d.process.os = "NotRunning"
    BY <1>6, <1>10 DEF Agrees
  <2>3. LocalIsQuiet(d)
    BY <1>9, <2>2 DEF LocalIsQuiet
  <2>4. Step(o, d)
    <3>1. t.process.os # "Starting" /\ ~t.client.startMay
      BY <1>9, <2>1, <2>2
    <3>2. ~o.process.ending /\ d.process.ending
            => d.window.deadline \/ (~d.client.startMay /\ ~Selected(o))
      BY <1>7 DEF Follows, Moves, Near, SameProgram, Launched, Agrees, Selected
    <3>. QED BY <1>9, <2>1, <3>1, <3>2 DEF Step
  <2>5. InOrder(o, d)
    BY <1>7 DEF InOrder, Follows, Near
  <2>. QED BY <1>1, <1>6, <1>7, <1>9, <2>1, <2>3, <2>4, <2>5 DEF Safe
<1>11. CASE ownsRunningProcess(d)
  <2>. DEFINE v == [d EXCEPT !.process.state = "Detached",
                             !.process.os = "NotRunning"]
              p == pumpSession(v)
              w == [p EXCEPT !.process.kind = "None"]
  <2>1. t = w
    BY <1>11 DEF DetachOwned, Detach
  <2>2. /\ v \in Sessions /\ v.window = d.window /\ v.client = d.client
        /\ v.bridge = d.bridge /\ v.preview = d.preview
        /\ v.process.kind = d.process.kind
        /\ v.process.state = "Detached" /\ v.process.os = "NotRunning"
        /\ v.process.stopRequested = d.process.stopRequested
        /\ v.process.ending = d.process.ending
    BY <1>6 DEF Sessions, Processes
  <2>. HIDE DEF v
  <2>3. ~Selected(d) /\ ~Selected(v)
    BY <1>9, <1>11, <2>2
  <2>4. Agrees(v)
    BY <1>6, <2>2, <2>3, SMTT(30) DEF Sessions, Windows, Clients, Processes,
      Bridges, Previews, Batches, Operations, Lifecycles, Agrees
  <2>5. /\ Sound(v) /\ CutIsKnown(v) /\ Calm(v)
        /\ AllQuiet(d) => AllQuiet(v)
    <3>1. FreshStart(v) /\ FileIsAlone(v) /\ Settled(v) /\ Backed(v)
      BY <1>6, <2>2, <2>3, SMTT(30) DEF Sessions, Windows, Clients, Processes,
        Bridges, Previews, Batches, Operations, Lifecycles, Keeps, Stays,
        Moves, SameProgram, LocalIsQuiet, StopGoesOn, StopIsOnItsWay, Agrees,
        CutIsKnown, FreshStart, FileIsAlone, Settled, Backed, ClosedSafely,
        AllQuiet, recordingActiveOrPending, effectiveRecordingState,
        effectiveOperationState, selectedStreamRecording,
        desiredRecordingState, recorderConnectionLostExternally, shutdownReady,
        shutdownSettledSafely, Sound
    <3>2. ClosedSafely(v)
      BY <1>5, <1>6, <1>9, <2>2 DEF ClosedSafely, Follows, Moves
    <3>3. CutIsKnown(v) /\ Calm(v)
      BY <1>6, <1>9, <2>2 DEF CutIsKnown, Calm, StopIsOnItsWay
    <3>4. AllQuiet(d) => AllQuiet(v)
      BY <2>2, <2>3 DEF AllQuiet, recordingActiveOrPending,
        effectiveRecordingState, effectiveOperationState,
        desiredRecordingState
    <3>. QED BY <3>1, <3>2, <3>3, <3>4 DEF Sound
  <2>6. /\ p \in Sessions /\ Agrees(p) /\ Keeps(v, p) /\ Follows(v, p)
        /\ Sound(p) /\ Calm(p)
    BY <2>2, <2>4, <2>5, PumpFollows
  <2>. HIDE DEF p
  <2>7. /\ w \in Sessions /\ w.window = p.window /\ w.client = p.client
        /\ w.bridge = p.bridge /\ w.preview = p.preview
        /\ w.process.kind = "None"
        /\ w.process.state = p.process.state /\ w.process.os = p.process.os
        /\ w.process.stopRequested = p.process.stopRequested
        /\ w.process.ending = p.process.ending
    BY <2>6 DEF Sessions, Processes
  <2>. HIDE DEF w
  <2>8. /\ p.process.os = "NotRunning" /\ ~Selected(p)
        /\ ~p.client.startMay /\ p.client.batch # "Starting"
        /\ p.window.every = s.window.every /\ CutIsKnown(p)
        /\ stoppingSession(p) => ~p.window.probe
    BY <1>9, <2>2, <2>3, <2>5, <2>6 DEF Keeps, Stays, Moves, SameProgram
  <2>9. Agrees(w)
    BY <2>6, <2>7, <2>8, SMTT(30) DEF Sessions, Windows, Clients, Processes,
      Bridges, Previews, Batches, Operations, Lifecycles, Agrees
  <2>10. /\ FreshStart(w) /\ FileIsAlone(w) /\ Settled(w) /\ Backed(w)
         /\ ClosedSafely(w) /\ CutIsKnown(w) /\ Calm(w)
         /\ AllQuiet(p) => AllQuiet(w)
    BY <2>6, <2>7, <2>8, SMTT(30) DEF Sessions, Windows, Clients, Processes,
      Bridges, Previews, Batches, Operations, Lifecycles, Keeps, Stays, Moves,
      SameProgram, LocalIsQuiet, StopGoesOn, StopIsOnItsWay, Agrees,
      CutIsKnown, FreshStart, FileIsAlone, Settled, Backed, ClosedSafely,
      AllQuiet, recordingActiveOrPending, effectiveRecordingState,
      effectiveOperationState, selectedStreamRecording, desiredRecordingState,
      recorderConnectionLostExternally, shutdownReady, shutdownSettledSafely,
      Sound, Calm
  <2>11. LocalIsQuiet(w)
    BY <2>7, <2>8 DEF LocalIsQuiet
  <2>12. Step(o, w)
    <3>1. ~Selected(o)
      BY <1>7, <2>3 DEF Follows, Moves, Near, SameProgram, Launched, Agrees,
        Selected
    <3>. QED BY <2>7, <2>8, <3>1 DEF Step
  <2>13. InOrder(o, w)
    <3>. SUFFICES ASSUME stoppingSession(o), ~o.bridge.stop, w.bridge.stop
                  PROVE  AllQuiet(w)
      BY DEF InOrder
    <3>1. stoppingSession(s) /\ ~s.bridge.stop
      BY DEF Near
    <3>2. CASE d.bridge.stop
      <4>1. AllQuiet(v)
        BY <1>7, <2>5, <3>1, <3>2 DEF Follows
      <4>2. ~startingSession(v)
        BY <1>7, <2>2, <3>1 DEF Follows, Moves
      <4>. QED BY <2>6, <2>10, <4>1, <4>2 DEF Follows
    <3>3. CASE ~d.bridge.stop
      <4>1. ~v.bridge.stop /\ p.bridge.stop
        BY <2>2, <2>7, <3>3
      <4>2. stoppingSession(v)
        BY <2>6, <4>1 DEF Follows, Moves
      <4>. QED BY <2>6, <2>10, <4>1, <4>2 DEF Follows
    <3>. QED BY <3>2, <3>3
  <2>14. Safe(w)
    BY <2>7, <2>8, <2>9, <2>10, <2>11 DEF Safe, Sound
  <2>. QED BY <1>1, <2>1, <2>10, <2>12, <2>13, <2>14
<1>. QED BY <1>10, <1>11

(* Looking for a running recorder may begin when Stop Session is not under   *)
(* way.                                                                      *)
LEMMA ProbeSafe ==
  ASSUME NEW s, Safe(s), ~isConnected(s), ~stoppingSession(s)
  PROVE  LET t == [s EXCEPT !.window.probe = TRUE] IN
         /\ Safe(t) /\ Near(s, t) /\ t.bridge = s.bridge
         /\ Calm(s) => Calm(t)
<1>. DEFINE t == [s EXCEPT !.window.probe = TRUE]
<1>1. s \in Sessions
  BY DEF Safe
<1>2. /\ t \in Sessions /\ WindowOnly(s, t)
      /\ t.window.sequence = s.window.sequence
      /\ t.window.every = s.window.every
      /\ t.window.verification = s.window.verification
      /\ t.window.deadline = s.window.deadline
      /\ t.window.finalizing = s.window.finalizing
      /\ t.window.pendingStart = s.window.pendingStart
      /\ t.window.pendingStop = s.window.pendingStop
      /\ t.window.stopRequested = s.window.stopRequested
  BY <1>1 DEF Sessions, Windows, WindowOnly
<1>. HIDE DEF t
<1>3. Agrees(t)
  BY <1>1, <1>2, SMTT(30) DEF Sessions, Windows, Clients, Processes, Bridges,
    Previews, Batches, Operations, Lifecycles, Agrees, Safe, WindowOnly
<1>4. Sound(t) /\ CutIsKnown(t) /\ LocalIsQuiet(t)
  <2>1. FreshStart(t) /\ FileIsAlone(t) /\ Settled(t) /\ Backed(t)
    BY <1>2 DEF Safe, Sound, FreshStart, FileIsAlone, Settled, Backed,
      WindowOnly
  <2>2. ClosedSafely(t)
    BY <1>2 DEF Safe, Sound, ClosedSafely, WindowOnly,
      recorderConnectionLostExternally, shutdownReady, shutdownSettledSafely
  <2>3. CutIsKnown(t) /\ LocalIsQuiet(t)
    BY <1>2 DEF Safe, CutIsKnown, LocalIsQuiet, WindowOnly
  <2>. QED BY <2>1, <2>2, <2>3 DEF Sound
<1>5. Near(s, t) /\ t.bridge = s.bridge /\ (Calm(s) => Calm(t))
  BY <1>2 DEF Near, WindowOnly, Calm, StopIsOnItsWay
<1>. QED BY <1>2, <1>3, <1>4, <1>5 DEF Safe, t

(* To set one thing after another is allowed. *)
LEMMA NearTransitive ==
  ASSUME NEW s, NEW t, NEW u, Near(s, t), Near(t, u)
  PROVE  Near(s, u)
BY DEF Near

(* What the look for a recorder at start-up and after a change of the mode *)
(* does.                                                                   *)
LEMMA beginLabRecorderStartupStep ==
  ASSUME NEW o \in Sessions, NEW s, Near(o, s), ~o.bridge.stop => ~s.bridge.stop,
         Safe(s), Calm(s), s.window.every
  PROVE  LET t == beginLabRecorderStartup(s) IN
         Safe(t) /\ Calm(t) /\ Step(o, t) /\ InOrder(o, t)
<1>0. s \in Sessions /\ Agrees(s) /\ Sound(s) /\ CutIsKnown(s)
  BY DEF Safe
<1>. DEFINE r == onConnectLabRecorder(s)
            p == [s EXCEPT !.window.probe = TRUE]
            a == [p EXCEPT !.window.attempted = FALSE]
            c == connectToServer(a)
<1>1. \/ beginLabRecorderStartup(s) \in {s, r}
      \/ /\ ~stoppingSession(s) /\ ~isConnected(s)
         /\ beginLabRecorderStartup(s) = c
  BY DEF beginLabRecorderStartup
<1>2. CASE beginLabRecorderStartup(s) = s
  BY <1>0, <1>2, FollowsReflexive, ThenFollows
<1>3. CASE beginLabRecorderStartup(s) = r
  <2>1. r \in Sessions /\ Agrees(r) /\ Follows(s, r) /\ Sound(r)
    BY <1>0, onConnectLabRecorderFollows
  <2>. HIDE DEF r
  <2>. QED BY <1>0, <1>3, <2>1, ThenFollows DEF Follows
<1>4. CASE /\ ~stoppingSession(s) /\ ~isConnected(s)
           /\ beginLabRecorderStartup(s) = c
  <2>1. Safe(p) /\ Near(s, p) /\ p.bridge = s.bridge /\ Calm(p)
    BY <1>4, ProbeSafe
  <2>. HIDE DEF p
  <2>2. a \in Sessions /\ Agrees(a) /\ Keeps(p, a)
    BY <2>1, AttemptedFlagKeeps DEF Safe
  <2>. HIDE DEF a
  <2>3. Follows(p, a) /\ Sound(a) /\ CutIsKnown(a)
    BY <2>1, <2>2, KeepsFollows DEF Safe, Keeps, Stays
  <2>4. c \in Sessions /\ Agrees(c) /\ Follows(a, c) /\ Sound(c)
    BY <2>2, <2>3, connectToServerFollows
  <2>. HIDE DEF c
  <2>5. Follows(p, c)
    BY <2>1, <2>2, <2>3, <2>4, FollowsTransitive DEF Safe
  <2>6. Near(o, p)
    BY <2>1, NearTransitive
  <2>. QED BY <1>4, <2>1, <2>4, <2>5, <2>6, ThenFollows DEF Safe, Follows
<1>. QED BY <1>1, <1>2, <1>3, <1>4

(* What each slot makes of a safe session. *)
Good(s, t) == Safe(t) /\ Calm(t) /\ Step(s, t) /\ InOrder(s, t)

(* What no property reads has changed. *)
Inessential(s, t) ==
  /\ t.client = s.client /\ t.process = s.process
  /\ t.window.sequence = s.window.sequence
  /\ t.window.every = s.window.every
  /\ t.window.verification = s.window.verification
  /\ t.window.probe = s.window.probe
  /\ t.window.finalizing = s.window.finalizing
  /\ t.window.pendingStart = s.window.pendingStart
  /\ t.window.pendingStop = s.window.pendingStop
  /\ t.window.stopRequested = s.window.stopRequested
  /\ t.bridge.stop => t.bridge.thread # "None"
  /\ ~HasPreview => t.preview.worker = "None"

(* See Inessential. *)
LEMMA InessentialSafe ==
  ASSUME NEW s, Safe(s), NEW t \in Sessions, Inessential(s, t)
  PROVE  /\ Safe(t) /\ Near(s, t)
         /\ Calm(s) => Calm(t)
<1>1. s \in Sessions
  BY DEF Safe
<1>2. Agrees(t)
  BY <1>1, SMTT(30) DEF Sessions, Windows, Clients, Processes, Bridges,
    Previews, Batches, Operations, Lifecycles, Agrees, Safe, Inessential
<1>3. FreshStart(t) /\ FileIsAlone(t) /\ Settled(t) /\ Backed(t)
  BY DEF Safe, Sound, FreshStart, FileIsAlone, Settled, Backed, Inessential
<1>4. ClosedSafely(t)
  BY DEF Safe, Sound, ClosedSafely, Inessential,
    recorderConnectionLostExternally, shutdownReady, shutdownSettledSafely
<1>5. CutIsKnown(t) /\ LocalIsQuiet(t)
  BY DEF Safe, CutIsKnown, LocalIsQuiet, Inessential
<1>6. Near(s, t) /\ (Calm(s) => Calm(t))
  BY DEF Near, Inessential, Calm, StopIsOnItsWay
<1>. QED BY <1>2, <1>3, <1>4, <1>5, <1>6 DEF Safe, Sound, Inessential

(* A slot that only sets something, with or without the pump. *)
LEMMA SetGood ==
  ASSUME NEW o \in Sessions, NEW u, Safe(u), Near(o, u),
         ~o.bridge.stop => ~u.bridge.stop
  PROVE  /\ Calm(u) => Good(o, u)
         /\ Good(o, pumpSession(u))
<1>. DEFINE p == pumpSession(u)
<1>1. u \in Sessions /\ Agrees(u) /\ Sound(u)
  BY DEF Safe
<1>2. p \in Sessions /\ Agrees(p) /\ Calm(p) /\ Follows(u, p) /\ Sound(p)
  BY <1>1, PumpFollows
<1>. HIDE DEF p
<1>3. Good(o, p)
  BY <1>1, <1>2, ThenFollows DEF Good
<1>4. Calm(u) => Good(o, u)
  BY <1>1, FollowsReflexive, ThenFollows DEF Good
<1>. QED BY <1>3, <1>4 DEF p

(* A slot that only goes on. *)
LEMMA FollowsGood ==
  ASSUME NEW s, Safe(s), Calm(s), NEW t \in Sessions, Agrees(t), Sound(t),
         Follows(s, t)
  PROVE  Good(s, t)
BY NearReflexive, ThenFollows DEF Safe, Good, Follows

(* A slot that does what the pump may do as well. *)
LEMMA KeepsGood ==
  ASSUME NEW s, Safe(s), Calm(s), NEW t \in Sessions, Agrees(t), Keeps(s, t)
  PROVE  Good(s, t)
<1>1. Follows(s, t) /\ Sound(t)
  BY KeepsFollows DEF Safe
<1>. QED BY <1>1, FollowsGood

-----------------------------------------------------------------------------
(* The user starts the bridge by hand. *)
LEMMA StartStreamingGood ==
  ASSUME NEW s, Safe(s), Calm(s)
  PROVE  Good(s, onStart(s))
<1>. DEFINE t == [s EXCEPT !.bridge = [thread |-> "Launched", stop |-> FALSE,
                                       lifecycle |-> "Starting"]]
<1>1. s \in Sessions /\ Agrees(s)
  BY DEF Safe
<1>2. onStart(s) \in {s, t}
  BY DEF onStart
<1>3. Good(s, s)
  BY <1>1, NearReflexive, SetGood
<1>4. Good(s, t)
  <2>1. /\ t \in Sessions /\ t.window = s.window /\ t.client = s.client
        /\ t.process = s.process /\ t.preview = s.preview
        /\ ~t.bridge.stop
    BY <1>1 DEF Sessions, Bridges, Lifecycles
  <2>. HIDE DEF t
  <2>2. Inessential(s, t)
    BY <1>1, <2>1 DEF Inessential, Agrees
  <2>. QED BY <1>1, <2>1, <2>2, InessentialSafe, SetGood
<1>. QED BY <1>2, <1>3, <1>4

(* Start and Stop of the preview. *)
LEMMA StartPreviewGood ==
  ASSUME NEW s, Safe(s), Calm(s), HasPreview
  PROVE  Good(s, startPreview(s)) /\ Good(s, stopPreview(s))
<1>. DEFINE u == [s EXCEPT !.preview = [worker |-> "Running", told |-> 0,
                                        lifecycle |-> "Starting"]]
            p == stopPreview(s)
<1>1. s \in Sessions /\ Agrees(s)
  BY DEF Safe
<1>2. p \in Sessions /\ Agrees(p) /\ Keeps(s, p)
  BY <1>1, PumpsKeep, stopPreviewKeeps
<1>3. startPreview(s) \in {p, pumpSession(u)}
  BY DEF startPreview
<1>. HIDE DEF p
<1>4. Good(s, p)
  BY <1>2, KeepsGood
<1>5. Good(s, pumpSession(u))
  <2>1. /\ u \in Sessions /\ u.window = s.window /\ u.client = s.client
        /\ u.process = s.process /\ u.bridge = s.bridge
    BY <1>1 DEF Sessions, Previews, Lifecycles
  <2>. HIDE DEF u
  <2>2. Inessential(s, u)
    BY <1>1, <2>1 DEF Inessential, Agrees
  <2>. QED BY <1>1, <2>1, <2>2, InessentialSafe, SetGood
<1>. QED BY <1>3, <1>4, <1>5 DEF p

(* Connect. *)
LEMMA ConnectGood ==
  ASSUME NEW s, Safe(s), Calm(s)
  PROVE  Good(s, onConnectLabRecorder(s))
<1>. DEFINE t == onConnectLabRecorder(s)
<1>1. t \in Sessions /\ Agrees(t) /\ Follows(s, t) /\ Sound(t)
  BY onConnectLabRecorderFollows DEF Safe
<1>. HIDE DEF t
<1>2. Good(s, t)
  BY <1>1, FollowsGood
<1>. QED BY <1>2 DEF t

(* The timer that connects again is over. *)
LEMMA RetryGood ==
  ASSUME NEW s, Safe(s), Calm(s), NEW expired \in BOOLEAN
  PROVE  Good(s, onLabRecorderRetry(s, expired))
<1>. DEFINE t == onLabRecorderRetry(s, expired)
<1>1. t \in Sessions /\ Agrees(t) /\ Follows(s, t) /\ Sound(t)
  BY onLabRecorderRetryFollows DEF Safe
<1>. HIDE DEF t
<1>2. Good(s, t)
  BY <1>1, FollowsGood
<1>. QED BY <1>2 DEF t

(* Detach. *)
LEMMA DetachGood ==
  ASSUME NEW s, Safe(s), Calm(s), ~s.window.finalizing, ~Closing(s)
  PROVE  Good(s, onDetachLabRecorder(s))
<1>1. CASE recordingActiveOrPending(s)
  <2>1. onDetachLabRecorder(s) = s
    BY <1>1 DEF onDetachLabRecorder
  <2>. QED BY <2>1, NearReflexive, SetGood DEF Safe
<1>2. CASE ~recordingActiveOrPending(s)
  BY <1>2, NearReflexive, onDetachLabRecorderStep DEF Safe, Good
<1>. QED BY <1>1, <1>2

(* Launch. *)
LEMMA LaunchGood ==
  ASSUME NEW s, Safe(s), Calm(s), ~s.window.finalizing,
         s.client.connection # "Connected"
  PROVE  Good(s, launchConfiguredRecorder([s EXCEPT !.window.attempted = FALSE]))
<1>. DEFINE u == [s EXCEPT !.window.attempted = FALSE]
            a == [u EXCEPT !.window.attempted = TRUE]
            p == [s EXCEPT !.window.probe = TRUE]
            l == startProcess(a, "GraphicalRecorder")
<1>1. s \in Sessions /\ Agrees(s) /\ Sound(s)
  BY DEF Safe
<1>2. /\ u \in Sessions /\ Agrees(u) /\ Keeps(s, u)
      /\ ButForProbe(s, u) /\ u.window.probe = s.window.probe
  <2>1. u \in Sessions /\ Agrees(u) /\ Keeps(s, u)
    BY <1>1, AttemptedFlagKeeps
  <2>. QED BY <1>1, <2>1 DEF Sessions, Windows, ButForProbe, WindowOnly
<1>3. \/ launchConfiguredRecorder(u) \in {u, a}
      \/ /\ launchConfiguredRecorder(u) = l
         /\ ~Closing(u) /\ ~stoppingSession(u) /\ u.window.every
         /\ ~ownsRunningProcess(u)
  BY DEF launchConfiguredRecorder, StartGraphical
<1>. HIDE DEF u
<1>4. /\ a \in Sessions /\ Agrees(a) /\ Keeps(u, a)
      /\ ButForProbe(u, a) /\ a.window.probe = u.window.probe
  <2>1. a \in Sessions /\ Agrees(a) /\ Keeps(u, a)
    BY <1>2, AttemptedFlagKeeps
  <2>. QED BY <1>2, <2>1 DEF Sessions, Windows, ButForProbe, WindowOnly
<1>. HIDE DEF a
<1>5. Good(s, launchConfiguredRecorder(u))
  <2>1. CASE launchConfiguredRecorder(u) \in {u, a}
    <3>1. Keeps(s, a)
      BY <1>1, <1>2, <1>4, KeepsTransitive
    <3>. QED BY <1>2, <1>4, <2>1, <3>1, KeepsGood
  <2>2. CASE /\ launchConfiguredRecorder(u) = l
             /\ ~Closing(u) /\ ~stoppingSession(u) /\ u.window.every
             /\ ~ownsRunningProcess(u)
    <3>1. /\ Safe(p) /\ Near(s, p) /\ p.bridge = s.bridge /\ Calm(p)
      BY <1>1, <1>2, <2>2, ProbeSafe DEF Agrees, ButForProbe
    <3>2. /\ p.window.probe /\ ButForProbe(p, s)
      BY <1>1 DEF Sessions, Windows, ButForProbe, WindowOnly
    <3>. HIDE DEF p
    <3>3. ButForProbe(p, a)
      BY <1>2, <1>4, <3>2 DEF ButForProbe, WindowOnly
    <3>4. /\ ~Closing(p) /\ ~p.window.finalizing /\ p.window.every
          /\ p.process.os = "NotRunning"
      BY <1>1, <1>2, <2>2, <3>2 DEF Agrees, ButForProbe, WindowOnly
    <3>5. /\ l \in Sessions /\ Agrees(l) /\ Follows(p, l)
          /\ Backed(l) /\ Settled(l)
      BY <1>4, <3>1, <3>2, <3>3, <3>4, LaunchFollows DEF Safe, Sound
    <3>. HIDE DEF l
    <3>6. Sound(l) /\ Calm(l)
      BY <3>1, <3>5 DEF Safe, Sound, Follows
    <3>7. Good(s, l)
      BY <1>1, <3>1, <3>5, <3>6, ThenFollows DEF Safe, Good
    <3>. QED BY <2>2, <3>7
  <2>. QED BY <1>3, <2>1, <2>2
<1>. QED BY <1>5 DEF u

(* Refresh. *)
LEMMA BatchGood ==
  ASSUME NEW s, Safe(s), Calm(s), ~s.window.finalizing,
         NEW batch \in {"Refreshing", "UpdatingFilename"}
  PROVE  Good(s, beginBatch(s, batch))
<1>0. s \in Sessions /\ Agrees(s)
  BY DEF Safe
<1>1. CASE ~MayBegin(s, batch)
  <2>1. beginBatch(s, batch) = pumpSession(s)
    BY <1>1 DEF beginBatch, commandFinished
  <2>. QED BY <1>0, <2>1, NearReflexive, SetGood
<1>2. CASE MayBegin(s, batch)
  <2>1. ASSUME NEW u \in Sessions, ButForBatch(s, u), u.client.batch = batch,
               u.client.operation = batch
        PROVE  Good(s, pumpSession(u)) /\ Good(s, u)
    <3>1. s.client.batch = "None" /\ isConnected(s)
      BY <1>2 DEF MayBegin
    <3>2. Agrees(u)
      BY <1>0, <2>1, <3>1, SMTT(30) DEF Sessions, Windows, Clients, Processes,
        Bridges, Previews, Batches, Operations, Lifecycles, Agrees,
        ButForBatch, ClientOnly
    <3>3. /\ FreshStart(u) /\ FileIsAlone(u) /\ Settled(u) /\ Backed(u)
          /\ ClosedSafely(u)
      BY <2>1, <3>1 DEF Safe, Sound, FreshStart, FileIsAlone, Settled, Backed,
        ClosedSafely, ButForBatch, ClientOnly
    <3>4. CutIsKnown(u) /\ LocalIsQuiet(u)
      BY <2>1, <3>1 DEF Safe, CutIsKnown, LocalIsQuiet, ButForBatch,
        ClientOnly
    <3>5. Safe(u)
      BY <2>1, <3>2, <3>3, <3>4 DEF Safe, Sound, ButForBatch, ClientOnly
    <3>6. Near(s, u) /\ u.bridge = s.bridge /\ Calm(u)
      BY <2>1 DEF Near, ButForBatch, ClientOnly, Calm, StopIsOnItsWay
    <3>. QED BY <1>0, <3>5, <3>6, SetGood
  <2>2. CASE s.client.operation # batch
    <3>1. PICK u \in Sessions :
            /\ beginBatch(s, batch) = pumpSession(u)
            /\ ButForBatch(s, u)
            /\ u.client.batch = batch /\ u.client.operation = batch
      BY <1>0, <1>2, <2>2, BatchBegins DEF Batches
    <3>. QED BY <2>1, <3>1
  <2>3. CASE s.client.operation = batch
    <3>. DEFINE u == [s EXCEPT !.client.batch = batch]
    <3>1. /\ u \in Sessions /\ ButForBatch(s, u) /\ u.client.batch = batch
          /\ u.client.operation = batch
      BY <1>0, <2>3 DEF Sessions, Clients, Batches, ButForBatch, ClientOnly
    <3>2. beginBatch(s, batch) = u
      <4>1. Resting(u.client) = u.client.operation
        <5>. HIDE DEF u
        <5>. QED BY <3>1 DEF Resting
      <4>. QED BY <1>2, <4>1 DEF beginBatch, updateOperationState
    <3>. HIDE DEF u
    <3>. QED BY <2>1, <3>1, <3>2
  <2>. QED BY <2>2, <2>3
<1>. QED BY <1>1, <1>2

(* Nothing records, so that no Stop can be dropped. *)
LEMMA QuietPump ==
  ASSUME NEW s \in Sessions, ~stoppingSession(s), ~Closing(s),
         NEW q, Safe(q), ~q.client.startMay,
         ~s.process.ending /\ q.process.ending =>
           q.window.deadline \/ ~Selected(q),
         Selected(s) => Selected(q)
  PROVE  Good(s, pumpSession(q))
<1>. DEFINE t == pumpSession(q)
<1>1. q \in Sessions /\ Agrees(q) /\ Sound(q)
  BY DEF Safe
<1>2. /\ t \in Sessions /\ Agrees(t) /\ Keeps(q, t) /\ Calm(t)
      /\ Follows(q, t) /\ Sound(t)
  BY <1>1, PumpFollows
<1>. HIDE DEF t
<1>3. Safe(t)
  BY <1>1, <1>2, NearReflexive, ThenFollows
<1>4. Step(s, t)
  BY <1>2 DEF Step, Keeps, Stays, Moves, SameProgram, Selected
<1>. QED BY <1>2, <1>3, <1>4 DEF Good, InOrder, t

(* A session in which a recording begins, until the start is off its list. *)
Begun(s, t) ==
  /\ t \in Sessions /\ t.window.every \in Modes /\ Agrees(t)
  /\ ~t.client.startMay /\ ~verificationActive(t) /\ ~t.window.finalizing
  /\ ~stoppingSession(t) /\ ~Closing(t)
  /\ Settled(t) /\ Backed(t) /\ CutIsKnown(t) /\ LocalIsQuiet(t)
  /\ ~s.process.ending /\ t.process.ending =>
       t.window.deadline \/ ~Selected(t)
  /\ Selected(s) => Selected(t)

(* The pump leaves it so. *)
LEMMA BegunPumped ==
  ASSUME NEW s, NEW u, Begun(s, u)
  PROVE  LET t == pumpSession(u) IN
         Begun(s, t) /\ SameProgram(u, t)
<1>. DEFINE t == pumpSession(u)
<1>1. t \in Sessions /\ Agrees(t) /\ Keeps(u, t)
  BY PumpFollows DEF Begun
<1>. HIDE DEF t
<1>2. Moves(u, t) /\ SameProgram(u, t)
  BY <1>1 DEF Keeps, Stays
<1>3. /\ t.window.every \in Modes /\ ~t.client.startMay
      /\ ~verificationActive(t) /\ ~stoppingSession(t) /\ ~Closing(t)
      /\ Settled(t) /\ Backed(t) /\ CutIsKnown(t) /\ LocalIsQuiet(t)
  BY <1>1, <1>2 DEF Begun, Keeps, Stays, Moves
<1>4. ~s.process.ending /\ t.process.ending =>
        t.window.deadline \/ ~Selected(t)
  BY <1>2 DEF Begun, Moves, SameProgram
<1>5. ~t.window.finalizing
  BY <1>2 DEF Begun, Moves
<1>6. Selected(s) => Selected(t)
  BY <1>2 DEF Begun, SameProgram, Selected
<1>. QED BY <1>1, <1>2, <1>3, <1>4, <1>5, <1>6 DEF Begun, t

(* When the start is no longer due, the session is safe. *)
LEMMA BegunGood ==
  ASSUME NEW s \in Sessions, ~stoppingSession(s), ~Closing(s),
         NEW u, Begun(s, u)
  PROVE  Good(s, pumpSession([u EXCEPT !.window.pendingStart = FALSE]))
<1>. DEFINE q == [u EXCEPT !.window.pendingStart = FALSE]
<1>1. q \in Sessions /\ OnlyWishes(u, q) /\ ~q.window.pendingStart
      /\ q.window.pendingStop = u.window.pendingStop
      /\ q.window.stopRequested = u.window.stopRequested
  BY DEF Begun, Sessions, Windows, OnlyWishes, WindowOnly
<1>. HIDE DEF q
<1>2. Agrees(q)
  BY <1>1, SMTT(30) DEF Sessions, Windows, Clients, Processes, Bridges,
    Previews, Batches, Operations, Lifecycles, Begun, Agrees, OnlyWishes,
    WindowOnly
<1>3. Sound(q) /\ CutIsKnown(q)
  BY <1>1 DEF Begun, Sound, FreshStart, FileIsAlone, Settled, Backed,
    ClosedSafely, CutIsKnown, OnlyWishes, WindowOnly
<1>4. LocalIsQuiet(q)
  BY <1>1 DEF Begun, LocalIsQuiet, OnlyWishes, WindowOnly
<1>5. /\ Safe(q) /\ ~q.client.startMay
      /\ ~s.process.ending /\ q.process.ending =>
           q.window.deadline \/ ~Selected(q)
      /\ Selected(s) => Selected(q)
  BY <1>1, <1>2, <1>3, <1>4 DEF Safe, Begun, OnlyWishes, WindowOnly
<1>6. Good(s, pumpSession(q))
  BY <1>5, QuietPump
<1>. QED BY <1>6 DEF q

(* A session whose start was waited for. *)
Due(s, d) ==
  /\ Begun(s, d)
  /\ d.client.batch \notin {"Starting", "Stopping"}
  /\ ~Running(d) /\ d.window.pendingStart
  /\ d.client.recording # "Recording"
  /\ d.client.operation \notin {"Starting", "Stopping"}
  /\ ~Wanted(d)
  /\ d.process = s.process
  /\ d.process.os = "NotRunning" \/ d.window.every

(* The start command goes to the recorder. *)
LEMMA StartRecordingBegins ==
  ASSUME NEW s, NEW d, Due(s, d), d.window.every
  PROVE  Begun(s, startRecording(d))
<1>0. d \in Sessions /\ Agrees(d) /\ Begun(s, d)
  BY DEF Due, Begun
<1>1. startRecording(d) = beginBatch(d, "Starting")
  BY DEF startRecording, Due, Begun
<1>2. CASE ~MayBegin(d, "Starting")
  <2>1. beginBatch(d, "Starting") = pumpSession(d)
    BY <1>2 DEF beginBatch, commandFinished
  <2>. QED BY <1>0, <1>1, <2>1, BegunPumped
<1>3. CASE MayBegin(d, "Starting")
  <2>1. PICK u \in Sessions :
          /\ beginBatch(d, "Starting") = pumpSession(u)
          /\ ButForBatch(d, u)
          /\ u.client.batch = "Starting" /\ u.client.operation = "Starting"
    BY <1>0, <1>3, BatchBegins DEF Batches, Due
  <2>2. ~Selected(d) /\ isConnected(d)
    BY <1>0, <1>3 DEF Agrees, MayBegin
  <2>3. Agrees(u)
    BY <1>0, <2>1, <2>2, SMTT(30) DEF Sessions, Windows, Clients, Processes,
      Bridges, Previews, Batches, Operations, Lifecycles, Agrees, ButForBatch,
      ClientOnly
  <2>4. Settled(u) /\ Backed(u) /\ CutIsKnown(u) /\ LocalIsQuiet(u)
    BY <1>0, <2>1, <2>2 DEF Begun, Due, Settled, Backed, CutIsKnown,
      LocalIsQuiet, ButForBatch, ClientOnly
  <2>5. Begun(s, u)
    BY <1>0, <2>1, <2>3, <2>4 DEF Begun, ButForBatch, ClientOnly
  <2>. QED BY <1>1, <2>1, <2>4, <2>5, BegunPumped
<1>. QED BY <1>2, <1>3

(* The program for selected streams is looked for and started. *)
LEMMA StartSelectedBegins ==
  ASSUME NEW s, NEW d, Due(s, d), ~d.window.every, NEW launch
  PROVE  LET t == startSelectedStreamRecorder(d, launch) IN
         Begun(s, t)
<1>0. /\ d \in Sessions /\ Agrees(d) /\ Begun(s, d)
      /\ d.process.os = "NotRunning"
  BY DEF Due, Begun
<1>. DEFINE t == startSelectedStreamRecorder(d, launch)
            n == [d EXCEPT !.process.state = "LaunchFailed"]
            new == [kind |-> "SelectedStreamRecorder", state |-> "Launching",
                    os |-> "NotRunning", stopRequested |-> FALSE,
                    ending |-> FALSE]
            v == [d EXCEPT !.process = new]
            p == pumpSession(v)
            w == [p EXCEPT !.process.os = "Starting"]
<1>1. t \in {d, pumpSession(n), w}
  BY DEF startSelectedStreamRecorder, startProcess
<1>2. Begun(s, pumpSession(n))
  <2>1. /\ n \in Sessions /\ n.window = d.window /\ n.client = d.client
        /\ n.bridge = d.bridge /\ n.preview = d.preview
        /\ n.process.kind = d.process.kind
        /\ n.process.os = "NotRunning"
        /\ n.process.stopRequested = d.process.stopRequested
        /\ n.process.ending = d.process.ending
    BY <1>0 DEF Sessions, Processes
  <2>. HIDE DEF n
  <2>2. Agrees(n)
    BY <1>0, <2>1, SMTT(30) DEF Sessions, Windows, Clients, Processes, Bridges,
      Previews, Batches, Operations, Lifecycles, Agrees
  <2>3. Settled(n) /\ Backed(n) /\ CutIsKnown(n) /\ LocalIsQuiet(n)
    BY <1>0, <2>1 DEF Begun, Settled, Backed, CutIsKnown, LocalIsQuiet
  <2>4. Begun(s, n)
    BY <1>0, <2>1, <2>2, <2>3 DEF Begun
  <2>. QED BY <2>3, <2>4, BegunPumped
<1>3. Begun(s, w)
  <2>1. /\ v \in Sessions /\ v.window = d.window /\ v.client = d.client
        /\ v.bridge = d.bridge /\ v.preview = d.preview
        /\ v.process.kind = "SelectedStreamRecorder"
        /\ v.process.state = "Launching" /\ v.process.os = "NotRunning"
        /\ ~v.process.stopRequested /\ ~v.process.ending
    BY <1>0 DEF Sessions, Processes
  <2>. HIDE DEF v
  <2>2. Agrees(v)
    BY <1>0, <2>1, SMTT(30) DEF Sessions, Windows, Clients, Processes, Bridges,
      Previews, Batches, Operations, Lifecycles, Agrees, Due, Begun
  <2>3. Settled(v) /\ Backed(v) /\ CutIsKnown(v) /\ LocalIsQuiet(v)
    BY <1>0, <2>1 DEF Begun, Due, Settled, Backed, CutIsKnown, LocalIsQuiet
  <2>4. Begun(s, v)
    BY <1>0, <2>1, <2>2, <2>3 DEF Begun
  <2>5. Begun(s, p) /\ SameProgram(v, p)
    BY <2>4, BegunPumped
  <2>. HIDE DEF p
  <2>6. /\ w \in Sessions /\ w.window = p.window /\ w.client = p.client
        /\ w.bridge = p.bridge /\ w.preview = p.preview
        /\ w.process.kind = "SelectedStreamRecorder"
        /\ w.process.state = "Launching" /\ w.process.os = "Starting"
        /\ ~w.process.stopRequested
        /\ w.process.ending = p.process.ending /\ Selected(p)
        /\ ~p.process.stopRequested
    BY <2>1, <2>5 DEF Sessions, Processes, Begun, SameProgram
  <2>. HIDE DEF w
  <2>7. Agrees(w)
    BY <2>5, <2>6, SMTT(30) DEF Sessions, Windows, Clients, Processes, Bridges,
      Previews, Batches, Operations, Lifecycles, Agrees, Begun
  <2>8. Settled(w) /\ Backed(w) /\ CutIsKnown(w) /\ LocalIsQuiet(w)
    BY <2>5, <2>6 DEF Begun, Settled, Backed, CutIsKnown, LocalIsQuiet
  <2>. QED BY <2>5, <2>6, <2>7, <2>8 DEF Begun
<1>. QED BY <1>0, <1>1, <1>2, <1>3

(* The recording begins after the setup check. *)
LEMMA RecordingBegins ==
  ASSUME NEW s \in Sessions, ~stoppingSession(s), ~Closing(s),
         NEW d, Due(s, d), NEW launch
  PROVE  Good(s, pumpSession(beginRecordingAfterSetupCheck(d, launch)))
<1>. DEFINE x == [d EXCEPT !.window.stopRequested = FALSE]
            b == BeginRecording(d, launch)
<1>1. x = d
  BY DEF Sessions, Windows, Due, Begun
<1>2. beginRecordingAfterSetupCheck(d, launch)
        = [b EXCEPT !.window.pendingStart = FALSE]
  BY <1>1 DEF beginRecordingAfterSetupCheck
<1>3. Begun(s, b)
  BY StartRecordingBegins, StartSelectedBegins DEF BeginRecording
<1>. HIDE DEF b
<1>. QED BY <1>2, <1>3, BegunGood

(* What follows when the streams are known, by what is found of the          *)
(* recorder.                                                                 *)
DiscoveryDone(s, check, launch) ==
  LET done == [s EXCEPT !.window.discovery = "None"]
  IN  pumpSession(
        IF ~s.window.pendingStart \/ Closing(s) THEN done
        ELSE IF s.window.discovery = "Cancelled"
        THEN startStreamDiscovery(done, TRUE)
        ELSE completePendingRecordingStart(done, check, launch))

(* The streams are known: a start that waits for them is carried out. *)
LEMMA DiscoveryGood ==
  ASSUME NEW s, Safe(s), Calm(s), ~s.window.finalizing, NEW check, NEW launch
  PROVE  Good(s, DiscoveryDone(s, check, launch))
<1>0. s \in Sessions /\ Agrees(s)
  BY DEF Safe
<1>. DEFINE d == [s EXCEPT !.window.discovery = "None"]
            c == startStreamDiscovery(d, TRUE)
            f == [d EXCEPT !.window.pendingStart = FALSE]
            b == beginRecordingAfterSetupCheck(d, launch)
            t == DiscoveryDone(s, check, launch)
<1>1. d \in Sessions /\ Inessential(s, d)
      /\ d.bridge = s.bridge /\ d.window.deadline = s.window.deadline
  BY <1>0 DEF Sessions, Windows, Inessential, Agrees
<1>2. \/ t = pumpSession(d)
      \/ /\ d.window.pendingStart /\ ~Closing(d)
         /\ t \in {pumpSession(c), pumpSession(f), pumpSession(b)}
  BY <1>1 DEF DiscoveryDone, completePendingRecordingStart, Inessential
<1>. SUFFICES Good(s, t)
  OBVIOUS
<1>. HIDE DEF d, t
<1>3. Safe(d) /\ Near(s, d) /\ Calm(d)
  BY <1>1, InessentialSafe
<1>4. CASE t = pumpSession(d)
  BY <1>0, <1>1, <1>3, <1>4, SetGood
<1>5. CASE d.window.pendingStart /\ ~Closing(d)
  <2>1. Due(s, d)
    <3>1. /\ ~d.client.startMay /\ ~verificationActive(d)
          /\ d.client.batch \notin {"Starting", "Stopping"}
          /\ ~d.window.finalizing /\ ~stoppingSession(d) /\ ~Running(d)
          /\ ~Wanted(d)
      BY <1>1, <1>3, <1>5 DEF Inessential, Safe, Sound, FreshStart, Agrees,
        Calm
    <3>2. /\ d.client.recording # "Recording"
          /\ d.client.operation \notin {"Starting", "Stopping"}
      BY <1>3, <3>1 DEF Safe, Sound, Settled, Agrees
    <3>3. d.process.os = "NotRunning" \/ d.window.every
      BY <1>3, <1>5, <3>1 DEF Safe, LocalIsQuiet, Agrees
    <3>. QED BY <1>1, <1>3, <1>5, <3>1, <3>2, <3>3
           DEF Due, Begun, Safe, Sound, Inessential
  <2>2. ~stoppingSession(s) /\ ~Closing(s)
    BY <1>1, <1>5, <2>1 DEF Inessential, Due, Begun
  <2>3. Good(s, pumpSession(b))
    BY <1>0, <2>1, <2>2, RecordingBegins
  <2>4. Good(s, pumpSession(f))
    BY <1>0, <2>1, <2>2, BegunGood DEF Due
  <2>5. Good(s, pumpSession(c))
    <3>1. /\ c \in Sessions /\ OnlyWishes(d, c)
          /\ c.window.pendingStart <=> d.window.pendingStart \/ TRUE
          /\ c.window.pendingStop = d.window.pendingStop
          /\ c.window.stopRequested = d.window.stopRequested
      BY <1>1, startStreamDiscoveryUpdates
    <3>. HIDE DEF c
    <3>2. c.window.pendingStart = d.window.pendingStart
      BY <1>1, <1>5, <3>1 DEF Sessions, Windows
    <3>3. Inessential(d, c)
      BY <1>3, <3>1, <3>2 DEF Inessential, OnlyWishes, WindowOnly, Safe, Agrees
    <3>4. Safe(c) /\ Near(d, c) /\ c.bridge = s.bridge
      BY <1>1, <1>3, <3>1, <3>3, InessentialSafe DEF OnlyWishes, WindowOnly
    <3>. QED BY <1>0, <1>3, <3>4, NearTransitive, SetGood
  <2>. QED BY <1>2, <1>4, <1>5, <2>3, <2>4, <2>5
<1>. QED BY <1>2, <1>4, <1>5

(* The streams are looked for. *)
LEMMA DiscoverGood ==
  ASSUME NEW s, Safe(s), Calm(s)
  PROVE  Good(s, startStreamDiscovery(s, FALSE))
<1>. DEFINE t == startStreamDiscovery(s, FALSE)
<1>0. s \in Sessions /\ Agrees(s)
  BY DEF Safe
<1>1. /\ t \in Sessions /\ OnlyWishes(s, t)
      /\ t.window.pendingStart <=> s.window.pendingStart \/ FALSE
      /\ t.window.pendingStop = s.window.pendingStop
      /\ t.window.stopRequested = s.window.stopRequested
  BY <1>0, startStreamDiscoveryUpdates
<1>. HIDE DEF t
<1>2. t.window.pendingStart = s.window.pendingStart
  BY <1>0, <1>1 DEF Sessions, Windows
<1>3. Inessential(s, t)
  BY <1>0, <1>1, <1>2 DEF Inessential, OnlyWishes, WindowOnly, Agrees
<1>4. Safe(t) /\ Near(s, t) /\ Calm(t) /\ t.bridge = s.bridge
  BY <1>1, <1>3, InessentialSafe DEF OnlyWishes, WindowOnly
<1>5. Good(s, t)
  BY <1>0, <1>4, SetGood
<1>. QED BY <1>5 DEF t

(* Start of the recording. *)
LEMMA StartClickGood ==
  ASSUME NEW s, Safe(s), Calm(s), ~s.window.finalizing
  PROVE  Good(s, requestRecordingStart(s))
<1>0. s \in Sessions /\ Agrees(s)
  BY DEF Safe
<1>. DEFINE t == requestRecordingStart(s)
<1>1. CASE \/ recordingActiveOrPending(s) \/ verificationActive(s)
           \/ stoppingSession(s) \/ Closing(s)
  <2>1. t = s
    BY <1>1 DEF requestRecordingStart
  <2>. QED BY <1>0, <2>1, NearReflexive, SetGood
<1>2. CASE /\ ~recordingActiveOrPending(s) /\ ~verificationActive(s)
           /\ ~stoppingSession(s) /\ ~Closing(s)
  <2>1. /\ t \in Sessions /\ OnlyWishes(s, t) /\ t.window.pendingStart
        /\ t.window.pendingStop = s.window.pendingStop
        /\ ~t.window.stopRequested
    BY <1>0, <1>2, requestRecordingStartUpdates
  <2>. SUFFICES Good(s, t)
    OBVIOUS
  <2>. HIDE DEF t
  <2>2. /\ ~s.client.startMay /\ ~Running(s) /\ ~s.window.pendingStop
        /\ s.client.batch \notin {"Starting", "Stopping"}
    BY <1>0, <1>2 DEF recordingActiveOrPending, effectiveRecordingState,
      effectiveOperationState, selectedStreamRecording, Agrees
  <2>3. Agrees(t)
    BY <1>0, <1>2, <2>1, <2>2, SMTT(30) DEF Sessions, Windows, Clients,
      Processes, Bridges, Previews, Batches, Operations, Lifecycles, Agrees,
      OnlyWishes, WindowOnly
  <2>4. Sound(t) /\ CutIsKnown(t)
    BY <1>2, <2>1, <2>2 DEF Safe, Sound, FreshStart, FileIsAlone, Settled,
      Backed, ClosedSafely, CutIsKnown, OnlyWishes, WindowOnly
  <2>5. LocalIsQuiet(t)
    BY <2>1 DEF Safe, LocalIsQuiet, OnlyWishes, WindowOnly
  <2>6. Safe(t) /\ Near(s, t) /\ Calm(t) /\ t.bridge = s.bridge
    BY <1>2, <2>1, <2>2, <2>3, <2>4, <2>5 DEF Safe, Near, Calm, StopIsOnItsWay,
      OnlyWishes, WindowOnly
  <2>. QED BY <1>0, <2>6, SetGood
<1>. QED BY <1>1, <1>2

(* Stop of the recording. *)
LEMMA StopClickGood ==
  ASSUME NEW s, Safe(s), Calm(s), ~s.window.finalizing, ~Closing(s)
  PROVE  Good(s, onStopRecording(s))
<1>0. s \in Sessions /\ Agrees(s)
  BY DEF Safe
<1>. DEFINE y == [s EXCEPT !.window.pendingStart = FALSE]
            z == cancelStreamDiscovery(y)
            w == AskForStop(z)
<1>1. CASE \/ s.window.pendingStop \/ s.window.stopRequested
           \/ ~recordingActiveOrPending(s)
  <2>1. onStopRecording(s) = s
    BY <1>1 DEF onStopRecording
  <2>. QED BY <1>0, <2>1, NearReflexive, SetGood
<1>2. CASE ~s.window.pendingStop /\ ~s.window.stopRequested
  <2>1. onStopRecording(s) \in {s, pumpSession(w)}
    BY DEF onStopRecording
  <2>2. /\ z \in Sessions /\ OnlyWishes(s, z) /\ ~z.window.pendingStart
        /\ ~z.window.pendingStop /\ ~z.window.stopRequested
    BY <1>0, <1>2 DEF Sessions, Windows, OnlyWishes, WindowOnly,
      cancelStreamDiscovery
  <2>. HIDE DEF z
  <2>3. /\ w \in Sessions /\ OnlyWishes(s, w) /\ ~w.window.pendingStart
        /\ ~w.window.stopRequested
        /\ w.window.pendingStop => recordingActiveOrPending(z)
    BY <2>2 DEF Sessions, Windows, OnlyWishes, WindowOnly, AskForStop
  <2>. HIDE DEF w
  <2>4. w.window.pendingStop /\ Selected(s) => Running(s)
    BY <1>0, <2>2, <2>3 DEF recordingActiveOrPending, effectiveRecordingState,
      effectiveOperationState, selectedStreamRecording, desiredRecordingState,
      Agrees, OnlyWishes, WindowOnly
  <2>5. w.window.pendingStop /\ verificationActive(s) => s.client.shutdown
    <3>. SUFFICES ASSUME verificationActive(s), ~s.client.shutdown
                  PROVE  ~recordingActiveOrPending(z)
      BY <2>3
    <3>1. /\ ~s.client.startMay /\ ~Running(s)
          /\ s.client.recording # "Recording"
          /\ s.client.operation \notin {"Starting", "Stopping"}
      BY <1>0 DEF Safe, Sound, FileIsAlone, Settled, Agrees
    <3>. QED BY <1>0, <2>2, <3>1 DEF recordingActiveOrPending,
           effectiveRecordingState, effectiveOperationState,
           selectedStreamRecording, desiredRecordingState, OnlyWishes,
           WindowOnly, Agrees
  <2>6. Agrees(w)
    BY <1>0, <1>2, <2>3, <2>4, SMTT(30) DEF Sessions, Windows, Clients,
      Processes, Bridges, Previews, Batches, Operations, Lifecycles, Agrees,
      OnlyWishes, WindowOnly
  <2>7. Sound(w) /\ CutIsKnown(w)
    BY <1>2, <2>3, <2>5 DEF Safe, Sound, FreshStart, FileIsAlone, Settled,
      Backed, ClosedSafely, CutIsKnown, OnlyWishes, WindowOnly
  <2>8. LocalIsQuiet(w)
    BY <2>3 DEF Safe, LocalIsQuiet, OnlyWishes, WindowOnly
  <2>9. Safe(w) /\ Near(s, w) /\ w.bridge = s.bridge
    BY <1>2, <2>3, <2>6, <2>7, <2>8 DEF Safe, Near, OnlyWishes, WindowOnly
  <2>. QED BY <1>0, <2>1, <2>9, NearReflexive, SetGood
<1>. QED BY <1>1, <1>2

(* Start Session. *)
LEMMA StartSessionGood ==
  ASSUME NEW s, Safe(s), Calm(s), ~s.window.finalizing,
         s.window.sequence = "None", ~recordingActiveOrPending(s),
         ~verificationActive(s)
  PROVE  Good(s, pumpSession(
           [s EXCEPT !.window.sequence = "StartingSession",
                     !.window.guided = FALSE, !.window.stopRequested = FALSE]))
<1>0. s \in Sessions /\ Agrees(s)
  BY DEF Safe
<1>. DEFINE u == [s EXCEPT !.window.sequence = "StartingSession",
                           !.window.guided = FALSE,
                           !.window.stopRequested = FALSE]
<1>1. /\ u \in Sessions /\ WindowOnly(s, u)
      /\ u.window.sequence = "StartingSession" /\ ~u.window.stopRequested
      /\ u.window.every = s.window.every
      /\ u.window.verification = s.window.verification
      /\ u.window.probe = s.window.probe
      /\ u.window.finalizing = s.window.finalizing
      /\ u.window.pendingStart = s.window.pendingStart
      /\ u.window.pendingStop = s.window.pendingStop
  BY <1>0 DEF Sessions, Windows, WindowOnly
<1>. HIDE DEF u
<1>2. /\ ~s.client.startMay /\ ~Running(s) /\ ~Wanted(u)
      /\ s.client.batch \notin {"Starting", "Stopping"}
      /\ ~s.window.pendingStart
  BY <1>0, <1>1 DEF recordingActiveOrPending, effectiveRecordingState,
    effectiveOperationState, selectedStreamRecording, Agrees
<1>3. Agrees(u)
  BY <1>0, <1>1, <1>2, SMTT(30) DEF Sessions, Windows, Clients, Processes,
    Bridges, Previews, Batches, Operations, Lifecycles, Agrees, WindowOnly
<1>4. Sound(u) /\ CutIsKnown(u)
  BY <1>1, <1>2 DEF Safe, Sound, FreshStart, FileIsAlone, Settled, Backed,
    ClosedSafely, CutIsKnown, WindowOnly
<1>5. LocalIsQuiet(u)
  BY <1>1 DEF Safe, LocalIsQuiet, WindowOnly
<1>6. Safe(u) /\ Near(s, u) /\ u.bridge = s.bridge
  BY <1>1, <1>2, <1>3, <1>4, <1>5 DEF Safe, Near, WindowOnly
<1>7. Good(s, pumpSession(u))
  BY <1>0, <1>6, SetGood
<1>. QED BY <1>7 DEF u

(* Stop Session begins. *)
StoppingSession(s) ==
  [s EXCEPT !.window.sequence = "StoppingSession",
            !.window.probe = FALSE, !.window.retry = FALSE]

(* Stop Session, which lets go of a connection that is not established. *)
LEMMA StopSessionGood ==
  ASSUME NEW s, Safe(s), Calm(s), ~s.window.finalizing,
         ~stoppingSession(s), ~Closing(s)
  PROVE  LET u == StoppingSession(s) IN
         Good(s, pumpSession(u)) /\ Good(s, pumpSession(disconnectFromServer(u)))
<1>0. s \in Sessions /\ Agrees(s)
  BY DEF Safe
<1>. DEFINE u == StoppingSession(s)
            d == disconnectFromServer(u)
            t == pumpSession(d)
<1>1. /\ u \in Sessions /\ WindowOnly(s, u)
      /\ u.window.sequence = "StoppingSession" /\ ~u.window.probe
      /\ u.window.every = s.window.every
      /\ u.window.verification = s.window.verification
      /\ u.window.finalizing = s.window.finalizing
      /\ u.window.pendingStart = s.window.pendingStart
      /\ u.window.pendingStop = s.window.pendingStop
      /\ u.window.stopRequested = s.window.stopRequested
  BY <1>0 DEF StoppingSession, Sessions, Windows, WindowOnly
<1>. HIDE DEF u
<1>2. Agrees(u)
  BY <1>0, <1>1, SMTT(30) DEF Sessions, Windows, Clients, Processes, Bridges,
    Previews, Batches, Operations, Lifecycles, Agrees, WindowOnly
<1>3. Sound(u) /\ CutIsKnown(u)
  BY <1>1 DEF Safe, Sound, FreshStart, FileIsAlone, Settled, Backed,
    ClosedSafely, CutIsKnown, WindowOnly
<1>4. LocalIsQuiet(u)
  BY <1>1 DEF Safe, LocalIsQuiet, WindowOnly
<1>5. Safe(u) /\ Near(s, u) /\ u.bridge = s.bridge
  BY <1>1, <1>2, <1>3, <1>4 DEF Safe, Near, WindowOnly
<1>6. d \in Sessions /\ Agrees(d) /\ Follows(u, d) /\ Sound(d)
  BY <1>1, <1>2, <1>3, disconnectFromServerFollows
<1>. HIDE DEF d
<1>7. /\ t \in Sessions /\ Agrees(t) /\ Calm(t) /\ Follows(d, t) /\ Sound(t)
  BY <1>6, PumpFollows
<1>. HIDE DEF t
<1>8. Follows(u, t)
  BY <1>1, <1>6, <1>7, FollowsTransitive
<1>9. Good(s, t)
  BY <1>0, <1>1, <1>5, <1>7, <1>8, ThenFollows DEF Good
<1>10. Good(s, pumpSession(u))
  BY <1>0, <1>5, SetGood
<1>. QED BY <1>9, <1>10 DEF t, d, u

(* The look for a recorder when only selected streams are recorded: the    *)
(* remote control is left, and a recorder of this app detached.            *)
LEMMA WithoutRemote ==
  ASSUME NEW o \in Sessions, NEW s \in Sessions, Near(o, s),
         ~o.bridge.stop => ~s.bridge.stop,
         s.window.every \in Modes, ~s.window.every, ~Selected(s),
         Agrees(s), Sound(s), CutIsKnown(s), Calm(s),
         ~Closing(s), ~s.window.finalizing,
         stoppingSession(s) => ~s.window.probe,
         ~recordingActiveOrPending(s)
  PROVE  Good(o, beginLabRecorderStartup(s))
<1>. DEFINE e == [s EXCEPT !.window.probe = FALSE]
            w == [e EXCEPT !.window.retry = FALSE]
<1>1. /\ ~s.client.startMay /\ s.client.batch # "Starting"
      /\ s.client.batch # "Stopping" /\ ~s.window.pendingStart
      /\ s.client.operation \notin {"Starting", "Stopping"}
  BY DEF recordingActiveOrPending, effectiveRecordingState,
    effectiveOperationState, selectedStreamRecording, Agrees
<1>2. CASE stoppingSession(s)
  <2>1. beginLabRecorderStartup(s) = s
    BY <1>2 DEF beginLabRecorderStartup
  <2>2. Safe(s)
    BY <1>1, <1>2 DEF Safe, LocalIsQuiet
  <2>. QED BY <2>1, <2>2, SetGood
<1>3. CASE ~stoppingSession(s)
  <2>1. /\ beginLabRecorderStartup(s) \in {w, onDetachLabRecorder(w)}
        /\ beginLabRecorderStartup(s) # onDetachLabRecorder(w) =>
             w.process.kind # "GraphicalRecorder"
    BY <1>3 DEF beginLabRecorderStartup, LeaveRemoteControl
  <2>. SUFFICES Good(o, beginLabRecorderStartup(s))
    OBVIOUS
  <2>2. /\ w \in Sessions /\ WindowOnly(s, w)
        /\ w.window.sequence = s.window.sequence
        /\ w.window.every = s.window.every
        /\ w.window.verification = s.window.verification
        /\ w.window.finalizing = s.window.finalizing
        /\ w.window.pendingStart = s.window.pendingStart
        /\ w.window.pendingStop = s.window.pendingStop
        /\ w.window.stopRequested = s.window.stopRequested
        /\ ~w.window.probe
    BY DEF Sessions, Windows, WindowOnly
  <2>. HIDE DEF w
  <2>3. Agrees(w)
    BY <2>2, SMTT(30) DEF Sessions, Windows, Clients, Processes, Bridges,
      Previews, Batches, Operations, Lifecycles, Agrees, WindowOnly
  <2>4. Sound(w) /\ CutIsKnown(w)
    BY <1>1, <2>2 DEF Sound, FreshStart, FileIsAlone, Settled, Backed,
      ClosedSafely, CutIsKnown, WindowOnly
  <2>5. Near(o, w) /\ w.bridge = s.bridge /\ Calm(w)
    BY <2>2 DEF Near, Calm, StopIsOnItsWay, WindowOnly
  <2>6. ~recordingActiveOrPending(w)
    BY <2>2 DEF recordingActiveOrPending, effectiveRecordingState,
      effectiveOperationState, selectedStreamRecording,
      desiredRecordingState, WindowOnly
  <2>7. Good(o, onDetachLabRecorder(w))
    BY <2>2, <2>3, <2>4, <2>5, <2>6, onDetachLabRecorderStep DEF Good
  <2>8. CASE w.process.kind # "GraphicalRecorder"
    <3>1. w.process.os = "NotRunning"
      BY <2>2, <2>3, <2>8 DEF Agrees, WindowOnly, Sessions, Processes
    <3>2. Safe(w)
      BY <1>1, <1>3, <2>2, <2>3, <2>4, <3>1 DEF Safe, LocalIsQuiet, WindowOnly
    <3>3. Good(o, w)
      BY <2>2, <2>5, <3>2, SetGood
    <3>. QED BY <2>1, <2>7, <3>3
  <2>. QED BY <2>1, <2>7, <2>8
<1>. QED BY <1>2, <1>3

(* The other mode of recording is chosen. *)
LEMMA ChangeModeGood ==
  ASSUME NEW s, Safe(s), Calm(s), ~s.window.finalizing, ~Closing(s),
         ~recordingActiveOrPending(s), (~s.window.every) \in Modes,
         ~Selected(s)
  PROVE  Good(s, beginLabRecorderStartup([s EXCEPT !.window.every = ~@]))
<1>0. s \in Sessions /\ Agrees(s) /\ s.window.every \in BOOLEAN
  BY DEF Safe, Sessions, Windows
<1>. DEFINE u == [s EXCEPT !.window.every = ~@]
<1>1. /\ u \in Sessions /\ WindowOnly(s, u)
      /\ u.window.every = ~s.window.every
      /\ u.window.sequence = s.window.sequence
      /\ u.window.probe = s.window.probe
      /\ u.window.verification = s.window.verification
      /\ u.window.finalizing = s.window.finalizing
      /\ u.window.pendingStart = s.window.pendingStart
      /\ u.window.pendingStop = s.window.pendingStop
      /\ u.window.stopRequested = s.window.stopRequested
  BY <1>0 DEF Sessions, Windows, WindowOnly
<1>. HIDE DEF u
<1>4. /\ ~s.client.startMay /\ s.client.batch # "Starting"
      /\ s.client.recording # "Recording"
  BY <1>0 DEF recordingActiveOrPending, effectiveOperationState, Agrees
<1>5. Agrees(u)
  BY <1>0, <1>1, SMTT(30) DEF Sessions, Windows, Clients, Processes,
    Bridges, Previews, Batches, Operations, Lifecycles, Agrees, WindowOnly
<1>6. Sound(u) /\ CutIsKnown(u)
  BY <1>1, <1>4 DEF Safe, Sound, FreshStart, FileIsAlone, Settled,
    Backed, ClosedSafely, CutIsKnown, WindowOnly
<1>7. Near(s, u) /\ u.bridge = s.bridge /\ Calm(u)
  BY <1>1 DEF Near, Calm, StopIsOnItsWay, WindowOnly
<1>8. Good(s, beginLabRecorderStartup(u))
  <2>1. CASE u.window.every
    <3>1. Safe(u)
      BY <1>1, <1>5, <1>6, <2>1 DEF Safe, LocalIsQuiet
    <3>. QED BY <1>0, <1>7, <2>1, <3>1, beginLabRecorderStartupStep DEF Good
  <2>2. CASE ~u.window.every
    <3>1. ~recordingActiveOrPending(u) /\ ~Selected(u)
      BY <1>1, <1>4, <2>2 DEF recordingActiveOrPending,
        effectiveRecordingState, effectiveOperationState,
        desiredRecordingState, WindowOnly
    <3>. QED BY <1>0, <1>1, <1>5, <1>6, <1>7, <2>2, <3>1, WithoutRemote
           DEF Safe, WindowOnly
  <2>. QED BY <2>1, <2>2
<1>. QED BY <1>8 DEF u

(* From the moment on that the window closes. *)
Closes(s, t) ==
  /\ Closing(t) \/ t.window.finalizing
  /\ t.window.finalizing => t.bridge.thread = "None"
  /\ t.client.startMay => s.client.startMay
  /\ s.client.startMay /\ t.client.startMay /\ Wanted(s) => Wanted(t)
  /\ t.client.batch = "Starting" => s.client.batch = "Starting"
  /\ SameProgram(s, t)

(* The close is a good step. *)
LEMMA ClosesGood ==
  ASSUME NEW s, NEW t, Safe(t), Closes(s, t)
  PROVE  Good(s, t)
<1>1. Calm(t)
  BY DEF Closes, Calm, StopIsOnItsWay, Safe, Agrees
<1>2. Step(s, t)
  BY DEF Closes, Step, SameProgram, Selected
<1>3. InOrder(s, t)
  BY DEF Closes, InOrder, Safe, Agrees
<1>. QED BY <1>1, <1>2, <1>3 DEF Good

(* Another part of the close. *)
LEMMA ClosesOn ==
  ASSUME NEW s \in Sessions, NEW t, Safe(t), Closes(s, t),
         NEW u \in Sessions, Agrees(u), Sound(u), Follows(t, u)
  PROVE  Safe(u) /\ Closes(s, u)
<1>1. t \in Sessions
  BY DEF Safe
<1>2. Moves(t, u)
  BY DEF Follows
<1>3. SameProgram(t, u)
  BY <1>2 DEF Moves, Launched, Closes
<1>4. SameProgram(s, u)
  BY <1>1, <1>2, <1>3, SameProgramTransitive DEF Closes
<1>5. Safe(u)
  BY <1>1, NearReflexive, ThenFollows
<1>6. Closes(s, u)
  BY <1>2, <1>4 DEF Closes, Moves, Safe, Agrees
<1>. QED BY <1>5, <1>6

(* The client, the program and the preview are told to stop. *)
LEMMA PartsStop ==
  ASSUME NEW s \in Sessions, NEW y, Safe(y), Closes(s, y), y.client.shutdown
  PROVE  LET t == stopPreview(StopSelected(continueShutdown(y))) IN
         Safe(t) /\ Closes(s, t)
<1>. DEFINE b == continueShutdown(y)
            c == StopSelected(b)
            t == stopPreview(c)
<1>0. y \in Sessions /\ Agrees(y) /\ Sound(y)
  BY DEF Safe
<1>1. /\ b \in Sessions /\ Agrees(b) /\ Follows(y, b)
      /\ Settled(b) /\ Backed(b)
  BY <1>0, continueShutdownFollows DEF Sound
<1>. HIDE DEF b
<1>2. Sound(b) /\ b.client.shutdown
  BY <1>0, <1>1 DEF Sound, Follows, Moves
<1>3. Safe(b) /\ Closes(s, b)
  BY <1>1, <1>2, ClosesOn
<1>4. c \in Sessions /\ Agrees(c) /\ Keeps(b, c)
  BY <1>1, <1>2, PumpsKeep, stopSelectedStreamRecordingKeeps, KeepsReflexive
    DEF StopSelected
<1>. HIDE DEF c
<1>5. Follows(b, c) /\ Sound(c)
  BY <1>1, <1>2, <1>4, KeepsFollows
<1>6. Safe(c) /\ Closes(s, c)
  BY <1>3, <1>4, <1>5, ClosesOn
<1>7. t \in Sessions /\ Agrees(t) /\ Keeps(c, t)
  BY <1>4, PumpsKeep, stopPreviewKeeps
<1>. HIDE DEF t
<1>8. Follows(c, t) /\ Sound(t)
  BY <1>4, <1>5, <1>7, KeepsFollows
<1>9. Safe(t) /\ Closes(s, t)
  BY <1>6, <1>7, <1>8, ClosesOn
<1>. QED BY <1>9 DEF t, c, b

(* Checks and looking for streams are given up. *)
LEMMA WorkIsCancelled ==
  ASSUME NEW s \in Sessions, NEW d, Safe(d), Closes(s, d)
  PROVE  LET t == CancelWork(d) IN Safe(t) /\ Closes(s, t)
<1>. DEFINE v == [d EXCEPT !.window.verification =
                             IF @ = "Waiting" THEN "None" ELSE @]
            t == cancelStreamDiscovery(v)
<1>0. d \in Sessions /\ Agrees(d)
  BY DEF Safe
<1>1. /\ v \in Sessions /\ WindowOnly(d, v)
      /\ v.window.verification \in {"None", d.window.verification}
      /\ v.window.sequence = d.window.sequence
      /\ v.window.every = d.window.every
      /\ v.window.probe = d.window.probe
      /\ v.window.finalizing = d.window.finalizing
      /\ v.window.deadline = d.window.deadline
      /\ v.window.pendingStart = d.window.pendingStart
      /\ v.window.pendingStop = d.window.pendingStop
      /\ v.window.stopRequested = d.window.stopRequested
  BY <1>0 DEF Sessions, Windows, WindowOnly
<1>. HIDE DEF v
<1>2. /\ t \in Sessions /\ WindowOnly(d, t)
      /\ t.window.verification \in {"None", d.window.verification}
      /\ t.window.sequence = d.window.sequence
      /\ t.window.every = d.window.every
      /\ t.window.probe = d.window.probe
      /\ t.window.finalizing = d.window.finalizing
      /\ t.window.deadline = d.window.deadline
      /\ t.window.pendingStart = d.window.pendingStart
      /\ t.window.pendingStop = d.window.pendingStop
      /\ t.window.stopRequested = d.window.stopRequested
  BY <1>1 DEF Sessions, Windows, WindowOnly, cancelStreamDiscovery
<1>3. CancelWork(d) = t
  BY DEF CancelWork, v
<1>. HIDE DEF t
<1>4. Agrees(t)
  BY <1>0, <1>2, SMTT(30) DEF Sessions, Windows, Clients, Processes, Bridges,
    Previews, Batches, Operations, Lifecycles, Agrees, WindowOnly
<1>5. Sound(t) /\ CutIsKnown(t)
  BY <1>2 DEF Safe, Closes, Sound, FreshStart, FileIsAlone, Settled, Backed,
    ClosedSafely, CutIsKnown, WindowOnly, recorderConnectionLostExternally,
    shutdownReady, shutdownSettledSafely
<1>6. LocalIsQuiet(t)
  BY <1>2 DEF Safe, LocalIsQuiet, WindowOnly
<1>7. Safe(t)
  BY <1>2, <1>4, <1>5, <1>6 DEF Safe, WindowOnly
<1>8. Closes(s, t)
  BY <1>2 DEF Closes, SameProgram, WindowOnly
<1>. QED BY <1>3, <1>7, <1>8

(* The bridge is told to stop, in whatever order (see StopsInOrder). *)
LEMMA BridgeIsStopped ==
  ASSUME NEW s \in Sessions, NEW e, Safe(e), Closes(s, e)
  PROVE  LET t == StopRunningBridge(e) IN Safe(t) /\ Closes(s, t)
<1>. DEFINE g == [e EXCEPT !.bridge.lifecycle = "Stopping",
                           !.bridge.stop = TRUE]
            p == pumpSession(g)
<1>0. e \in Sessions /\ Agrees(e)
  BY DEF Safe
<1>1. CASE e.bridge.thread = "None" \/ e.bridge.stop
  BY <1>1 DEF StopRunningBridge, stopBridge
<1>2. CASE e.bridge.thread # "None" /\ ~e.bridge.stop
  <2>1. StopRunningBridge(e) = p
    BY <1>2 DEF StopRunningBridge, stopBridge
  <2>2. /\ g \in Sessions /\ g.window = e.window /\ g.client = e.client
        /\ g.process = e.process /\ g.preview = e.preview
        /\ g.bridge.thread = e.bridge.thread
    BY <1>0 DEF Sessions, Bridges, Lifecycles
  <2>. HIDE DEF g
  <2>3. Inessential(e, g)
    BY <1>0, <1>2, <2>2 DEF Inessential, Agrees
  <2>4. Safe(g)
    BY <2>2, <2>3, InessentialSafe
  <2>5. Closes(s, g)
    BY <2>2 DEF Closes, SameProgram
  <2>6. p \in Sessions /\ Agrees(p) /\ Follows(g, p) /\ Sound(p)
    BY <2>4, PumpFollows DEF Safe
  <2>. HIDE DEF p
  <2>7. Safe(p) /\ Closes(s, p)
    BY <2>4, <2>5, <2>6, ClosesOn
  <2>. QED BY <2>1, <2>7
<1>. QED BY <1>1, <1>2

(* The timer of the close. *)
LEMMA ClosePollGood ==
  ASSUME NEW s, Safe(s), Calm(s)
  PROVE  Good(s, updateShutdownStatus(s))
<1>. DEFINE t == updateShutdownStatus(s)
<1>1. t \in Sessions /\ Agrees(t) /\ Keeps(s, t)
  BY PumpsKeep, updateShutdownStatusKeeps DEF Safe
<1>. HIDE DEF t
<1>2. Good(s, t)
  BY <1>1, KeepsGood
<1>. QED BY <1>2 DEF t

(* The window is told to close. *)
LEMMA CloseGood ==
  ASSUME NEW s, Safe(s), ~Closing(s), ~s.window.finalizing
  PROVE  Good(s, updateShutdownStatus(StopParts(
           [s EXCEPT !.window.sequence = "Closing",
                     !.window.pendingStart = FALSE,
                     !.window.sync = FALSE, !.window.retry = FALSE])))
<1>0. s \in Sessions /\ Agrees(s) /\ ~s.client.shutdown
  BY DEF Safe, Agrees
<1>. DEFINE x == [s EXCEPT !.window.sequence = "Closing",
                           !.window.pendingStart = FALSE,
                           !.window.sync = FALSE, !.window.retry = FALSE]
            y == [x EXCEPT !.client.shutdown = TRUE]
            d == stopPreview(StopSelected(continueShutdown(y)))
            e == CancelWork(d)
            f == StopRunningBridge(e)
            t == updateShutdownStatus(f)
<1>1. /\ x \in Sessions /\ WindowOnly(s, x)
      /\ x.window.sequence = "Closing" /\ ~x.window.pendingStart
      /\ x.window.every = s.window.every
      /\ x.window.probe = s.window.probe
      /\ x.window.verification = s.window.verification
      /\ x.window.deadline = s.window.deadline
      /\ x.window.finalizing = s.window.finalizing
      /\ x.window.pendingStop = s.window.pendingStop
      /\ x.window.stopRequested = s.window.stopRequested
  BY <1>0 DEF Sessions, Windows, WindowOnly
<1>2. updateShutdownStatus(StopParts(x)) = t
  <2>. HIDE DEF x
  <2>. QED BY <1>0, <1>1 DEF StopParts, beginShutdown, WindowOnly
<1>. SUFFICES Good(s, updateShutdownStatus(StopParts(x)))
  OBVIOUS
<1>. HIDE DEF x
<1>3. /\ y \in Sessions /\ ClientOnly(x, y) /\ y.client.shutdown
      /\ y.client.connection = x.client.connection
      /\ y.client.socket = x.client.socket
      /\ y.client.recording = x.client.recording
      /\ y.client.operation = x.client.operation
      /\ y.client.batch = x.client.batch
      /\ y.client.startMay = x.client.startMay
  BY <1>1 DEF Sessions, Clients, ClientOnly
<1>. HIDE DEF y
<1>4. Agrees(y)
  BY <1>0, <1>1, <1>3, SMTT(30) DEF Sessions, Windows, Clients, Processes,
    Bridges, Previews, Batches, Operations, Lifecycles, Agrees, WindowOnly,
    ClientOnly
<1>5. Sound(y) /\ CutIsKnown(y)
  BY <1>1, <1>3 DEF Safe, Sound, FreshStart, FileIsAlone, Settled, Backed,
    ClosedSafely, CutIsKnown, WindowOnly, ClientOnly
<1>6. LocalIsQuiet(y)
  BY <1>1, <1>3 DEF Safe, LocalIsQuiet, WindowOnly, ClientOnly
<1>7. Safe(y)
  BY <1>1, <1>3, <1>4, <1>5, <1>6 DEF Safe, WindowOnly, ClientOnly
<1>8. Closes(s, y)
  BY <1>1, <1>3 DEF Closes, SameProgram, WindowOnly, ClientOnly
<1>9. Safe(d) /\ Closes(s, d)
  BY <1>0, <1>3, <1>7, <1>8, PartsStop
<1>. HIDE DEF d
<1>10. Safe(e) /\ Closes(s, e)
  BY <1>0, <1>9, WorkIsCancelled
<1>. HIDE DEF e
<1>11. Safe(f) /\ Closes(s, f)
  BY <1>0, <1>10, BridgeIsStopped
<1>. HIDE DEF f
<1>12. t \in Sessions /\ Agrees(t) /\ Keeps(f, t)
  BY <1>11, PumpsKeep, updateShutdownStatusKeeps DEF Safe
<1>. HIDE DEF t
<1>13. Follows(f, t) /\ Sound(t)
  BY <1>11, <1>12, KeepsFollows DEF Safe
<1>14. Safe(t) /\ Closes(s, t)
  BY <1>0, <1>11, <1>12, <1>13, ClosesOn
<1>. QED BY <1>2, <1>14, ClosesGood

(* Stop of the bridge by hand, the one step that StopsInOrder lets go. *)
LEMMA StopStreamingSafe ==
  ASSUME NEW s, Safe(s), Calm(s)
  PROVE  LET t == onStop(s) IN Safe(t) /\ Calm(t) /\ Step(s, t)
<1>. DEFINE u == [s EXCEPT !.bridge.lifecycle = "Stopping"]
            g == [u EXCEPT !.bridge.lifecycle = "Stopping",
                           !.bridge.stop = TRUE]
            t == onStop(s)
<1>0. s \in Sessions /\ Agrees(s)
  BY DEF Safe
<1>1. CASE s.bridge.thread = "None"
  <2>1. t = s
    BY <1>1 DEF onStop
  <2>. QED BY <1>0, <2>1, NearReflexive, SetGood DEF Good
<1>2. CASE s.bridge.thread # "None"
  <2>1. t \in {u, pumpSession(g)}
    BY <1>2 DEF onStop, stopBridge
  <2>2. /\ u \in Sessions /\ u.window = s.window /\ u.client = s.client
        /\ u.process = s.process /\ u.preview = s.preview
        /\ u.bridge.thread = s.bridge.thread
        /\ u.bridge.stop = s.bridge.stop
    BY <1>0 DEF Sessions, Bridges, Lifecycles
  <2>. SUFFICES Safe(t) /\ Calm(t) /\ Step(s, t)
    OBVIOUS
  <2>. HIDE DEF u, t
  <2>3. Inessential(s, u)
    BY <1>0, <1>2, <2>2 DEF Inessential, Agrees
  <2>4. Good(s, u)
    BY <1>0, <2>2, <2>3, InessentialSafe, SetGood
  <2>5. /\ g \in Sessions /\ g.window = u.window /\ g.client = u.client
        /\ g.process = u.process /\ g.preview = u.preview
        /\ g.bridge.thread = u.bridge.thread
    BY <2>2 DEF Sessions, Bridges, Lifecycles
  <2>. HIDE DEF g
  <2>6. Inessential(s, g)
    BY <1>0, <1>2, <2>2, <2>5 DEF Inessential, Agrees
  <2>7. Safe(g) /\ Near(s, g)
    BY <1>0, <2>5, <2>6, InessentialSafe
  <2>. DEFINE p == pumpSession(g)
  <2>8. /\ p \in Sessions /\ Agrees(p) /\ Calm(p) /\ Follows(g, p)
        /\ Sound(p)
    BY <2>7, PumpFollows DEF Safe
  <2>. HIDE DEF p
  <2>9. Safe(p) /\ Calm(p) /\ Step(s, p)
    BY <1>0, <2>5, <2>7, <2>8, ThenFollows
  <2>. QED BY <2>1, <2>4, <2>9 DEF Good, p
<1>. QED BY <1>1, <1>2

-----------------------------------------------------------------------------
(* The socket is connected. *)
LEMMA ConnectedGood ==
  ASSUME NEW s, Safe(s), ~s.window.finalizing,
         s.client.socket = "Connecting"
  PROVE  Good(s, onConnected(s))
<1>0. s \in Sessions /\ Agrees(s) /\ ~isConnected(s)
  BY DEF Safe, isConnected
<1>. DEFINE k == [s EXCEPT !.client.socket = "Connected"]
            c == [k EXCEPT !.client.connection = "Connected"]
            r == [EndProbe(c) EXCEPT !.window.retry = FALSE]
            u == scheduleFilenameSync(r)
            p == pumpSession(u)
            t == setRecordingState(p, "Unknown")
<1>1. onConnected(s) = t
  BY DEF onConnected, setConnectionState, ReactToConnection
<1>2. /\ c \in Sessions /\ ClientOnly(s, c)
      /\ c.client.connection = "Connected"
      /\ c.client.socket = "Connected"
      /\ c.client.recording = s.client.recording
      /\ c.client.operation = s.client.operation
      /\ c.client.batch = s.client.batch
      /\ c.client.startMay = s.client.startMay
      /\ c.client.shutdown = s.client.shutdown
  BY <1>0 DEF Sessions, Clients, ClientOnly
<1>. HIDE DEF c
<1>3. r \in Sessions /\ ButForProbe(c, r) /\ ~r.window.probe
  BY <1>2 DEF EndProbe, Sessions, Windows, WindowOnly, ButForProbe
<1>. HIDE DEF r
<1>4. u \in Sessions /\ ButForProbe(c, u) /\ ~u.window.probe
  <2>. DEFINE y == [r EXCEPT !.window.sync = TRUE]
  <2>1. y \in Sessions /\ ButForProbe(c, y) /\ ~y.window.probe
    BY <1>3 DEF Sessions, Windows, WindowOnly, ButForProbe
  <2>2. u \in {r, y}
    BY DEF scheduleFilenameSync
  <2>. HIDE DEF y, u
  <2>. QED BY <1>3, <2>1, <2>2
<1>. HIDE DEF u
<1>5. Agrees(u)
  BY <1>0, <1>2, <1>4, SMTT(30) DEF Sessions, Windows, Clients, Processes,
    Bridges, Previews, Batches, Operations, Lifecycles, Agrees, WindowOnly,
    ClientOnly,
    ButForProbe
<1>6. Sound(u) /\ CutIsKnown(u)
  BY <1>0, <1>2, <1>4 DEF Safe, Sound, FreshStart, FileIsAlone, Settled,
    Backed, ClosedSafely, CutIsKnown, WindowOnly, ClientOnly, ButForProbe
<1>7. LocalIsQuiet(u)
  BY <1>2, <1>4 DEF Safe, LocalIsQuiet, WindowOnly, ClientOnly,
    ButForProbe
<1>8. Safe(u) /\ Near(s, u) /\ u.bridge = s.bridge
  BY <1>2, <1>4, <1>5, <1>6, <1>7 DEF Safe, Near, WindowOnly, ClientOnly,
    ButForProbe
<1>9. p \in Sessions /\ Agrees(p) /\ Calm(p) /\ Follows(u, p) /\ Sound(p)
  BY <1>8, PumpFollows DEF Safe
<1>. HIDE DEF p
<1>10. t \in Sessions /\ Agrees(t) /\ Keeps(p, t)
  BY <1>9, RecordingUnknown
<1>. HIDE DEF t
<1>11. Follows(p, t) /\ Sound(t)
  BY <1>9, <1>10, KeepsFollows
<1>12. Follows(u, t) /\ Calm(t)
  BY <1>4, <1>9, <1>10, <1>11, FollowsTransitive DEF Follows
<1>13. Good(s, t)
  BY <1>0, <1>4, <1>8, <1>10, <1>11, <1>12, ThenFollows DEF Good
<1>. QED BY <1>1, <1>13

(* A connection fails, while it is made or later. *)
LEMMA ConnectionFailsGood ==
  ASSUME NEW s, Safe(s), Calm(s), ~s.window.finalizing
  PROVE  Good(s, failActiveConnection(s)) /\ Good(s, abort(s))
<1>. DEFINE t == failActiveConnection(s)
            a == abort(s)
<1>1. t \in Sessions /\ Agrees(t) /\ Follows(s, t) /\ Sound(t)
  BY failActiveConnectionFollows DEF Safe
<1>2. a \in Sessions /\ Agrees(a) /\ Follows(s, a) /\ Sound(a)
  BY abortFollows DEF Safe
<1>. HIDE DEF t, a
<1>3. Good(s, t) /\ Good(s, a)
  BY <1>1, <1>2, FollowsGood
<1>. QED BY <1>3 DEF t, a

(* The start command is handed to the socket: from now on the recorder may   *)
(* record.                                                                   *)
LEMMA StartSentGood ==
  ASSUME NEW s, Safe(s), Calm(s), ~s.window.finalizing,
         s.client.batch = "Starting"
  PROVE  Good(s, [s EXCEPT !.client.startMay = TRUE])
<1>0. s \in Sessions /\ Agrees(s)
  BY DEF Safe
<1>. DEFINE t == [s EXCEPT !.client.startMay = TRUE]
<1>1. /\ t \in Sessions /\ ClientOnly(s, t) /\ t.client.startMay
      /\ t.client.connection = s.client.connection
      /\ t.client.socket = s.client.socket
      /\ t.client.recording = s.client.recording
      /\ t.client.operation = s.client.operation
      /\ t.client.batch = s.client.batch
      /\ t.client.shutdown = s.client.shutdown
  BY <1>0 DEF Sessions, Clients, ClientOnly
<1>. SUFFICES Good(s, t)
  OBVIOUS
<1>. HIDE DEF t
<1>2. Agrees(t)
  BY <1>0, <1>1, SMTT(30) DEF Sessions, Windows, Clients, Processes, Bridges,
    Previews, Batches, Operations, Lifecycles, Agrees, ClientOnly
<1>3. Sound(t) /\ CutIsKnown(t)
  BY <1>1 DEF Safe, Sound, FreshStart, FileIsAlone, Settled, Backed,
    ClosedSafely, CutIsKnown, ClientOnly
<1>4. LocalIsQuiet(t)
  BY <1>1 DEF Safe, LocalIsQuiet, ClientOnly
<1>5. Safe(t) /\ Calm(t)
  BY <1>1, <1>2, <1>3, <1>4 DEF Safe, Calm, StopIsOnItsWay, ClientOnly
<1>6. Step(s, t) /\ InOrder(s, t)
  BY <1>1 DEF Step, InOrder, ClientOnly
<1>. QED BY <1>5, <1>6 DEF Good

(* The recorder has confirmed the last command of a batch. *)
LEMMA BatchConfirmedGood ==
  ASSUME NEW s, Safe(s), Calm(s),
         s.client.batch = "Starting" => s.client.startMay
  PROVE  Good(s, finishActiveBatch(s, TRUE))
<1>. DEFINE t == finishActiveBatch(s, TRUE)
<1>1. t \in Sessions /\ Agrees(t) /\ Follows(s, t) /\ Sound(t)
  BY BatchConfirmedFollows DEF Safe
<1>. HIDE DEF t
<1>2. Good(s, t)
  BY <1>1, FollowsGood
<1>. QED BY <1>2 DEF t

-----------------------------------------------------------------------------
(* The program has started. *)
LEMMA StartedGood ==
  ASSUME NEW s, Safe(s), Calm(s), s.process.os = "Starting"
  PROVE  Good(s, ReportRecording(ReportStarted(
           [s EXCEPT !.process.os = "Running",
                     !.process.state = "OwnedRunning"])))
<1>0. s \in Sessions /\ Agrees(s)
  BY DEF Safe
<1>. DEFINE u == [s EXCEPT !.process.os = "Running",
                           !.process.state = "OwnedRunning"]
            v == [u EXCEPT !.window.retry = TRUE]
            l == onLabRecorderRetry(v, FALSE)
            a == ReportStarted(u)
            t == ReportRecording(a)
<1>1. /\ u \in Sessions /\ u.window = s.window /\ u.client = s.client
      /\ u.bridge = s.bridge /\ u.preview = s.preview
      /\ u.process.kind = s.process.kind
      /\ u.process.os = "Running" /\ u.process.state = "OwnedRunning"
      /\ u.process.stopRequested = s.process.stopRequested
      /\ u.process.ending = s.process.ending
  BY <1>0 DEF Sessions, Processes
<1>. SUFFICES Good(s, t)
  OBVIOUS
<1>. HIDE DEF u
<1>2. /\ Running(u) <=> Running(s)
      /\ ownsRunningProcess(u) /\ ownsRunningProcess(s)
      /\ Selected(u) <=> Selected(s)
  BY <1>0, <1>1 DEF Running, Selected, ownsRunningProcess, Agrees
<1>3. Agrees(u)
  BY <1>0, <1>1, <1>2 DEF Agrees, isConnected, Wanted, Closing
<1>4. Sound(u) /\ CutIsKnown(u)
  BY <1>1, <1>2 DEF Safe, Sound, FreshStart, FileIsAlone, Settled, Backed,
    ClosedSafely, CutIsKnown, isConnected, verificationActive
<1>5. LocalIsQuiet(u)
  BY <1>0, <1>1, <1>2 DEF Safe, LocalIsQuiet, stoppingSession,
    Closing
<1>6. Safe(u) /\ Near(s, u) /\ Calm(u)
  BY <1>0, <1>1, <1>2, <1>3, <1>4, <1>5 DEF Safe, Near, Calm, StopIsOnItsWay,
    stoppingSession, Closing, Wanted
<1>7. v \in Sessions /\ Agrees(v) /\ Keeps(u, v)
  BY <1>1, <1>3, RetryFlagKeeps
<1>. HIDE DEF v
<1>8. Follows(u, v) /\ Sound(v) /\ CutIsKnown(v)
  BY <1>1, <1>4, <1>7, KeepsFollows DEF Follows
<1>9. l \in Sessions /\ Agrees(l) /\ Follows(v, l) /\ Sound(l)
  BY <1>7, <1>8, onLabRecorderRetryFollows
<1>10. a \in {pumpSession(u), pumpSession(l)}
  BY DEF ReportStarted, v
<1>. HIDE DEF l
<1>11. Follows(u, l) /\ Follows(u, u)
  BY <1>1, <1>3, <1>7, <1>8, <1>9, FollowsTransitive, FollowsReflexive
<1>12. ASSUME NEW x \in Sessions, Agrees(x), Follows(u, x), Sound(x)
       PROVE  LET p == pumpSession(x) IN
              p \in Sessions /\ Agrees(p) /\ Follows(u, p) /\ Sound(p)
  <2>. DEFINE p == pumpSession(x)
  <2>1. p \in Sessions /\ Agrees(p) /\ Follows(x, p) /\ Sound(p)
    BY <1>12, PumpFollows
  <2>. HIDE DEF p
  <2>2. Follows(u, p)
    BY <1>1, <1>12, <2>1, FollowsTransitive
  <2>. QED BY <2>1, <2>2 DEF p
<1>13. a \in Sessions /\ Agrees(a) /\ Follows(u, a) /\ Sound(a)
  BY <1>1, <1>3, <1>4, <1>9, <1>10, <1>11, <1>12
<1>. HIDE DEF a
<1>14. t \in Sessions /\ Agrees(t) /\ Follows(u, t) /\ Sound(t)
  BY <1>12, <1>13 DEF ReportRecording
<1>. HIDE DEF t
<1>. QED BY <1>0, <1>1, <1>6, <1>14, ThenFollows DEF Good, Follows

(* The program could not be started. *)
LEMMA LaunchFailedGood ==
  ASSUME NEW s, Safe(s), Calm(s), ~s.window.finalizing,
         s.process.os = "Starting"
  PROVE  Good(s, pumpSession([s EXCEPT !.process.os = "NotRunning",
                                       !.process.state = "LaunchFailed"]))
<1>0. s \in Sessions /\ Agrees(s)
  BY DEF Safe
<1>. DEFINE u == [s EXCEPT !.process.os = "NotRunning",
                           !.process.state = "LaunchFailed"]
<1>1. /\ u \in Sessions /\ u.window = s.window /\ u.client = s.client
      /\ u.bridge = s.bridge /\ u.preview = s.preview
      /\ u.process.kind = s.process.kind
      /\ u.process.os = "NotRunning"
      /\ u.process.stopRequested = s.process.stopRequested
      /\ u.process.ending = s.process.ending
  BY <1>0 DEF Sessions, Processes
<1>. SUFFICES Good(s, pumpSession(u))
  OBVIOUS
<1>. HIDE DEF u
<1>2. /\ ~ownsRunningProcess(u) /\ ~Running(u)
      /\ Selected(u) <=> Selected(s)
  BY <1>1 DEF Running, Selected, ownsRunningProcess
<1>3. Selected(s) /\ s.window.pendingStop => s.client.shutdown
  BY <1>0 DEF Calm, StopIsOnItsWay, Agrees, Running, ownsRunningProcess
<1>4. Agrees(u)
  BY <1>0, <1>1, <1>2, <1>3 DEF Agrees, isConnected, Wanted, Closing
<1>5. Sound(u) /\ CutIsKnown(u)
  BY <1>1, <1>2 DEF Safe, Sound, FreshStart, FileIsAlone, Settled, Backed,
    ClosedSafely, CutIsKnown, isConnected, verificationActive
<1>6. LocalIsQuiet(u)
  BY <1>1, <1>2 DEF Safe, LocalIsQuiet
<1>7. Safe(u) /\ Near(s, u)
  BY <1>0, <1>1, <1>2, <1>4, <1>5, <1>6 DEF Safe, Near, stoppingSession,
    Closing, Wanted
<1>. QED BY <1>0, <1>1, <1>7, SetGood

(* From the moment on that the program has ended: its kind is still there. *)
Whole(s) ==
  /\ s \in Sessions /\ s.window.every \in Modes
  /\ Agrees(s) /\ Sound(s) /\ CutIsKnown(s) /\ LocalIsQuiet(s)
  /\ stoppingSession(s) => ~s.window.probe

(* What the slots do that hear of the end of a program. *)
Exited(s, t) ==
  /\ t.process.os = "NotRunning"
  /\ t.client.startMay => s.client.startMay
  /\ s.client.startMay /\ t.client.startMay /\ Wanted(s) => Wanted(t)
  /\ t.client.batch = "Starting" => s.client.batch = "Starting"
  /\ ~s.process.ending /\ t.process.ending =>
       t.window.deadline \/ (~t.client.startMay /\ ~Selected(t))
  /\ Selected(t) => verificationActive(t) \/ Closing(t) \/ t.window.finalizing
  /\ stoppingSession(s) => ~startingSession(t)
  /\ stoppingSession(s) /\ ~s.bridge.stop /\ t.bridge.stop => AllQuiet(t)

(* The pump goes on from there. *)
LEMMA ExitedOn ==
  ASSUME NEW s, NEW t, Whole(t), Exited(s, t)
  PROVE  LET u == pumpSession(t) IN Whole(u) /\ Exited(s, u) /\ Calm(u)
<1>. DEFINE u == pumpSession(t)
<1>1. t \in Sessions /\ Agrees(t) /\ Sound(t)
  BY DEF Whole
<1>2. /\ u \in Sessions /\ Agrees(u) /\ Keeps(t, u) /\ Calm(u)
      /\ Follows(t, u) /\ Sound(u)
  BY <1>1, PumpFollows
<1>. HIDE DEF u
<1>3. Whole(u)
  BY <1>2 DEF Whole, Keeps, Stays, Moves
<1>4. Stays(t, u) /\ Moves(t, u) /\ SameProgram(t, u)
  BY <1>2 DEF Keeps, Stays
<1>5. /\ u.process.os = "NotRunning"
      /\ u.client.startMay => s.client.startMay
      /\ s.client.startMay /\ u.client.startMay /\ Wanted(s) => Wanted(u)
      /\ u.client.batch = "Starting" => s.client.batch = "Starting"
      /\ ~s.process.ending /\ u.process.ending =>
           u.window.deadline \/ (~u.client.startMay /\ ~Selected(u))
      /\ stoppingSession(s) => ~startingSession(u)
  BY <1>4 DEF Exited, Moves, SameProgram
<1>6. Selected(u) => verificationActive(u) \/ Closing(u) \/ u.window.finalizing
  BY <1>4 DEF Exited, Stays, Moves, SameProgram
<1>7. stoppingSession(s) /\ ~s.bridge.stop /\ u.bridge.stop => AllQuiet(u)
  BY <1>4 DEF Exited, Stays, Moves
<1>. QED BY <1>2, <1>3, <1>5, <1>6, <1>7 DEF Exited, u

(* The controller reports the end. *)
LEMMA ExitReported ==
  ASSUME NEW s, NEW p, Whole(p), Exited(s, p)
  PROVE  LET t == ReportExit(p) IN Whole(t) /\ Exited(s, t) /\ Calm(t)
<1>. DEFINE q == [p EXCEPT !.process.state = "OwnedExited"]
            a == pumpSession(q)
            t == pumpSession(a)
<1>0. p \in Sessions /\ Agrees(p) /\ p.process.os = "NotRunning"
  BY DEF Whole, Exited
<1>1. /\ q \in Sessions /\ q.window = p.window /\ q.client = p.client
      /\ q.bridge = p.bridge /\ q.preview = p.preview
      /\ q.process.kind = p.process.kind
      /\ q.process.os = "NotRunning"
      /\ q.process.stopRequested = p.process.stopRequested
      /\ q.process.ending = p.process.ending
  BY <1>0 DEF Sessions, Processes
<1>. HIDE DEF q
<1>2. /\ ~ownsRunningProcess(q) /\ ~Running(q)
      /\ ~ownsRunningProcess(p) /\ ~Running(p)
      /\ Selected(q) <=> Selected(p)
  BY <1>0, <1>1 DEF Running, Selected, ownsRunningProcess
<1>3. Agrees(q)
  BY <1>0, <1>1, <1>2 DEF Agrees, isConnected, Wanted, Closing
<1>4. Sound(q) /\ CutIsKnown(q)
  BY <1>1, <1>2 DEF Whole, Sound, FreshStart, FileIsAlone, Settled, Backed,
    ClosedSafely, CutIsKnown, isConnected, verificationActive,
    recorderConnectionLostExternally, shutdownReady, shutdownSettledSafely
<1>5. LocalIsQuiet(q)
  BY <1>0, <1>1, <1>2 DEF Whole, LocalIsQuiet
<1>6. Whole(q)
  BY <1>0, <1>1, <1>2, <1>3, <1>4, <1>5 DEF Whole, stoppingSession
<1>7. AllQuiet(p) => AllQuiet(q)
  BY <1>1, <1>2 DEF AllQuiet, recordingActiveOrPending,
    effectiveRecordingState, effectiveOperationState,
    selectedStreamRecording, Closing, verificationActive
<1>8. Exited(s, q)
  BY <1>1, <1>2, <1>7 DEF Exited, Wanted, verificationActive, Closing,
    startingSession
<1>9. Whole(a) /\ Exited(s, a)
  BY <1>6, <1>8, ExitedOn
<1>10. ReportExit(p) = t
  BY DEF ReportExit, q
<1>. HIDE DEF a
<1>11. Whole(t) /\ Exited(s, t) /\ Calm(t)
  BY <1>9, ExitedOn
<1>. QED BY <1>10, <1>11

(* The end of a program of selected streams asks for the check of its file   *)
(* first.                                                                    *)
LEMMA StopReported ==
  ASSUME NEW s, Safe(s), Calm(s), ~s.window.finalizing,
         s.process.os = "Running"
  PROVE  LET t == ReportStopped([s EXCEPT !.process.os = "NotRunning"]) IN
         Whole(t) /\ Exited(s, t)
<1>0. s \in Sessions /\ Agrees(s)
  BY DEF Safe
<1>. DEFINE u == [s EXCEPT !.process.os = "NotRunning"]
            v == requestVerification(u)
<1>1. /\ u \in Sessions /\ u.window = s.window /\ u.client = s.client
      /\ u.bridge = s.bridge /\ u.preview = s.preview
      /\ u.process.kind = s.process.kind
      /\ u.process.os = "NotRunning"
      /\ u.process.stopRequested = s.process.stopRequested
      /\ u.process.ending = s.process.ending
  BY <1>0 DEF Sessions, Processes
<1>. SUFFICES Whole(ReportStopped(u)) /\ Exited(s, ReportStopped(u))
  OBVIOUS
<1>. HIDE DEF u
<1>2. /\ ~ownsRunningProcess(u) /\ ~Running(u)
      /\ Selected(u) <=> Selected(s)
      /\ Selected(s) => Running(s)
  BY <1>0, <1>1 DEF Running, Selected, ownsRunningProcess, Agrees
<1>3. Selected(s) /\ s.window.pendingStop => s.client.shutdown
  BY <1>0, <1>2 DEF Calm, StopIsOnItsWay, Agrees
<1>4. Agrees(u)
  BY <1>0, <1>1, <1>2, <1>3 DEF Agrees, isConnected, Wanted, Closing
<1>5. Sound(u) /\ CutIsKnown(u)
  BY <1>1, <1>2 DEF Safe, Sound, FreshStart, FileIsAlone, Settled, Backed,
    ClosedSafely, CutIsKnown, isConnected, verificationActive
<1>6. CASE ~Selected(s)
  <2>1. ReportStopped(u) = u
    BY <1>2, <1>6 DEF ReportStopped
  <2>2. LocalIsQuiet(u)
    BY <1>1, <1>2, <1>6 DEF Safe, LocalIsQuiet
  <2>3. Whole(u)
    BY <1>0, <1>1, <1>4, <1>5, <2>2 DEF Whole, Safe, stoppingSession
  <2>4. Exited(s, u)
    BY <1>1, <1>2, <1>6 DEF Exited, Wanted, startingSession, stoppingSession
  <2>. QED BY <2>1, <2>3, <2>4
<1>7. CASE Selected(s)
  <2>1. ReportStopped(u) = pumpSession(v)
    BY <1>2, <1>7 DEF ReportStopped
  <2>2. /\ v \in Sessions /\ WindowOnly(u, v)
        /\ v.window.sequence = u.window.sequence
        /\ v.window.every = u.window.every
        /\ v.window.probe = u.window.probe
        /\ v.window.deadline = u.window.deadline
        /\ v.window.finalizing = u.window.finalizing
        /\ v.window.pendingStart = u.window.pendingStart
        /\ v.window.pendingStop = u.window.pendingStop
        /\ v.window.stopRequested = u.window.stopRequested
        /\ v.window.verification =
             IF Closing(u) \/ verificationActive(u)
             THEN u.window.verification ELSE "Waiting"
    BY <1>1, requestVerificationUpdates
  <2>. HIDE DEF v
  <2>3. /\ ~ownsRunningProcess(v) /\ ~Running(v) /\ Selected(v)
        /\ verificationActive(v) \/ Closing(v)
        /\ ~s.window.pendingStart
    BY <1>1, <1>2, <1>7, <2>2 DEF Running, Selected, ownsRunningProcess,
      WindowOnly, verificationActive, Closing, Safe, Sound, FreshStart
  <2>4. Agrees(v)
    BY <1>4, <2>2, <2>3 DEF Agrees, isConnected, Wanted, Closing, Selected,
      WindowOnly
  <2>5. /\ ~v.client.startMay /\ v.client.batch \notin {"Starting", "Stopping"}
        /\ v.window.pendingStop => v.client.shutdown
        /\ ~v.window.every
    BY <2>3, <2>4 DEF Agrees
  <2>6. /\ FreshStart(v) /\ Settled(v) /\ Backed(v) /\ ClosedSafely(v)
        /\ CutIsKnown(v)
    BY <1>1, <1>5, <2>2, <2>3 DEF Sound, FreshStart, Settled, Backed,
      ClosedSafely, CutIsKnown, isConnected, WindowOnly
  <2>7. FileIsAlone(v)
    BY <1>5, <2>2, <2>3, <2>5 DEF Sound, FileIsAlone, verificationActive,
      WindowOnly
  <2>8. LocalIsQuiet(v)
    BY <2>3, <2>5 DEF LocalIsQuiet
  <2>9. Whole(v)
    BY <1>0, <1>1, <2>2, <2>4, <2>6, <2>7, <2>8 DEF Whole, Safe, Sound,
      stoppingSession, WindowOnly
  <2>10. Exited(s, v)
    BY <1>1, <1>2, <2>2, <2>3, <2>5 DEF Exited, Wanted, startingSession,
      stoppingSession, WindowOnly, Selected
  <2>. QED BY <2>1, <2>9, <2>10, ExitedOn
<1>. QED BY <1>6, <1>7

(* The program has ended. *)
LEMMA FinishedGood ==
  ASSUME NEW s, Safe(s), Calm(s), ~s.window.finalizing,
         s.process.os = "Running"
  PROVE  Good(s, [ReportExit(ReportStopped(
                    [s EXCEPT !.process.os = "NotRunning"]))
                  EXCEPT !.process.kind = "None",
                         !.process.stopRequested = FALSE,
                         !.process.ending = FALSE])
<1>. DEFINE p == ReportStopped([s EXCEPT !.process.os = "NotRunning"])
            r == ReportExit(p)
            t == [r EXCEPT !.process.kind = "None",
                           !.process.stopRequested = FALSE,
                           !.process.ending = FALSE]
<1>1. Whole(p) /\ Exited(s, p)
  BY StopReported
<1>. HIDE DEF p
<1>2. Whole(r) /\ Exited(s, r) /\ Calm(r)
  BY <1>1, ExitReported
<1>. SUFFICES Good(s, t)
  BY DEF p
<1>. HIDE DEF r
<1>3. r \in Sessions /\ Agrees(r) /\ r.process.os = "NotRunning"
  BY <1>2 DEF Whole, Exited
<1>4. /\ t \in Sessions /\ t.window = r.window /\ t.client = r.client
      /\ t.bridge = r.bridge /\ t.preview = r.preview
      /\ t.process.kind = "None" /\ t.process.os = "NotRunning"
      /\ ~t.process.stopRequested /\ ~t.process.ending
  BY <1>3 DEF Sessions, Processes
<1>. HIDE DEF t
<1>5. /\ ~ownsRunningProcess(t) /\ ~Running(t) /\ ~Selected(t)
      /\ ~ownsRunningProcess(r) /\ ~Running(r)
  BY <1>3, <1>4 DEF Running, Selected, ownsRunningProcess
<1>6. Agrees(t)
  BY <1>3, <1>4, <1>5 DEF Agrees, isConnected, Wanted, Closing
<1>7. FreshStart(t) /\ FileIsAlone(t) /\ Settled(t) /\ ClosedSafely(t)
      /\ CutIsKnown(t)
  BY <1>2, <1>4, <1>5 DEF Whole, Sound, FreshStart, FileIsAlone, Settled,
    ClosedSafely, CutIsKnown, isConnected, verificationActive,
    recorderConnectionLostExternally, shutdownReady, shutdownSettledSafely
<1>8. Backed(t)
  BY <1>2, <1>4 DEF Whole, Sound, Exited, Backed, verificationActive, Closing
<1>9. LocalIsQuiet(t)
  BY <1>2, <1>4, <1>5 DEF Whole, LocalIsQuiet
<1>10. Safe(t) /\ Calm(t)
  BY <1>2, <1>4, <1>5, <1>6, <1>7, <1>8, <1>9 DEF Whole, Safe, Sound, Calm,
    StopIsOnItsWay, stoppingSession
<1>11. Step(s, t)
  BY <1>2, <1>4 DEF Exited, Step, Wanted
<1>12. AllQuiet(r) => AllQuiet(t)
  BY <1>3, <1>4, <1>5 DEF AllQuiet, recordingActiveOrPending,
    effectiveRecordingState, effectiveOperationState,
    selectedStreamRecording, verificationActive, Agrees
<1>13. InOrder(s, t)
  BY <1>2, <1>4, <1>12 DEF Exited, InOrder
<1>. QED BY <1>10, <1>11, <1>13 DEF Good

-----------------------------------------------------------------------------
(* Only the check of the file has changed. *)
ButForVerification(s, t) ==
  /\ WindowOnly(s, t)
  /\ t.window.sequence = s.window.sequence
  /\ t.window.every = s.window.every
  /\ t.window.probe = s.window.probe
  /\ t.window.finalizing = s.window.finalizing
  /\ t.window.pendingStart = s.window.pendingStart
  /\ t.window.pendingStop = s.window.pendingStop
  /\ t.window.stopRequested = s.window.stopRequested

(* A check is over, or its result is reported. *)
LEMMA VerificationGood ==
  ASSUME NEW s, Safe(s), Calm(s), ~s.window.finalizing, verificationActive(s),
         NEW next \in {"None", "Reported"}
  PROVE  Good(s, finishVerification(s, next))
<1>0. s \in Sessions /\ Agrees(s)
  BY DEF Safe
<1>. DEFINE u == [s EXCEPT !.window.verification = next,
                           !.window.stopRequested = FALSE]
<1>1. /\ u \in Sessions /\ WindowOnly(s, u)
      /\ u.window.verification = next /\ ~u.window.stopRequested
      /\ u.window.sequence = s.window.sequence
      /\ u.window.every = s.window.every
      /\ u.window.probe = s.window.probe
      /\ u.window.finalizing = s.window.finalizing
      /\ u.window.pendingStart = s.window.pendingStart
      /\ u.window.pendingStop = s.window.pendingStop
  BY <1>0 DEF Sessions, Windows, WindowOnly
<1>2. finishVerification(s, next) = pumpSession(u)
  BY DEF finishVerification
<1>. HIDE DEF u
<1>3. /\ ~s.client.startMay /\ ~Running(s)
      /\ ~s.client.shutdown => s.client.batch # "Stopping"
      /\ ~s.window.pendingStart
  BY DEF Safe, Sound, FileIsAlone, FreshStart
<1>4. Agrees(u)
  BY <1>0, <1>1, <1>3, SMTT(30) DEF Sessions, Windows, Clients, Processes,
    Bridges, Previews, Batches, Operations, Lifecycles, Agrees, WindowOnly
<1>5. Sound(u) /\ CutIsKnown(u)
  BY <1>1, <1>3 DEF Safe, Sound, FreshStart, FileIsAlone, Settled, Backed,
    ClosedSafely, CutIsKnown, WindowOnly
<1>6. LocalIsQuiet(u)
  BY <1>1 DEF Safe, LocalIsQuiet, WindowOnly
<1>7. Safe(u) /\ Near(s, u) /\ u.bridge = s.bridge
  BY <1>1, <1>3, <1>4, <1>5, <1>6 DEF Safe, Near, WindowOnly
<1>. QED BY <1>0, <1>2, <1>7, SetGood

(* A file is there, and is checked. *)
LEMMA CheckGood ==
  ASSUME NEW s, Safe(s), Calm(s), s.window.verification = "Waiting"
  PROVE  Good(s, [s EXCEPT !.window.verification = "Checking"])
<1>0. s \in Sessions /\ Agrees(s)
  BY DEF Safe
<1>. DEFINE u == [s EXCEPT !.window.verification = "Checking"]
<1>1. /\ u \in Sessions /\ ButForVerification(s, u)
      /\ u.window.verification = "Checking"
  BY <1>0 DEF Sessions, Windows, WindowOnly, ButForVerification
<1>. SUFFICES Good(s, u)
  OBVIOUS
<1>. HIDE DEF u
<1>2. Agrees(u)
  BY <1>0, <1>1, SMTT(30) DEF Sessions, Windows, Clients, Processes, Bridges,
    Previews, Batches, Operations, Lifecycles, Agrees, WindowOnly,
    ButForVerification
<1>3. Sound(u) /\ CutIsKnown(u)
  BY <1>1 DEF Safe, Sound, FreshStart, FileIsAlone, Settled, Backed,
    ClosedSafely, CutIsKnown, WindowOnly, ButForVerification,
    recorderConnectionLostExternally, shutdownReady, shutdownSettledSafely
<1>4. LocalIsQuiet(u)
  BY <1>1 DEF Safe, LocalIsQuiet, WindowOnly, ButForVerification
<1>5. Safe(u) /\ Near(s, u) /\ Calm(u) /\ u.bridge = s.bridge
  BY <1>1, <1>2, <1>3, <1>4 DEF Safe, Near, Calm, StopIsOnItsWay, WindowOnly,
    ButForVerification
<1>. QED BY <1>0, <1>5, SetGood

(* The thread of the check has ended. *)
LEMMA CheckDoneGood ==
  ASSUME NEW s, Safe(s), Calm(s), ~s.window.finalizing,
         s.window.verification = "Reported"
  PROVE  Good(s, pumpSession([s EXCEPT !.window.verification = "None"]))
<1>0. s \in Sessions /\ Agrees(s)
  BY DEF Safe
<1>. DEFINE u == [s EXCEPT !.window.verification = "None"]
<1>1. /\ u \in Sessions /\ ButForVerification(s, u)
      /\ u.window.verification = "None"
  BY <1>0 DEF Sessions, Windows, WindowOnly, ButForVerification
<1>. SUFFICES Good(s, pumpSession(u))
  OBVIOUS
<1>. HIDE DEF u
<1>2. Agrees(u)
  BY <1>0, <1>1, SMTT(30) DEF Sessions, Windows, Clients, Processes, Bridges,
    Previews, Batches, Operations, Lifecycles, Agrees, WindowOnly,
    ButForVerification
<1>3. s.window.stopRequested => Closing(s)
  BY <1>0 DEF Safe, Sound, FileIsAlone, Agrees, verificationActive
<1>4. Sound(u) /\ CutIsKnown(u)
  BY <1>1, <1>3 DEF Safe, Sound, FreshStart, FileIsAlone, Settled, Backed,
    ClosedSafely, CutIsKnown, WindowOnly, ButForVerification
<1>5. LocalIsQuiet(u)
  BY <1>1 DEF Safe, LocalIsQuiet, WindowOnly, ButForVerification
<1>6. Safe(u) /\ Near(s, u) /\ u.bridge = s.bridge
  BY <1>1, <1>2, <1>4, <1>5 DEF Safe, Near, WindowOnly, ButForVerification
<1>. QED BY <1>0, <1>6, SetGood

-----------------------------------------------------------------------------
(* What changes nothing that matters. *)
LEMMA InessentialGood ==
  ASSUME NEW s, Safe(s), Calm(s), NEW u \in Sessions, Inessential(s, u),
         u.bridge.stop => s.bridge.stop
  PROVE  Good(s, u) /\ Good(s, pumpSession(u))
BY InessentialSafe, SetGood DEF Safe

(* The bridge or the preview reports. *)
LEMMA WorkerGood ==
  ASSUME NEW s, Safe(s), Calm(s), NEW u \in Sessions,
         u.window = s.window, u.client = s.client, u.process = s.process,
         u.bridge.stop => s.bridge.stop /\ u.bridge.thread # "None",
         u.preview.worker # "None" => s.preview.worker # "None"
  PROVE  Good(s, u) /\ Good(s, pumpSession(u))
<1>1. Inessential(s, u)
  BY DEF Safe, Agrees, Inessential
<1>. QED BY <1>1, InessentialGood

(* The pump comes by itself. *)
LEMMA HeartbeatGood ==
  ASSUME NEW s, Safe(s), Calm(s)
  PROVE  Good(s, s) /\ Good(s, pumpSession(s))
BY NearReflexive, SetGood DEF Safe

(* The fields of the file name are edited. *)
LEMMA FieldsEditedGood ==
  ASSUME NEW s, Safe(s), Calm(s), NEW sync \in BOOLEAN
  PROVE  LET u == [s EXCEPT !.window.sync = sync]
         IN  Good(s, u) /\ Inessential(s, u) /\ u.bridge = s.bridge
<1>0. s \in Sessions /\ Agrees(s)
  BY DEF Safe
<1>. DEFINE u == [s EXCEPT !.window.sync = sync]
<1>1. u \in Sessions /\ Inessential(s, u) /\ u.bridge = s.bridge
  BY <1>0 DEF Sessions, Windows, Inessential, Agrees
<1>. HIDE DEF u
<1>2. Good(s, u)
  BY <1>1, InessentialGood
<1>. QED BY <1>1, <1>2 DEF u

(* The 15 s are over that a close waits for the Stop. *)
LEMMA DeadlineGood ==
  ASSUME NEW s, Safe(s), Calm(s)
  PROVE  Good(s, [s EXCEPT !.window.deadline = TRUE])
<1>0. s \in Sessions /\ Agrees(s)
  BY DEF Safe
<1>. DEFINE u == [s EXCEPT !.window.deadline = TRUE]
<1>1. u \in Sessions /\ Inessential(s, u) /\ u.bridge = s.bridge
  BY <1>0 DEF Sessions, Windows, Inessential, Agrees
<1>. HIDE DEF u
<1>2. Good(s, u)
  BY <1>1, InessentialGood
<1>. QED BY <1>2 DEF u

(* The new file name is sent to the recorder. *)
LEMMA FilenameGood ==
  ASSUME NEW s, Safe(s), Calm(s), ~s.window.finalizing
  PROVE  Good(s, beginBatch([s EXCEPT !.window.sync = FALSE],
                            "UpdatingFilename"))
<1>0. s \in Sessions /\ Agrees(s)
  BY DEF Safe
<1>. DEFINE u == [s EXCEPT !.window.sync = FALSE]
            t == beginBatch(u, "UpdatingFilename")
<1>1. Good(s, u) /\ Inessential(s, u) /\ u.bridge = s.bridge
  BY FieldsEditedGood
<1>2. u \in Sessions /\ u.window.deadline = s.window.deadline
  BY <1>0 DEF Sessions, Windows
<1>. HIDE DEF u
<1>3. Safe(u) /\ Calm(u) /\ ~u.window.finalizing
  BY <1>1 DEF Good, Inessential
<1>4. Good(u, t)
  BY <1>3, BatchGood
<1>. HIDE DEF t
<1>5. Step(s, t) /\ InOrder(s, t)
  BY <1>1, <1>4 DEF Good, Step, InOrder, Inessential, Wanted, Selected,
    stoppingSession, Closing
<1>6. Good(s, t)
  BY <1>4, <1>5 DEF Good
<1>. QED BY <1>6 DEF t, u

-----------------------------------------------------------------------------
(* The session has the parts of the window. *)
LEMMA SessionParts ==
  /\ Session.window = window /\ Session.client = client
  /\ Session.process = process /\ Session.bridge = bridge
  /\ Session.preview = preview /\ Session.again = FALSE
BY DEF Session

(* A record with the same parts is as good. *)
LEMMA SamePartsGood ==
  ASSUME NEW s, NEW n, Good(s, n)
  PROVE  Good(s, [window |-> n.window, client |-> n.client,
                  process |-> n.process, bridge |-> n.bridge,
                  preview |-> n.preview, again |-> FALSE])
<1>. DEFINE t == [window |-> n.window, client |-> n.client,
                  process |-> n.process, bridge |-> n.bridge,
                  preview |-> n.preview, again |-> FALSE]
<1>0. n \in Sessions /\ Safe(n) /\ Calm(n) /\ Agrees(n)
  BY DEF Good, Safe
<1>1. /\ t.window = n.window /\ t.client = n.client
      /\ t.process = n.process /\ t.bridge = n.bridge
      /\ t.preview = n.preview
  OBVIOUS
<1>2. t \in Sessions
  BY <1>0 DEF Sessions
<1>. SUFFICES Good(s, t)
  OBVIOUS
<1>. HIDE DEF t
<1>3. Safe(t) /\ Calm(t)
  <2>1. Inessential(n, t)
    BY <1>0, <1>1 DEF Inessential, Agrees
  <2>. QED BY <1>0, <1>2, <2>1, InessentialSafe
<1>4. Step(s, t)
  BY <1>1 DEF Good, Step, Wanted
<1>5. AllQuiet(n) => AllQuiet(t)
  BY <1>1 DEF AllQuiet, recordingActiveOrPending, effectiveRecordingState,
    effectiveOperationState, selectedStreamRecording, verificationActive,
    Selected, ownsRunningProcess, Closing
<1>6. InOrder(s, t)
  BY <1>1, <1>5 DEF Good, InOrder
<1>. QED BY <1>3, <1>4, <1>6 DEF Good

(* The variables are the parts of the session. *)
LEMMA SessionBecomesParts ==
  ASSUME NEW n, SessionBecomes(n)
  PROVE  /\ ~Session.window.finalizing
         /\ Session' = [window |-> n.window, client |-> n.client,
                        process |-> n.process, bridge |-> n.bridge,
                        preview |-> n.preview, again |-> FALSE]
BY DEF SessionBecomes, Session

(* See SessionBecomesParts. *)
LEMMA BecomesParts ==
  ASSUME NEW n, Becomes(n)
  PROVE  /\ ~Session.window.finalizing
         /\ Session' = [window |-> n.window, client |-> n.client,
                        process |-> n.process, bridge |-> n.bridge,
                        preview |-> n.preview, again |-> FALSE]
BY SessionBecomesParts DEF Becomes

(* An action becomes what its slot makes of the session. *)
LEMMA BecomesGood ==
  ASSUME NEW n, SessionBecomes(n), Good(Session, n)
  PROVE  Good(Session, Session')
BY SessionBecomesParts, SamePartsGood

(* The inductive invariant, of the variables. *)
Invariant == Safe(Session) /\ Calm(Session)

(* The window as it is constructed. *)
LEMMA ConstructedParts ==
  ASSUME NEW every \in Modes
  PROVE  LET c == Constructed(every) IN
         /\ c \in Sessions /\ c.window.every = every
         /\ c.window.sequence = "None" /\ ~c.window.pendingStart
         /\ ~c.window.pendingStop /\ ~c.window.stopRequested
         /\ c.window.verification = "None" /\ ~c.window.probe
         /\ ~c.window.finalizing
         /\ c.client.connection = "Disconnected"
         /\ c.client.socket = "Closed" /\ c.client.recording = "Unknown"
         /\ c.client.operation = "Idle" /\ c.client.batch = "None"
         /\ ~c.client.startMay /\ ~c.client.shutdown
         /\ c.process.kind = "None" /\ c.process.os = "NotRunning"
         /\ ~c.bridge.stop /\ c.preview.worker = "None"
<1>. DEFINE c == Constructed(every)
<1>1. every \in BOOLEAN
  BY WindowAssumption
<1>2. /\ c.window \in Windows /\ c.client \in Clients
      /\ c.process \in Processes /\ c.bridge \in Bridges
      /\ c.preview \in Previews
  BY <1>1 DEF Constructed, Windows, Clients, Processes, Bridges, Previews,
    Batches, Operations, Lifecycles
<1>3. c \in Sessions
  BY <1>2 DEF Constructed, Sessions
<1>. QED BY <1>3 DEF Constructed

(* The invariant holds then. *)
LEMMA InitGood == Init => Invariant
<1>. SUFFICES ASSUME NEW every \in Modes,
                     LET s == beginLabRecorderStartup(Constructed(every))
                     IN  /\ window = s.window /\ client = s.client
                         /\ process = s.process /\ bridge = s.bridge
                         /\ preview = s.preview
              PROVE  Invariant
  BY DEF Init
<1>. DEFINE c == Constructed(every)
            s == beginLabRecorderStartup(c)
<1>1. /\ c \in Sessions /\ c.window.every = every
      /\ c.window.sequence = "None" /\ ~c.window.pendingStart
      /\ ~c.window.pendingStop /\ ~c.window.stopRequested
      /\ c.window.verification = "None" /\ ~c.window.probe
      /\ ~c.window.finalizing
      /\ c.client.connection = "Disconnected"
      /\ c.client.socket = "Closed" /\ c.client.recording = "Unknown"
      /\ c.client.operation = "Idle" /\ c.client.batch = "None"
      /\ ~c.client.startMay /\ ~c.client.shutdown
      /\ c.process.kind = "None" /\ c.process.os = "NotRunning"
      /\ ~c.bridge.stop /\ c.preview.worker = "None"
  BY ConstructedParts
<1>. HIDE DEF c
<1>2. Agrees(c)
  BY <1>1, SMTT(30) DEF Sessions, Windows, Clients, Processes, Bridges,
    Previews, Batches, Operations, Lifecycles, Agrees
<1>3. Sound(c) /\ CutIsKnown(c) /\ Calm(c)
  BY <1>1 DEF Sound, FreshStart, FileIsAlone, Settled, Backed, ClosedSafely,
    CutIsKnown, Calm, StopIsOnItsWay
<1>4. /\ ~recordingActiveOrPending(c) /\ ~Selected(c) /\ ~Closing(c)
      /\ ~stoppingSession(c)
  BY <1>1 DEF recordingActiveOrPending, effectiveRecordingState,
    effectiveOperationState, desiredRecordingState
<1>5. Good(c, s)
  <2>1. CASE every
    <3>1. Safe(c)
      BY <1>1, <1>2, <1>3, <1>4, <2>1 DEF Safe, LocalIsQuiet
    <3>. QED BY <1>1, <1>3, <2>1, <3>1, NearReflexive,
           beginLabRecorderStartupStep DEF Good
  <2>2. CASE ~every
    BY <1>1, <1>2, <1>3, <1>4, <2>2, NearReflexive, WithoutRemote
  <2>. QED BY <2>1, <2>2
<1>. HIDE DEF s
<1>6. Session = [window |-> s.window, client |-> s.client,
                 process |-> s.process, bridge |-> s.bridge,
                 preview |-> s.preview, again |-> FALSE]
  BY DEF Session, s, c
<1>7. Good(c, Session)
  BY <1>5, <1>6, SamePartsGood
<1>. QED BY <1>7 DEF Good, Invariant

(* What every step does.  Only the stop of the bridge by hand may come out *)
(* of the order of Stop Session.                                           *)
GoodStep ==
  /\ Safe(Session') /\ Calm(Session') /\ Step(Session, Session')
  /\ ClickStopStreaming \/ InOrder(Session, Session')

(* An action is a good step if its slot is one. *)
LEMMA SessionBecomesStep ==
  ASSUME NEW n, SessionBecomes(n), Good(Session, n)
  PROVE  GoodStep
BY BecomesGood DEF Good, GoodStep

(* See SessionBecomesStep. *)
LEMMA BecomesStep ==
  ASSUME NEW n, Becomes(n), Good(Session, n)
  PROVE  GoodStep
BY SessionBecomesStep DEF Becomes

(* The user stops the bridge by hand. *)
LEMMA ClickStopStreamingStep ==
  ASSUME Invariant, ClickStopStreaming
  PROVE  GoodStep
<1>. DEFINE n == onStop(Session)
            t == [window |-> n.window, client |-> n.client,
                  process |-> n.process, bridge |-> n.bridge,
                  preview |-> n.preview, again |-> FALSE]
<1>1. Session' = t
  BY BecomesParts DEF ClickStopStreaming
<1>2. Safe(n) /\ Calm(n) /\ Step(Session, n)
  BY StopStreamingSafe DEF Invariant
<1>. HIDE DEF n
<1>3. /\ t.window = n.window /\ t.client = n.client
      /\ t.process = n.process /\ t.bridge = n.bridge
      /\ t.preview = n.preview
  OBVIOUS
<1>4. t \in Sessions
  BY <1>2 DEF Safe, Sessions
<1>. HIDE DEF t
<1>5. Safe(t) /\ Calm(t)
  <2>1. Inessential(n, t)
    BY <1>2, <1>3 DEF Inessential, Safe, Agrees
  <2>. QED BY <1>2, <1>4, <2>1, InessentialSafe
<1>6. Step(Session, t)
  BY <1>2, <1>3 DEF Step, Wanted
<1>. QED BY <1>1, <1>5, <1>6 DEF GoodStep

(* What the user does. *)
LEMMA ClicksStep ==
  ASSUME Invariant, ~kindLeft', Clicks
  PROVE  GoodStep
<1>0. Safe(Session) /\ Calm(Session)
  BY DEF Invariant
<1>1. CASE ClickStartStreaming
  BY <1>0, <1>1, StartStreamingGood, BecomesStep DEF ClickStartStreaming
<1>2. CASE ClickStopStreaming
  BY <1>2, ClickStopStreamingStep
<1>3. CASE ClickStartPreview
  BY <1>0, <1>3, StartPreviewGood, BecomesStep DEF ClickStartPreview
<1>4. CASE ClickStopPreview
  BY <1>0, <1>4, StartPreviewGood, BecomesStep DEF ClickStopPreview
<1>5. CASE ClickConnect
  BY <1>0, <1>5, ConnectGood, BecomesStep DEF ClickConnect
<1>6. CASE ClickDetach
  BY <1>0, <1>6, BecomesParts, DetachGood, BecomesStep DEF ClickDetach
<1>7. CASE ClickLaunch
  <2>. DEFINE n == launchConfiguredRecorder(
                     [Session EXCEPT !.window.attempted = FALSE])
  <2>1. Becomes(n) /\ Session.client.connection # "Connected"
    BY <1>7, SessionParts DEF ClickLaunch
  <2>2. Good(Session, n)
    BY <1>0, <2>1, BecomesParts, LaunchGood
  <2>. QED BY <2>1, <2>2, BecomesStep
<1>8. CASE ClickRefresh
  BY <1>0, <1>8, BecomesParts, BatchGood, BecomesStep DEF ClickRefresh
<1>9. CASE ClickDiscover
  BY <1>0, <1>9, DiscoverGood, BecomesStep DEF ClickDiscover
<1>10. CASE ClickStartRecording
  BY <1>0, <1>10, BecomesParts, StartClickGood, BecomesStep
    DEF ClickStartRecording
<1>11. CASE ClickStopRecording
  BY <1>0, <1>11, BecomesParts, StopClickGood, BecomesStep
    DEF ClickStopRecording
<1>12. CASE onStartSession
  <2>. DEFINE n == pumpSession(
                     [Session EXCEPT !.window.sequence = "StartingSession",
                                     !.window.guided = FALSE,
                                     !.window.stopRequested = FALSE])
  <2>1. /\ Becomes(n) /\ Session.window.sequence = "None"
        /\ ~recordingActiveOrPending(Session) /\ ~verificationActive(Session)
    BY <1>12, SessionParts DEF onStartSession
  <2>2. Good(Session, n)
    BY <1>0, <2>1, BecomesParts, StartSessionGood
  <2>. QED BY <2>1, <2>2, BecomesStep
<1>13. CASE onStopSession
  <2>. DEFINE u == StoppingSession(Session)
  <2>1. /\ ~stoppingSession(Session) /\ ~Closing(Session)
        /\ \/ Becomes(pumpSession(u))
           \/ Becomes(pumpSession(disconnectFromServer(u)))
    BY <1>13 DEF onStopSession, StoppingSession
  <2>. HIDE DEF u
  <2>2. ~Session.window.finalizing
    BY <2>1, BecomesParts
  <2>3. /\ Good(Session, pumpSession(u))
        /\ Good(Session, pumpSession(disconnectFromServer(u)))
    BY <1>0, <2>1, <2>2, StopSessionGood DEF u
  <2>. QED BY <2>1, <2>3, BecomesStep
<1>14. CASE ChangeMode
  <2>. DEFINE n == beginLabRecorderStartup(
                     [Session EXCEPT !.window.every = ~@])
  <2>1. /\ SessionBecomes(n) /\ ~Closing(Session)
        /\ ~recordingActiveOrPending(Session) /\ ~Selected(Session)
        /\ (~Session.window.every) \in Modes
    BY <1>14, SessionParts DEF ChangeMode
  <2>2. Good(Session, n)
    BY <1>0, <2>1, SessionBecomesParts, ChangeModeGood
  <2>. QED BY <2>1, <2>2, SessionBecomesStep
<1>15. CASE EditRecordingFields
  BY <1>0, <1>15, FieldsEditedGood, BecomesStep DEF EditRecordingFields
<1>16. CASE beginClose
  <2>. DEFINE n == updateShutdownStatus(StopParts(
                     [Session EXCEPT !.window.sequence = "Closing",
                                     !.window.pendingStart = FALSE,
                                     !.window.sync = FALSE,
                                     !.window.retry = FALSE]))
  <2>1. Becomes(n) /\ ~Closing(Session)
    BY <1>16 DEF beginClose
  <2>2. Good(Session, n)
    BY <1>0, <2>1, BecomesParts, CloseGood
  <2>. QED BY <2>1, <2>2, BecomesStep
<1>. QED BY <1>1, <1>2, <1>3, <1>4, <1>5, <1>6, <1>7, <1>8, <1>9, <1>10, <1>11,
       <1>12, <1>13, <1>14, <1>15, <1>16 DEF Clicks

(* What comes from the recorder and its program. *)
LEMMA RecorderEventsStep ==
  ASSUME Invariant, RecorderEvents
  PROVE  GoodStep
<1>0. Safe(Session) /\ Calm(Session)
  BY DEF Invariant
<1>1. CASE Connects
  BY <1>0, <1>1, SessionParts, BecomesParts, ConnectedGood, BecomesStep
    DEF Connects
<1>2. CASE ConnectFails
  BY <1>0, <1>2, BecomesParts, ConnectionFailsGood, BecomesStep
    DEF ConnectFails
<1>3. CASE ConnectionLost
  BY <1>0, <1>3, BecomesParts, ConnectionFailsGood, BecomesStep
    DEF ConnectionLost
<1>4. CASE StartSent
  BY <1>0, <1>4, SessionParts, BecomesParts, StartSentGood, BecomesStep
    DEF StartSent
<1>5. CASE BatchConfirmed
  BY <1>0, <1>5, SessionParts, BatchConfirmedGood, BecomesStep
    DEF BatchConfirmed
<1>6. CASE onStarted
  BY <1>0, <1>6, SessionParts, StartedGood, BecomesStep DEF onStarted
<1>7. CASE onError
  <2>. DEFINE n == pumpSession([Session EXCEPT !.process.os = "NotRunning",
                                               !.process.state = "LaunchFailed"])
  <2>1. Becomes(n) /\ Session.process.os = "Starting"
    BY <1>7, SessionParts DEF onError
  <2>2. Good(Session, n)
    BY <1>0, <2>1, BecomesParts, LaunchFailedGood
  <2>. QED BY <2>1, <2>2, BecomesStep
<1>8. CASE onFinished
  BY <1>0, <1>8, SessionParts, BecomesParts, FinishedGood, BecomesStep
    DEF onFinished
<1>. QED BY <1>1, <1>2, <1>3, <1>4, <1>5, <1>6, <1>7, <1>8 DEF RecorderEvents

(* What comes from the bridge. *)
LEMMA BridgeEventsStep ==
  ASSUME Invariant,
         \/ BridgeStarted \/ onWorkerFinished
         \/ \E state \in {"Streaming", "Other"} : onStatusUpdate(state)
         \/ \E lifecycle \in {"Stopped", "Failed"} : BridgeEnded(lifecycle)
  PROVE  GoodStep
<1>0. /\ Safe(Session) /\ Calm(Session)
      /\ Session \in Sessions /\ Agrees(Session)
  BY DEF Invariant, Safe
<1>1. ASSUME NEW u \in Sessions,
             u.window = Session.window, u.client = Session.client,
             u.process = Session.process, u.preview = Session.preview,
             u.bridge.stop => Session.bridge.stop /\ u.bridge.thread # "None",
             Becomes(u) \/ Becomes(pumpSession(u))
      PROVE  GoodStep
  BY <1>0, <1>1, WorkerGood, BecomesStep
<1>2. CASE BridgeStarted
  <2>. DEFINE r == [Session EXCEPT !.bridge.thread = "Running"]
              u == [r EXCEPT !.bridge.lifecycle = "Starting"]
  <2>1. Becomes(r) \/ Becomes(pumpSession(u))
    BY <1>2 DEF BridgeStarted
  <2>2. /\ r \in Sessions /\ r.window = Session.window
        /\ r.client = Session.client /\ r.process = Session.process
        /\ r.preview = Session.preview
        /\ r.bridge.stop = Session.bridge.stop /\ r.bridge.thread = "Running"
    BY <1>0 DEF Sessions, Bridges
  <2>. HIDE DEF r
  <2>3. /\ u \in Sessions /\ u.window = Session.window
        /\ u.client = Session.client /\ u.process = Session.process
        /\ u.preview = Session.preview
        /\ u.bridge.stop = Session.bridge.stop /\ u.bridge.thread = "Running"
    BY <2>2 DEF Sessions, Bridges, Lifecycles
  <2>. HIDE DEF u
  <2>. QED BY <1>1, <2>1, <2>2, <2>3
<1>3. CASE onWorkerFinished
  <2>. DEFINE u == [Session EXCEPT !.bridge.thread = "None",
                      !.bridge.stop = FALSE,
                      !.bridge.lifecycle =
                        IF @ = "Failed" THEN @ ELSE "Stopped"]
  <2>1. Becomes(pumpSession(u))
    BY <1>3 DEF onWorkerFinished
  <2>2. /\ u \in Sessions /\ u.window = Session.window
        /\ u.client = Session.client /\ u.process = Session.process
        /\ u.preview = Session.preview /\ ~u.bridge.stop
    BY <1>0 DEF Sessions, Bridges, Lifecycles
  <2>. HIDE DEF u
  <2>. QED BY <1>1, <2>1, <2>2
<1>4. ASSUME NEW state \in {"Streaming", "Other"}, onStatusUpdate(state)
      PROVE  GoodStep
  <2>. DEFINE u == [Session EXCEPT !.bridge.lifecycle = BridgeState(state)]
  <2>1. Becomes(pumpSession(Session)) \/ Becomes(pumpSession(u))
    BY <1>4 DEF onStatusUpdate
  <2>2. /\ u \in Sessions /\ u.window = Session.window
        /\ u.client = Session.client /\ u.process = Session.process
        /\ u.preview = Session.preview
        /\ u.bridge.stop = Session.bridge.stop
        /\ u.bridge.thread = Session.bridge.thread
    BY <1>0 DEF Sessions, Bridges, Lifecycles, BridgeState
  <2>. HIDE DEF u
  <2>3. Session.bridge.stop => Session.bridge.thread # "None"
    BY <1>0 DEF Agrees
  <2>. QED BY <1>0, <1>1, <2>1, <2>2, <2>3
<1>5. ASSUME NEW lifecycle \in {"Stopped", "Failed"}, BridgeEnded(lifecycle)
      PROVE  GoodStep
  <2>. DEFINE u == [Session EXCEPT !.bridge.thread = "Ended",
                                   !.bridge.lifecycle = lifecycle]
  <2>1. Becomes(pumpSession(u))
    BY <1>5 DEF BridgeEnded
  <2>2. /\ u \in Sessions /\ u.window = Session.window
        /\ u.client = Session.client /\ u.process = Session.process
        /\ u.preview = Session.preview
        /\ u.bridge.stop = Session.bridge.stop /\ u.bridge.thread = "Ended"
    BY <1>0 DEF Sessions, Bridges, Lifecycles
  <2>. HIDE DEF u
  <2>. QED BY <1>1, <2>1, <2>2
<1>. QED BY <1>2, <1>3, <1>4, <1>5

(* What comes from the preview. *)
LEMMA PreviewEventsStep ==
  ASSUME Invariant, PreviewReported \/ PreviewFinished
  PROVE  GoodStep
<1>0. /\ Safe(Session) /\ Calm(Session)
      /\ Session \in Sessions /\ Agrees(Session)
  BY DEF Invariant, Safe
<1>1. ASSUME NEW u \in Sessions,
             u.window = Session.window, u.client = Session.client,
             u.process = Session.process, u.bridge = Session.bridge,
             u.preview.worker # "None" => Session.preview.worker # "None",
             Becomes(pumpSession(u))
      PROVE  GoodStep
  <2>1. u.bridge.stop => Session.bridge.stop /\ u.bridge.thread # "None"
    BY <1>0, <1>1 DEF Agrees
  <2>. QED BY <1>0, <1>1, <2>1, WorkerGood, BecomesStep
<1>2. CASE PreviewReported
  <2>. DEFINE u == [Session EXCEPT
                      !.preview.told = @ + 1,
                      !.preview.lifecycle = PreviewReports[preview.told + 1]]
  <2>1. Becomes(pumpSession(u))
    BY <1>2 DEF PreviewReported
  <2>2. Session.preview.told \in 0 .. 3 /\ preview.told \in 0 .. 3
    BY <1>0, <1>2, SessionParts DEF PreviewReported, Sessions, Previews
  <2>3. /\ u \in Sessions /\ u.window = Session.window
        /\ u.client = Session.client /\ u.process = Session.process
        /\ u.bridge = Session.bridge
        /\ u.preview.worker = Session.preview.worker
    <3>. DEFINE lifecycle == PreviewReports[preview.told + 1]
                told == Session.preview.told + 1
                v == [Session EXCEPT !.preview.told = told]
                w == [v EXCEPT !.preview.lifecycle = lifecycle]
    <3>1. lifecycle \in Lifecycles
      BY <2>2 DEF PreviewReports, Lifecycles
    <3>2. told \in 0 .. 4
      BY <2>2
    <3>3. u = w
      OBVIOUS
    <3>. HIDE DEF lifecycle, told
    <3>4. /\ v \in Sessions /\ v.window = Session.window
          /\ v.client = Session.client /\ v.process = Session.process
          /\ v.bridge = Session.bridge
          /\ v.preview.worker = Session.preview.worker
      BY <1>0, <3>2 DEF Sessions, Previews
    <3>. HIDE DEF v
    <3>5. /\ w \in Sessions /\ w.window = Session.window
          /\ w.client = Session.client /\ w.process = Session.process
          /\ w.bridge = Session.bridge
          /\ w.preview.worker = Session.preview.worker
      BY <3>1, <3>4 DEF Sessions, Previews
    <3>. HIDE DEF u, w
    <3>. QED BY <3>3, <3>5
  <2>. HIDE DEF u
  <2>. QED BY <1>1, <2>1, <2>3
<1>3. CASE PreviewFinished
  <2>. DEFINE u == [Session EXCEPT
                      !.preview = [worker |-> "None", told |-> 0,
                                   lifecycle |-> "Stopped"]]
  <2>1. Becomes(pumpSession(u))
    BY <1>3 DEF PreviewFinished
  <2>2. /\ u \in Sessions /\ u.window = Session.window
        /\ u.client = Session.client /\ u.process = Session.process
        /\ u.bridge = Session.bridge /\ u.preview.worker = "None"
    BY <1>0 DEF Sessions, Previews, Lifecycles
  <2>. HIDE DEF u
  <2>. QED BY <1>1, <2>1, <2>2
<1>. QED BY <1>2, <1>3

(* What comes from any worker thread. *)
LEMMA WorkerEventsStep ==
  ASSUME Invariant, WorkerEvents
  PROVE  GoodStep
<1>0. Safe(Session) /\ Calm(Session)
  BY DEF Invariant
<1>1. ASSUME NEW check \in {"Passed", "Blocked"}, NEW launch \in Launches,
             DiscoveryFinished(check, launch)
      PROVE  GoodStep
  <2>. DEFINE n == DiscoveryDone(Session, check, launch)
  <2>1. Becomes(n)
    BY <1>1, SessionParts DEF DiscoveryFinished, DiscoveryDone
  <2>. HIDE DEF n
  <2>2. ~Session.window.finalizing
    BY <2>1, BecomesParts
  <2>3. Good(Session, n)
    BY <1>0, <2>2, DiscoveryGood DEF n
  <2>. QED BY <2>1, <2>3, BecomesStep
<1>2. CASE onVerificationFilePoll
  <2>. DEFINE n == [Session EXCEPT !.window.verification = "Checking"]
              f == finishVerification(Session, "None")
  <2>1. (Becomes(n) \/ Becomes(f)) /\ Session.window.verification = "Waiting"
    BY <1>2, SessionParts DEF onVerificationFilePoll
  <2>2. Good(Session, n)
    BY <1>0, <2>1, CheckGood
  <2>. HIDE DEF n, f
  <2>3. ~Session.window.finalizing
    BY <2>1, BecomesParts
  <2>4. Good(Session, f)
    BY <1>0, <2>1, <2>3, VerificationGood DEF f, verificationActive
  <2>. QED BY <2>1, <2>2, <2>4, BecomesStep
<1>3. CASE VerifierReports
  <2>. DEFINE f == finishVerification(Session, "Reported")
  <2>1. Becomes(f) /\ Session.window.verification = "Checking"
    BY <1>3, SessionParts DEF VerifierReports
  <2>. HIDE DEF f
  <2>2. ~Session.window.finalizing
    BY <2>1, BecomesParts
  <2>3. Good(Session, f)
    BY <1>0, <2>1, <2>2, VerificationGood DEF f, verificationActive
  <2>. QED BY <2>1, <2>3, BecomesStep
<1>4. CASE VerifierFinished
  <2>. DEFINE n == pumpSession([Session EXCEPT !.window.verification = "None"])
  <2>1. Becomes(n) /\ Session.window.verification = "Reported"
    BY <1>4, SessionParts DEF VerifierFinished
  <2>2. Good(Session, n)
    BY <1>0, <2>1, BecomesParts, CheckDoneGood
  <2>. QED BY <2>1, <2>2, BecomesStep
<1>. QED BY <1>1, <1>2, <1>3, <1>4, BridgeEventsStep, PreviewEventsStep
       DEF WorkerEvents, AnyDiscoveryFinished

(* The timers of the window. *)
LEMMA TimersStep ==
  ASSUME Invariant, Timers
  PROVE  GoodStep
<1>0. Safe(Session) /\ Calm(Session)
  BY DEF Invariant
<1>1. CASE FilenameSync
  <2>. DEFINE u == [Session EXCEPT !.window.sync = FALSE]
              b == beginBatch(u, "UpdatingFilename")
  <2>1. Becomes(u) \/ Becomes(b)
    BY <1>1 DEF FilenameSync
  <2>2. ~Session.window.finalizing
    <3>. HIDE DEF u, b
    <3>. QED BY <2>1, BecomesParts
  <2>3. Good(Session, u) /\ Good(Session, b)
    BY <1>0, <2>2, FieldsEditedGood, FilenameGood
  <2>. HIDE DEF u, b
  <2>. QED BY <2>1, <2>3, BecomesStep
<1>2. ASSUME NEW expired \in BOOLEAN, RetryTick(expired)
      PROVE  GoodStep
  BY <1>0, <1>2, RetryGood, BecomesStep DEF RetryTick
<1>3. CASE Heartbeat
  BY <1>0, <1>3, HeartbeatGood, BecomesStep DEF Heartbeat
<1>4. CASE ClosePoll
  BY <1>0, <1>4, ClosePollGood, BecomesStep DEF ClosePoll
<1>5. CASE StopDeadline
  BY <1>0, <1>5, DeadlineGood, BecomesStep DEF StopDeadline
<1>. QED BY <1>1, <1>2, <1>3, <1>4, <1>5 DEF Timers

(* Every action is a good step, but for the change of the mode while the   *)
(* kind of a program that failed to start is left.                         *)
LEMMA NextStep ==
  ASSUME Invariant, ~kindLeft', Next
  PROVE  GoodStep
BY ClicksStep, RecorderEventsStep, WorkerEventsStep, TimersStep DEF Next

-----------------------------------------------------------------------------
(* The invariant is inductive. *)
LEMMA InvariantKept ==
  ASSUME Invariant, ~kindLeft', [Next]_vars
  PROVE  Invariant'
<1>1. CASE Next
  BY <1>1, NextStep DEF GoodStep, Invariant
<1>2. CASE UNCHANGED vars
  <2>1. Session' = Session
    BY <1>2 DEF vars, Session
  <2>. QED BY <2>1 DEF Invariant
<1>. QED BY <1>1, <1>2

(* That the mode was changed then stays known. *)
LEMMA LeftStaysKnown == ASSUME kindLeft, Next PROVE kindLeft'
<1>1. CASE Clicks
  BY <1>1 DEF Clicks, Becomes, ClickStartStreaming, ClickStopStreaming,
    ClickStartPreview, ClickStopPreview, ClickConnect, ClickDetach, ClickLaunch,
    ClickRefresh, ClickDiscover, ClickStartRecording, ClickStopRecording,
    onStartSession, onStopSession, ChangeMode, EditRecordingFields, beginClose
<1>2. CASE RecorderEvents
  BY <1>2 DEF RecorderEvents, Becomes, Connects, ConnectFails, ConnectionLost,
    StartSent, BatchConfirmed, onStarted, onError, onFinished
<1>3. CASE WorkerEvents
  BY <1>3 DEF WorkerEvents, Becomes, AnyDiscoveryFinished, DiscoveryFinished,
    onVerificationFilePoll, VerifierReports, VerifierFinished, BridgeStarted,
    onStatusUpdate, BridgeEnded, onWorkerFinished, PreviewReported,
    PreviewFinished
<1>4. CASE Timers
  BY <1>4 DEF Timers, Becomes, FilenameSync, RetryTick, Heartbeat, ClosePoll,
    StopDeadline
<1>. QED BY <1>1, <1>2, <1>3, <1>4 DEF Next

(* So it holds until then. *)
LEMMA InvariantHolds == Spec => [](kindLeft \/ Invariant)
<1>1. ASSUME kindLeft, [Next]_vars PROVE kindLeft'
  <2>1. CASE UNCHANGED vars
    BY <1>1, <2>1 DEF vars
  <2>2. CASE Next
    BY <1>1, <2>2, LeftStaysKnown
  <2>. QED BY <1>1, <2>1, <2>2
<1>2. (kindLeft \/ Invariant) /\ [Next]_vars => (kindLeft \/ Invariant)'
  BY <1>1, InvariantKept
<1>. QED BY <1>2, InitGood, PTL DEF Spec

(* It is stronger than the invariants of the runs. *)
LEMMA InvariantSafe == Invariant => WindowSafe /\ FileCheckedAlone
<1>. SUFFICES ASSUME Invariant PROVE WindowSafe /\ FileCheckedAlone
  OBVIOUS
<1>1. /\ Session \in Sessions /\ Session.window.every \in Modes
      /\ Agrees(Session) /\ Backed(Session) /\ ClosedSafely(Session)
      /\ FileIsAlone(Session)
  BY DEF Invariant, Safe, Sound
<1>2. TypeOK
  <2>1. window \in Windows /\ window.every \in Modes /\ client \in Clients
    BY <1>1, SessionParts DEF Sessions
  <2>2. window \in [sequence : {"None", "StartingSession", "StoppingSession",
                                "Closing"},
                    every : Modes, pendingStart : BOOLEAN,
                    pendingStop : BOOLEAN, stopRequested : BOOLEAN,
                    discovery : {"None", "Running", "Cancelled"},
                    verification : {"None", "Waiting", "Checking", "Reported"},
                    probe : BOOLEAN, retry : BOOLEAN, attempted : BOOLEAN,
                    guided : BOOLEAN, sync : BOOLEAN, deadline : BOOLEAN,
                    endRequested : BOOLEAN, finalizing : BOOLEAN]
    BY <2>1 DEF Windows
  <2>3. client.connection \in {"Disconnected", "Connecting", "Connected",
                               "Error"}
    BY <2>1 DEF Clients
  <2>4. /\ client.connection = "Connected" <=> isConnected(Session)
        /\ process.os = "NotRunning" <=> ~ownsRunningProcess(Session)
    BY <1>1, SessionParts DEF Agrees, ownsRunningProcess
  <2>. QED BY <2>2, <2>3, <2>4 DEF TypeOK
<1>3. ClosesSafely
  BY <1>1, SessionParts DEF ClosesSafely, ClosedSafely
<1>4. StopRequestIsBacked
  BY <1>1, SessionParts DEF StopRequestIsBacked, Backed
<1>5. FileCheckedAlone
  BY <1>1, SessionParts DEF FileCheckedAlone, FileIsAlone,
    selectedStreamRecording, Running
<1>. QED BY <1>2, <1>3, <1>4, <1>5 DEF WindowSafe

(* Until the mode is changed with the kind of a failed program left: the   *)
(* members of the window agree with the client and with the processes, the *)
(* window is closed only when every recording has ended or cannot be       *)
(* reached, and whoever waits for a Stop waits for one that is under way   *)
(* (BridgeWindow and RecorderShutdown).                                    *)
THEOREM WindowIsSafe == Spec => [](kindLeft \/ WindowSafe)
BY InvariantHolds, InvariantSafe, PTL

(* A recorded file is checked only when nothing records or is about to,    *)
(* with the exception that FileCheckedAlone names.                         *)
THEOREM FileIsCheckedAlone == Spec => []FileCheckedAlone
<1>1. kindLeft \/ Invariant => FileCheckedAlone
  BY InvariantSafe DEF FileCheckedAlone
<1>. QED BY <1>1, InvariantHolds, PTL

(* No step drops a Stop that is owed, cuts a program off before its Stop,  *)
(* or begins anything behind the Stop of the session, while the mode is    *)
(* not changed with the kind of a failed program left.                     *)
THEOREM StopRespected == Spec /\ []~kindLeft => StopIsRespected
<1>1. ASSUME Invariant, ~kindLeft', [Next]_vars
      PROVE  /\ [(StopWanted /\ client.startMay /\ client'.startMay
                    /\ window'.sequence # "Closing" /\ ~window'.finalizing)
                   => StopWanted' \/ (kindLeft /\ Selected(Session))]_vars
             /\ [(~process.ending /\ process'.ending) =>
                   (window'.deadline
                      \/ (~client'.startMay /\ ~Selected(Session)))]_vars
             /\ [window.sequence \in {"StoppingSession", "Closing"} =>
                   /\ (process.os = "NotRunning" => process'.os # "Starting")
                   /\ (client'.batch = "Starting" =>
                         client.batch = "Starting")]_vars
  <2>1. CASE UNCHANGED vars
    BY <2>1
  <2>2. CASE Next
    <3>1. Step(Session, Session')
      BY <1>1, <2>2, NextStep DEF GoodStep
    <3>2. /\ Session'.window = window' /\ Session'.client = client'
          /\ Session'.process = process'
      BY DEF Session
    <3>. QED BY <3>1, <3>2, SessionParts DEF Step, Wanted, StopWanted,
           stoppingSession, Closing
  <2>. QED BY <1>1, <2>1, <2>2
<1>. QED BY <1>1, InvariantHolds, PTL DEF Spec, StopIsRespected, StopIsKept,
       EndsOnlyStopped, NothingStartsAnew

(* Stop Session stops the bridge last, while the mode is not changed with  *)
(* the kind of a failed program left.                                      *)
THEOREM StopGoesInOrder == Spec /\ []~kindLeft => StopsInOrder
<1>1. ASSUME Invariant, ~kindLeft', [Next]_vars
      PROVE  [(window.sequence = "StoppingSession" /\ ~bridge.stop
                 /\ bridge'.stop) =>
                \/ ClickStopStreaming \/ window'.sequence = "Closing"
                \/ /\ preview'.worker = "None"
                   /\ ~recordingActiveOrPending(Session)'
                   /\ ~verificationActive(Session)']_vars
  <2>1. CASE UNCHANGED vars
    BY <2>1
  <2>2. CASE Next
    <3>1. ClickStopStreaming \/ InOrder(Session, Session')
      BY <1>1, <2>2, NextStep DEF GoodStep
    <3>2. /\ Session'.window = window' /\ Session'.bridge = bridge'
          /\ Session'.preview = preview'
      BY DEF Session
    <3>3. /\ recordingActiveOrPending(Session)'
               <=> recordingActiveOrPending(Session')
          /\ verificationActive(Session)' <=> verificationActive(Session')
      OBVIOUS
    <3>. QED BY <3>1, <3>2, <3>3, SessionParts DEF InOrder, AllQuiet,
           stoppingSession
  <2>. QED BY <1>1, <2>1, <2>2
<1>. QED BY <1>1, InvariantHolds, PTL DEF Spec, StopsInOrder
=============================================================================
