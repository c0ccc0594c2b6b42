-------------------------- MODULE LabRecorderClient --------------------------
(***************************************************************************)
(* The remote control of LabRecorder (LabRecorderClient): batches of        *)
(* commands over one TCP connection, one command at a time, each sent after *)
(* the last was answered with OK, and the shutdown that sends a final Stop. *)
(*                                                                         *)
(* A slot of the client runs to its end in the Qt event loop, so that every *)
(* action below is a whole slot with the slots it calls: socket_.abort()    *)
(* runs onDisconnected, which ends the batch, before it returns.            *)
(*                                                                         *)
(* The recorder on the other side is modelled from what the client relies   *)
(* on: it carries out one line after another and answers each; what had     *)
(* been written when a connection goes is carried out or lost by then; and  *)
(* nobody uses the recorder's own buttons.                                  *)
(***************************************************************************)
EXTENDS Integers, SequencesExt

CONSTANTS
  Files,              \* the file names a recording may be asked for
  NoFile              \* no file name

ASSUME RecorderAssumption == NoFile \notin Files

VARIABLES
  client,             \* the LabRecorderClient object
  link,               \* its connection reaches a running recorder
  replies,            \* answered, not yet read: "O", "K", space, or an error
  recorder,           \* the LabRecorder process
  asked               \* the file of the last Start accepted (observed)

vars == <<client, link, replies, recorder, asked>>

Command(name) == [name |-> name, file |-> NoFile]
Filename(file) == [name |-> "filename", file |-> file]

NoBatch == [operation |-> "Idle", commands |-> <<>>, next |-> 1]
Batch(operation, commands) ==
  [operation |-> operation, commands |-> commands, next |-> 1]

(* startRecordingCommands *)
StartCommandsUnnamed(file, selectAll) ==   \* faulty: the name comes too late
  (IF selectAll THEN <<Command("update"), Command("select all")>> ELSE <<>>)
    \o <<Command("start"), Filename(file)>>

StartCommands(file, selectAll) ==
  (IF selectAll THEN <<Command("update"), Command("select all")>> ELSE <<>>)
    \o <<Filename(file), Command("start")>>

-----------------------------------------------------------------------------
(***************************************************************************)
(* The recorder: it sets the file name, starts and stops recording.        *)
(* letGo says that the client was detached from it while it might record.  *)
(***************************************************************************)
Execute(rec, command) ==
  CASE command.name = "filename" -> [rec EXCEPT !.name = command.file]
    [] command.name = "start" /\ ~rec.recording ->
         [rec EXCEPT !.recording = TRUE, !.file = rec.name]
    [] command.name = "stop" ->
         [rec EXCEPT !.recording = FALSE, !.letGo = FALSE]
    [] OTHER -> rec

(***************************************************************************)
(* What is left when the connection goes with these lines in flight: the   *)
(* command of a batch, and after it at most the Stop of a shutdown.        *)
(***************************************************************************)
CarriedOut(rec, sent) ==
  {rec}
    \cup (IF Len(sent) >= 1 THEN {Execute(rec, sent[1])} ELSE {})
    \cup (IF Len(sent) = 2 THEN {Execute(Execute(rec, sent[1]), sent[2])}
          ELSE {})

-----------------------------------------------------------------------------
(***************************************************************************)
(* The client's helpers, as functions from a client to the clients it may  *)
(* become.  The field sent holds the lines accepted by the socket and not  *)
(* yet carried out; Becomes ends them with the connection.                 *)
(***************************************************************************)
(* updateOperationState, without a batch *)
Resting(c) == IF c.shutdown THEN "ShuttingDown" ELSE "Idle"

isConnected(c) == c.connection = "Connected"

(* What the end of a batch leaves, but for the recording state. *)
ClearedKeepsPayload(c) ==      \* faulty: what could not be sent is kept
  [c EXCEPT !.commandTimer = FALSE, !.buffer = <<>>,
            !.batch = NoBatch, !.operation = Resting(c)]

Cleared(c) ==
  [c EXCEPT !.commandTimer = FALSE, !.unsent = "none", !.buffer = <<>>,
            !.batch = NoBatch, !.operation = Resting(c)]

(* The connection is gone: failActiveConnection ("Error") or onDisconnected. *)
LoseConnection(c, connection) ==
  [Cleared(c) EXCEPT !.connection = connection, !.recording = "Unknown",
                     !.connectionTimer = FALSE]

failActiveConnection(c) == LoseConnection(c, "Error")

TimedOutOpen(c) ==             \* faulty: the late answer may still come
  [Cleared(c) EXCEPT !.recording = "Unknown"]

TimedOut(c) == failActiveConnection(c)

MarksNoStart(c) == FALSE       \* faulty: Start counts when it is confirmed

MarksStart(c) ==
  /\ c.batch.operation = "Starting"
  /\ c.batch.commands[c.batch.next].name = "start"

LoadUntimed(c) ==              \* faulty: the timer only runs for the first
  IF c.unsent = "none"
  THEN [c EXCEPT !.unsent = "all", !.buffer = <<>>,
                 !.commandTimer = (c.batch.next = 1)]
  ELSE c

Load(c) ==
  IF c.unsent = "none"
  THEN [c EXCEPT !.unsent = "all", !.buffer = <<>>, !.commandTimer = TRUE]
  ELSE c

(***************************************************************************)
(* writeNextCommand for a command that is there: the socket fails, or      *)
(* accepts nothing, a part, or all of what is still to be sent.            *)
(***************************************************************************)
Write(c) ==
  LET loaded == Load(c)
      marked == [loaded EXCEPT !.startMay = @ \/ MarksStart(c)]
  IN  {failActiveConnection(loaded), loaded,
       [marked EXCEPT !.unsent = "rest"],
       [marked EXCEPT !.unsent = "none",
                      !.sent = Append(@, c.batch.commands[c.batch.next])]}

beginBatch(c, operation, commands) ==
  Write([c EXCEPT !.batch = Batch(operation, commands), !.unsent = "none",
                  !.buffer = <<>>, !.operation = operation])

continueShutdownKnown(c) ==    \* faulty: forgets a start not confirmed
  IF c.shutdown /\ c.recording = "Recording"
  THEN IF isConnected(c)
       THEN beginBatch(c, "Stopping", <<Command("stop")>>)
       ELSE {[c EXCEPT !.recording = "Unknown", !.operation = Resting(c)]}
  ELSE {[c EXCEPT !.operation = Resting(c)]}

(* continueShutdown, without a batch *)
continueShutdown(c) ==
  IF c.shutdown /\ (c.startMay \/ c.recording = "Recording")
  THEN IF isConnected(c)
       THEN beginBatch(c, "Stopping", <<Command("stop")>>)
       ELSE {[c EXCEPT !.recording = "Unknown", !.operation = Resting(c)]}
  ELSE {[c EXCEPT !.operation = Resting(c)]}

Outcome(c) ==
  CASE c.batch.operation = "Starting" -> "Recording"
    [] c.batch.operation = "Stopping" -> "Stopped"
    [] OTHER -> c.recording

finishActiveBatch(c, ok) ==
  continueShutdown(
    [Cleared(c) EXCEPT
       !.recording = IF ok THEN Outcome(c) ELSE "Unknown",
       !.startMay = @ /\ ~(ok /\ c.batch.operation = "Stopping")])

FinishedEarly(batch) ==        \* faulty: off by one
  batch.next >= Len(batch.commands)

Finished(batch) ==
  batch.next > Len(batch.commands)

writeNextCommand(c) ==
  IF Finished(c.batch) THEN finishActiveBatch(c, TRUE) ELSE Write(c)

-----------------------------------------------------------------------------
Init ==
  /\ client = [connection |-> "Disconnected", recording |-> "Unknown",
               operation |-> "Idle", shutdown |-> FALSE, startMay |-> FALSE,
               batch |-> NoBatch, unsent |-> "none", sent |-> <<>>,
               buffer |-> <<>>, commandTimer |-> FALSE,
               connectionTimer |-> FALSE]
  /\ link = FALSE
  /\ replies = <<>>
  /\ recorder = [recording |-> FALSE, name |-> NoFile, file |-> NoFile,
                 letGo |-> FALSE]
  /\ asked = NoFile

(***************************************************************************)
(* The client becomes c and the replies not yet read become rest.  When it *)
(* no longer is connected, the lines in flight are carried out, a prefix   *)
(* of them, or lost, and so are the answers.                               *)
(***************************************************************************)
Becomes(c, rest) ==
  IF isConnected(c)
  THEN /\ client' = c
       /\ replies' = rest
       /\ UNCHANGED <<link, recorder>>
  ELSE /\ client' = [c EXCEPT !.sent = <<>>]
       /\ replies' = <<>>
       /\ link' = FALSE
       /\ \E after \in IF link THEN CarriedOut(recorder, c.sent) ELSE {recorder} :
            recorder' = [after EXCEPT
              !.letGo = @ \/ (client.startMay /\ ~c.startMay)]

-----------------------------------------------------------------------------
(* The operations of the client that are not refused. *)
connectToServer ==
  /\ ~client.shutdown
  /\ client.batch = NoBatch
  /\ client.connection \in {"Connected", "Connecting"}
       => ~client.startMay /\ client.recording # "Recording"
  /\ Becomes([LoseConnection(client, "Connecting")
                EXCEPT !.connectionTimer = TRUE], <<>>)
  /\ UNCHANGED asked

disconnectFromServer ==
  /\ \E c \in IF client.batch = NoBatch THEN {client}
              ELSE finishActiveBatch(client, FALSE) :
       Becomes([LoseConnection(c, "Disconnected") EXCEPT !.startMay = FALSE],
               <<>>)
  /\ UNCHANGED asked

MayBegin ==
  ~client.shutdown /\ client.batch = NoBatch /\ isConnected(client)

Begin(operation, commands) ==
  /\ MayBegin
  /\ \E c \in beginBatch(client, operation, commands) : Becomes(c, replies)

refreshStreams ==
  Begin("Refreshing", <<Command("update")>>) /\ UNCHANGED asked

updateFilename(file) ==
  /\ client.recording # "Recording"
  /\ Begin("UpdatingFilename", <<Filename(file)>>)
  /\ UNCHANGED asked

startRecording(file, selectAll) ==
  /\ ~client.startMay
  /\ client.recording # "Recording"
  /\ Begin("Starting", StartCommands(file, selectAll))
  /\ asked' = file

stopRecording ==
  Begin("Stopping", <<Command("stop")>>) /\ UNCHANGED asked

beginShutdown ==
  /\ ~client.shutdown
  /\ LET closing == [client EXCEPT !.shutdown = TRUE]
     IN  \E c \in IF client.batch # NoBatch THEN {closing}
                  ELSE continueShutdown(closing) :
           Becomes(c, replies)
  /\ UNCHANGED asked

-----------------------------------------------------------------------------
(* The slots of the socket and of the timers. *)
onConnected ==
  /\ client.connection = "Connecting"
  /\ client' = [client EXCEPT !.connection = "Connected",
                              !.recording = "Unknown",
                              !.connectionTimer = FALSE]
  /\ link' = TRUE
  /\ UNCHANGED <<replies, recorder, asked>>

onDisconnected ==
  /\ isConnected(client)
  /\ ~link
  /\ Becomes(LoseConnection(client, "Disconnected"), <<>>)
  /\ UNCHANGED asked

onSocketError ==
  /\ \/ client.connection = "Connecting"
     \/ isConnected(client) /\ ~link
  /\ Becomes(failActiveConnection(client), <<>>)
  /\ UNCHANGED asked

onBytesWritten ==
  /\ isConnected(client)
  /\ client.unsent # "none"
  /\ \E c \in Write(client) : Becomes(c, replies)
  /\ UNCHANGED asked

(* The leading space of the buffer is dropped before OK is looked for. *)
Stripped(buffer) ==
  LET blank == {n \in 0..Len(buffer) :
                  \A i \in 1..n : buffer[i] = "space"}
  IN  SubSeq(buffer, Cardinality(blank), Len(buffer))

onReadyRead ==
  /\ isConnected(client)
  /\ \E n \in 1..Len(replies) :
       LET rest == SubSeq(replies, n + 1, Len(replies))
           all == client.buffer \o SubSeq(replies, 1, n)
           text == Stripped(all)
       IN  IF client.batch = NoBatch \/ client.unsent # "none"
           THEN Becomes([client EXCEPT !.buffer = all], rest)
           ELSE IF Len(text) < 2
           THEN Becomes([client EXCEPT !.buffer = text], rest)
           ELSE IF SubSeq(text, 1, 2) # <<"O", "K">>
           THEN Becomes(failActiveConnection(client), rest)
           ELSE \E c \in writeNextCommand(
                           [client EXCEPT !.commandTimer = FALSE,
                                          !.buffer = SubSeq(text, 3, Len(text)),
                                          !.batch.next = @ + 1]) :
                  Becomes(c, rest)
  /\ UNCHANGED asked

onConnectionTimeout ==
  /\ client.connectionTimer
  /\ client.connection = "Connecting"
  /\ Becomes(failActiveConnection(client), <<>>)
  /\ UNCHANGED asked

onCommandTimeout ==
  /\ client.commandTimer
  /\ client.batch # NoBatch
  /\ Becomes(TimedOut(client), replies)
  /\ UNCHANGED asked

-----------------------------------------------------------------------------
(* The recorder and the network. *)
RecorderAnswers ==
  /\ link
  /\ client.sent # <<>>
  /\ client' = [client EXCEPT !.sent = Tail(@)]
  /\ \/ /\ recorder' = Execute(recorder, Head(client.sent))
        /\ replies' = replies \o <<"O", "K", "space">>
     \/ /\ recorder' \in {recorder, Execute(recorder, Head(client.sent))}
        /\ replies' = replies \o <<"E", "R">>
  /\ UNCHANGED <<link, asked>>

LinkLost ==
  /\ link
  /\ link' = FALSE
  /\ UNCHANGED <<client, replies, recorder, asked>>

RecorderDies ==
  /\ link \/ recorder.recording
  /\ link' = FALSE
  /\ recorder' = [recorder EXCEPT !.recording = FALSE, !.name = NoFile,
                                  !.letGo = FALSE]
  /\ UNCHANGED <<client, replies, asked>>

Operations ==
  \/ connectToServer \/ disconnectFromServer \/ refreshStreams
  \/ \E file \in Files :
       updateFilename(file) \/ \E all \in BOOLEAN : startRecording(file, all)
  \/ stopRecording \/ beginShutdown

Slots ==
  \/ onConnected \/ onDisconnected \/ onSocketError \/ onBytesWritten
  \/ onReadyRead \/ onConnectionTimeout \/ onCommandTimeout

Next == Operations \/ Slots \/ RecorderAnswers \/ LinkLost \/ RecorderDies

Spec == Init /\ [][Next]_vars

(* Only the timer of a command is relied on to fire in the end. *)
FairSpec == Spec /\ WF_vars(onCommandTimeout)

-----------------------------------------------------------------------------
Commands ==
  {Command(name) : name \in {"update", "select all", "start", "stop"}}
    \cup {Filename(file) : file \in Files}
Operating == {"Refreshing", "UpdatingFilename", "Starting", "Stopping"}
Tokens == {"O", "K", "space", "E", "R"}

Batches ==
  [operation : Operating \cup {"Idle"}, commands : Seq(Commands), next : Nat]

Clients ==
  [connection : {"Disconnected", "Connecting", "Connected", "Error"},
   recording : {"Unknown", "Recording", "Stopped"},
   operation : Operating \cup {"Idle", "ShuttingDown"},
   shutdown : BOOLEAN, startMay : BOOLEAN,
   batch : Batches, unsent : {"none", "rest", "all"}, sent : Seq(Commands),
   buffer : Seq(Tokens), commandTimer : BOOLEAN, connectionTimer : BOOLEAN]

Recorders ==
  [recording : BOOLEAN, name : Files \cup {NoFile},
   file : Files \cup {NoFile}, letGo : BOOLEAN]

(***************************************************************************)
(* The types of the client and of what travels on its connection.          *)
(***************************************************************************)
Typed ==
  /\ client \in Clients
  /\ link \in BOOLEAN
  /\ replies \in Seq(Tokens)
  /\ recorder \in Recorders
  /\ asked \in Files \cup {NoFile}

(* No more is kept than one line sent and the answer to it.                *)
TypeOK ==
  /\ Typed
  /\ client.batch = NoBatch \/ client.batch.next \in 1..Len(client.batch.commands)
  /\ Len(client.sent) <= 1
  /\ Len(client.buffer) <= 3 /\ Len(replies) <= 4

(***************************************************************************)
(* While the connection lives, a confirmed state is the recorder's state,  *)
(* unless the opposite is being asked for just now.                        *)
(***************************************************************************)
ConfirmedStateIsTrue ==
  isConnected(client) /\ link =>
    /\ client.recording = "Recording" /\ client.batch.operation # "Stopping"
         => recorder.recording
    /\ client.recording = "Stopped" /\ client.batch.operation # "Starting"
         => ~recorder.recording

(***************************************************************************)
(* A recording that the client may have started is never forgotten, over   *)
(* failed batches, lost connections and new ones, until it is known to     *)
(* have stopped or the user detaches.  So shutdownSettledSafely is true    *)
(* only when nothing records any more.                                     *)
(***************************************************************************)
StartIsRemembered ==
  /\ recorder.recording \/ Contains(client.sent, Command("start"))
       => client.startMay \/ recorder.letGo
  /\ client.recording = "Recording" => client.startMay

(***************************************************************************)
(* No line is sent while the answer to an earlier one may still come, so   *)
(* that an OK always confirms the command the client waits for.            *)
(***************************************************************************)
OneUnansweredCommand ==
  client.sent # <<>> => ~Contains(replies, "K") /\ ~Contains(replies, "E")

(***************************************************************************)
(* What holds of the connection at any moment: the batch, the line on the  *)
(* way and the buffers have their shape, and no answer can be mistaken.    *)
(***************************************************************************)
ConnectionSafe == TypeOK /\ OneUnansweredCommand

(***************************************************************************)
(* Outside a batch nothing is left to be written and no timer runs that    *)
(* could fail a later command; inside one the client is connected.         *)
(***************************************************************************)
NothingLeftBehind ==
  IF client.batch = NoBatch
  THEN client.unsent = "none" /\ ~client.commandTimer /\ client.sent = <<>>
  ELSE isConnected(client) /\ client.operation = client.batch.operation

(***************************************************************************)
(* The recorder never starts to record to another file than the last Start *)
(* asked for, although name and Start are separate commands that each may  *)
(* fail, time out or be cut off with the connection.                       *)
(***************************************************************************)
RecordsAskedFile ==
  [][~recorder.recording /\ recorder'.recording
       => recorder'.file = asked]_vars

(***************************************************************************)
(* Seen from the window the client is the abstract RecorderControl: its    *)
(* batches, partial writes, replies and timers add nothing to it, and take *)
(* nothing of its promise away.                                            *)
(***************************************************************************)
Control == INSTANCE RecorderControl WITH
  connection <- client.connection,
  recording <- client.recording,
  operation <- client.operation,
  startMay <- client.startMay,
  closing <- client.shutdown,
  linked <- link,
  recorder <- [recording |-> recorder.recording, letGo |-> recorder.letGo]

ImplementsControl == Control!Spec

(***************************************************************************)
(* Every batch ends, whatever the recorder and the network do: nothing     *)
(* waits for ever, and a close that waits for the recorder goes on.        *)
(***************************************************************************)
BatchEnds == client.batch # NoBatch ~> client.batch = NoBatch
=============================================================================
