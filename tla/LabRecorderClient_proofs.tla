---------------------- MODULE LabRecorderClient_proofs ----------------------
(***************************************************************************)
(* The remote control client implements RecorderControl, for every set of  *)
(* file names: one inductive invariant ties the batch, what was sent of it *)
(* and the answers still to be read to what the recorder does.  Two more   *)
(* say what can travel on the connection (no answer is mistaken) and what  *)
(* the recorder was told of the file (no other one is recorded).           *)
(***************************************************************************)
EXTENDS LabRecorderClient, FiniteSetTheorems, SequenceTheorems, TLAPS

(* What the commands of a batch are, as far as starting and stopping goes. *)
Shape(batch) ==
  /\ batch.operation \in Operating
  /\ batch.next \in 1..Len(batch.commands)
  /\ batch.operation = "Stopping" => batch.commands = <<Command("stop")>>
  /\ batch.operation # "Stopping" =>
       \A i \in 1..Len(batch.commands) :
         /\ batch.commands[i].name # "stop"
         /\ batch.commands[i].name = "start"
              <=> batch.operation = "Starting" /\ i = Len(batch.commands)

(* Between batches: nothing to be written and no timer. *)
Rested(c) ==
  /\ c.batch = NoBatch
  /\ c.unsent = "none"
  /\ ~c.commandTimer
  /\ c.operation = Resting(c)

(* In a batch: a start that may have been sent, even in part, is noted. *)
Working(c) ==
  /\ c.batch # NoBatch
  /\ Shape(c.batch)
  /\ c.connection = "Connected"
  /\ c.operation = c.batch.operation
  /\ MarksStart(c) /\ c.unsent # "all" => c.startMay

(* At most the current command of the batch has been sent. *)
SentOK(c) ==
  \/ c.sent = <<>>
  \/ /\ c.batch # NoBatch
     /\ c.unsent = "none"
     /\ c.sent = <<c.batch.commands[c.batch.next]>>

-----------------------------------------------------------------------------
(***************************************************************************)
(* The helpers of the client, field by field.  Lost: the connection is     *)
(* gone, and all that is kept is whether a start may have been sent.       *)
(***************************************************************************)
Lost(c, d, connection) ==
  /\ d \in Clients
  /\ Rested(d)
  /\ d.connection = connection
  /\ d.recording = "Unknown"
  /\ d.shutdown = c.shutdown
  /\ d.startMay = c.startMay
  /\ d.sent = c.sent
  /\ d.buffer = <<>>

(* No batch is of the type of a batch. *)
LEMMA NoBatchTyped == NoBatch \in Batches
  BY DEF NoBatch, Batches

(* The end of a batch, as one change of the client. *)
LEMMA ClearedForm ==
  ASSUME NEW c \in Clients
  PROVE  Cleared(c) = [c EXCEPT !.commandTimer = FALSE, !.unsent = "none",
                                !.buffer = <<>>, !.batch = NoBatch,
                                !.operation = Resting(c)]
  BY Zenon DEF Cleared

(* LoseConnection loses the connection, whichever way it is lost. *)
LEMMA LoseForm ==
  ASSUME NEW c \in Clients,
         NEW connection \in {"Disconnected", "Connecting", "Error"}
  PROVE  Lost(c, LoseConnection(c, connection), connection)
<1> DEFINE d == LoseConnection(c, connection)
<1>1. d = [c EXCEPT !.commandTimer = FALSE, !.unsent = "none",
                    !.buffer = <<>>, !.batch = NoBatch,
                    !.operation = Resting(c), !.connection = connection,
                    !.recording = "Unknown", !.connectionTimer = FALSE]
  BY DEF LoseConnection, Cleared, Clients
<1>2. d \in Clients
  <2>1. Resting(c) \in {"Idle", "ShuttingDown"} /\ <<>> \in Seq(Tokens)
    BY DEF Resting
  <2> QED
    BY <1>1, <2>1, NoBatchTyped DEF Clients
<1>3. /\ d.connection = connection /\ d.recording = "Unknown"
      /\ d.shutdown = c.shutdown /\ d.startMay = c.startMay
      /\ d.sent = c.sent /\ d.buffer = <<>>
      /\ d.batch = NoBatch /\ d.unsent = "none" /\ d.commandTimer = FALSE
      /\ d.operation = Resting(c)
  BY <1>1 DEF Clients
<1>4. Resting(c) = Resting(d)
  BY <1>3, Zenon DEF Resting
<1> QED
  BY <1>2, <1>3, <1>4, Zenon DEF Lost, Rested

(* A client inside a batch, whatever of its command was written. *)
InBatch(c) ==
  /\ c.batch # NoBatch
  /\ Shape(c.batch)
  /\ c.connection = "Connected"
  /\ c.operation = c.batch.operation

(***************************************************************************)
(* writeNextCommand went on: nothing that the window sees has changed, but *)
(* for a start that may now have been sent.                                *)
(***************************************************************************)
Proceeds(c, d) ==
  /\ d \in Clients
  /\ Working(d)
  /\ d.connection = c.connection
  /\ d.recording = c.recording
  /\ d.operation = c.operation
  /\ d.shutdown = c.shutdown
  /\ d.batch = c.batch
  /\ \/ d.startMay = c.startMay
     \/ MarksStart(d) /\ d.startMay = TRUE
  /\ IF d.unsent = "none"
     THEN d.sent = Append(c.sent, d.batch.commands[d.batch.next])
     ELSE d.sent = c.sent
  /\ d.buffer \in {<<>>, c.buffer}

(* Loading a payload touches what is to be sent, the buffer and the timer. *)
LEMMA LoadForm ==
  ASSUME NEW c \in Clients
  PROVE  /\ Load(c) \in Clients
         /\ \A field \in {"connection", "recording", "operation", "shutdown",
                          "startMay", "batch", "sent"} :
              Load(c)[field] = c[field]
         /\ Load(c).unsent = IF c.unsent = "none" THEN "all" ELSE c.unsent
         /\ Load(c).buffer \in {<<>>, c.buffer}
<1>1. CASE c.unsent = "none"
  <2>1. Load(c) = [c EXCEPT !.unsent = "all", !.buffer = <<>>,
                            !.commandTimer = TRUE]
    BY <1>1, Zenon DEF Load
  <2>2. <<>> \in Seq(Tokens)
    OBVIOUS
  <2> QED
    BY <1>1, <2>1, <2>2 DEF Clients
<1>2. CASE c.unsent # "none"
  BY <1>2 DEF Load
<1> QED
  BY <1>1, <1>2

(* The next command of a batch is a command. *)
LEMMA CurrentTyped ==
  ASSUME NEW c \in Clients, InBatch(c)
  PROVE  c.batch.commands[c.batch.next] \in Commands
<1>1. c.batch.commands \in Seq(Commands)
  BY DEF Clients, Batches
<1>2. c.batch.next \in 1..Len(c.batch.commands)
  BY Zenon DEF InBatch, Shape
<1> QED
  BY <1>1, <1>2

(* Writing a command goes on in the batch or ends the connection. *)
LEMMA WriteForm ==
  ASSUME NEW c \in Clients, InBatch(c),
         c.unsent = "rest" /\ MarksStart(c) => c.startMay,
         NEW d \in Write(c)
  PROVE  Lost(c, d, "Error") \/ Proceeds(c, d)
<1> DEFINE loaded == Load(c)
           marked == [loaded EXCEPT !.startMay = @ \/ MarksStart(c)]
           command == c.batch.commands[c.batch.next]
<1>1. /\ loaded \in Clients
      /\ loaded.connection = c.connection /\ loaded.recording = c.recording
      /\ loaded.operation = c.operation /\ loaded.shutdown = c.shutdown
      /\ loaded.startMay = c.startMay /\ loaded.batch = c.batch
      /\ loaded.sent = c.sent
      /\ loaded.unsent = IF c.unsent = "none" THEN "all" ELSE c.unsent
      /\ loaded.buffer \in {<<>>, c.buffer}
  BY LoadForm, Zenon
<1>2. CASE d = failActiveConnection(loaded)
  <2>1. Lost(loaded, d, "Error")
    BY <1>1, <1>2, LoseForm, Zenon DEF failActiveConnection
  <2> QED
    BY <1>1, <2>1, Zenon DEF Lost
<1>3. CASE d = loaded
  BY <1>1, <1>3, Zenon DEF Proceeds, Working, InBatch, MarksStart, Clients
<1>4. /\ marked \in Clients
      /\ marked.connection = c.connection /\ marked.recording = c.recording
      /\ marked.operation = c.operation /\ marked.shutdown = c.shutdown
      /\ marked.startMay = (c.startMay \/ MarksStart(c))
      /\ marked.batch = c.batch /\ marked.sent = c.sent
      /\ marked.buffer \in {<<>>, c.buffer}
  <2>1. marked = [loaded EXCEPT !.startMay = c.startMay \/ MarksStart(c)]
    BY <1>1
  <2>2. (c.startMay \/ MarksStart(c)) \in BOOLEAN
    OBVIOUS
  <2> HIDE DEF marked, loaded
  <2> QED
    BY <1>1, <2>1, <2>2 DEF Clients
<1>5. c.startMay \in BOOLEAN /\ marked.startMay \in BOOLEAN
  BY <1>4 DEF Clients
<1>6. /\ marked.startMay = c.startMay
         \/ (MarksStart(c) /\ marked.startMay = TRUE)
      /\ MarksStart(c) => marked.startMay
  BY <1>4, <1>5, Zenon DEF InBatch, MarksStart
<1> HIDE DEF marked, loaded, command
<1>7. CASE d = [marked EXCEPT !.unsent = "rest"]
  <2>1. d \in Clients /\ d.unsent = "rest"
    BY <1>4, <1>7 DEF Clients
  <2>2. /\ d.connection = marked.connection /\ d.recording = marked.recording
        /\ d.operation = marked.operation /\ d.shutdown = marked.shutdown
        /\ d.startMay = marked.startMay /\ d.batch = marked.batch
        /\ d.sent = marked.sent /\ d.buffer = marked.buffer
    BY <1>4, <1>7 DEF Clients
  <2> QED
    BY <1>4, <1>6, <2>1, <2>2, Zenon
       DEF Proceeds, Working, InBatch, MarksStart
<1>8. CASE d = [marked EXCEPT !.unsent = "none", !.sent = Append(@, command)]
  <2> DEFINE lines == Append(c.sent, command)
  <2>1. lines \in Seq(Commands)
    BY CurrentTyped DEF command, Clients
  <2>2. d = [marked EXCEPT !.unsent = "none", !.sent = lines]
    BY <1>4, <1>8 DEF Clients
  <2> HIDE DEF lines
  <2>3. d \in Clients /\ d.unsent = "none" /\ d.sent = lines
    BY <1>4, <2>1, <2>2 DEF Clients
  <2>4. /\ d.connection = marked.connection /\ d.recording = marked.recording
        /\ d.operation = marked.operation /\ d.shutdown = marked.shutdown
        /\ d.startMay = marked.startMay /\ d.batch = marked.batch
        /\ d.buffer = marked.buffer
    BY <1>4, <2>2 DEF Clients
  <2> QED
    BY <1>4, <1>6, <2>3, <2>4, Zenon
       DEF lines, Proceeds, Working, InBatch, MarksStart, command
<1> QED
  BY <1>2, <1>3, <1>7, <1>8, Zenon DEF Write, loaded, marked, command
(***************************************************************************)
(* beginBatch: the batch is there and its first command was written, in    *)
(* part, or not yet.                                                       *)
(***************************************************************************)
Began(c, d, operation) ==
  /\ d \in Clients
  /\ Working(d)
  /\ d.operation = operation
  /\ d.connection = c.connection
  /\ d.recording = c.recording
  /\ d.shutdown = c.shutdown
  /\ d.startMay = c.startMay
  /\ d.batch.next = 1
  /\ IF d.unsent = "none"
     THEN d.sent = Append(c.sent, d.batch.commands[1])
     ELSE d.sent = c.sent
  /\ d.buffer = <<>>

(* beginBatch begins a batch or ends the connection. *)
LEMMA BeginForm ==
  ASSUME NEW c \in Clients, c.connection = "Connected",
         NEW operation \in Operating, NEW commands \in Seq(Commands),
         Shape(Batch(operation, commands)),
         operation = "Starting" => Len(commands) > 1,
         NEW d \in beginBatch(c, operation, commands)
  PROVE  Lost(c, d, "Error") \/ Began(c, d, operation)
<1> DEFINE b == Batch(operation, commands)
           e == [c EXCEPT !.batch = b, !.unsent = "none", !.buffer = <<>>,
                          !.operation = operation]
<1>1. /\ b \in Batches /\ b # NoBatch
      /\ b.operation = operation /\ b.commands = commands /\ b.next = 1
  BY DEF Batch, Batches, NoBatch, Operating
<1>2. <<>> \in Seq(Tokens)
  OBVIOUS
<1> HIDE DEF b
<1>3. /\ e \in Clients
      /\ e.batch = b /\ e.unsent = "none" /\ e.buffer = <<>>
      /\ e.operation = operation /\ e.connection = c.connection
      /\ e.recording = c.recording /\ e.shutdown = c.shutdown
      /\ e.startMay = c.startMay /\ e.sent = c.sent
  BY <1>1, <1>2 DEF Clients
<1>4. d \in Write(e)
  BY Zenon DEF beginBatch, b
<1> HIDE DEF e
<1>5. InBatch(e)
  BY <1>1, <1>3, Zenon DEF InBatch, b
<1>6. Lost(e, d, "Error") \/ Proceeds(e, d)
  BY <1>3, <1>4, <1>5, WriteForm
<1>7. CASE Lost(e, d, "Error")
  BY <1>3, <1>7, Zenon DEF Lost
<1>8. CASE Proceeds(e, d)
  <2>1. ~MarksStart(d)
    <3>1. d.batch = b
      BY <1>3, <1>8, Zenon DEF Proceeds
    <3>2. CASE operation = "Starting"
      <4>1. commands[1].name # "start"
        BY <1>1, <3>2 DEF Shape, b
      <4> QED
        BY <1>1, <3>1, <4>1, Zenon DEF MarksStart
    <3>3. CASE operation # "Starting"
      BY <1>1, <3>1, <3>3, Zenon DEF MarksStart
    <3> QED
      BY <3>2, <3>3
  <2>2. d.batch.next = 1
    BY <1>1, <1>3, <1>8, Zenon DEF Proceeds
  <2> QED
    BY <1>3, <1>8, <2>1, <2>2, Zenon DEF Proceeds, Began
<1> QED
  BY <1>6, <1>7, <1>8
-----------------------------------------------------------------------------
(* A client without a batch that goes on with nothing. *)
Settled(c, d, recording) ==
  /\ d \in Clients
  /\ Rested(d)
  /\ d.connection = c.connection
  /\ d.recording = recording
  /\ d.shutdown = c.shutdown
  /\ d.startMay = c.startMay
  /\ d.sent = c.sent
  /\ d.buffer = c.buffer

Owed(c) == c.startMay \/ c.recording = "Recording"

(* The batch that stops a recording has its shape. *)
LEMMA StopShape ==
  /\ <<Command("stop")>> \in Seq(Commands)
  /\ Shape(Batch("Stopping", <<Command("stop")>>))
<1>1. <<Command("stop")>> \in Seq(Commands)
  BY DEF Commands
<1> DEFINE lines == <<Command("stop")>>
<1>2. Len(lines) = 1
  OBVIOUS
<1> HIDE DEF lines
<1>3. Shape(Batch("Stopping", lines))
  BY <1>2 DEF Shape, Batch, Operating, lines
<1> QED
  BY <1>1, <1>3 DEF lines

(***************************************************************************)
(* continueShutdown: the Stop that a shutdown owes is sent if it can be.   *)
(***************************************************************************)
LEMMA ShutdownForm ==
  ASSUME NEW c \in Clients, c.batch = NoBatch, c.unsent = "none",
         ~c.commandTimer, NEW d \in continueShutdown(c)
  PROVE  IF c.shutdown /\ Owed(c)
         THEN IF c.connection = "Connected"
              THEN Lost(c, d, "Error") \/ Began(c, d, "Stopping")
              ELSE Settled(c, d, "Unknown")
         ELSE Settled(c, d, c.recording)
<1> USE DEF Owed
<1>0. Resting(c) \in {"Idle", "ShuttingDown"}
  BY DEF Resting
<1>1. CASE c.shutdown /\ Owed(c) /\ c.connection = "Connected"
  <2>1. d \in beginBatch(c, "Stopping", <<Command("stop")>>)
    BY <1>1, Zenon DEF continueShutdown, isConnected
  <2>2. "Stopping" \in Operating /\ "Stopping" # "Starting"
    BY DEF Operating
  <2> QED
    BY <1>1, <2>1, <2>2, StopShape, BeginForm, Zenon
<1>2. CASE c.shutdown /\ Owed(c) /\ c.connection # "Connected"
  <2>1. d = [c EXCEPT !.recording = "Unknown", !.operation = Resting(c)]
    BY <1>2, Zenon DEF continueShutdown, isConnected
  <2>2. /\ d \in Clients
        /\ d.connection = c.connection /\ d.recording = "Unknown"
        /\ d.shutdown = c.shutdown /\ d.startMay = c.startMay
        /\ d.sent = c.sent /\ d.buffer = c.buffer /\ d.batch = c.batch
        /\ d.unsent = c.unsent /\ d.commandTimer = c.commandTimer
        /\ d.operation = Resting(c)
    BY <1>0, <2>1 DEF Clients
  <2>3. Resting(d) = Resting(c)
    BY <2>2, Zenon DEF Resting
  <2> QED
    BY <1>2, <2>2, <2>3, Zenon DEF Settled, Rested
<1>3. CASE ~(c.shutdown /\ Owed(c))
  <2>1. d = [c EXCEPT !.operation = Resting(c)]
    BY <1>3, Zenon DEF continueShutdown
  <2>2. /\ d \in Clients
        /\ d.connection = c.connection /\ d.recording = c.recording
        /\ d.shutdown = c.shutdown /\ d.startMay = c.startMay
        /\ d.sent = c.sent /\ d.buffer = c.buffer /\ d.batch = c.batch
        /\ d.unsent = c.unsent /\ d.commandTimer = c.commandTimer
        /\ d.operation = Resting(c)
    BY <1>0, <2>1 DEF Clients
  <2>3. Resting(d) = Resting(c)
    BY <2>2, Zenon DEF Resting
  <2> QED
    BY <1>3, <2>2, <2>3, Zenon DEF Settled, Rested
<1> QED
  BY <1>1, <1>2, <1>3, Zenon

(* finishActiveBatch, up to its call of continueShutdown. *)
Finish(c, ok) ==
  [Cleared(c) EXCEPT
     !.recording = IF ok THEN Outcome(c) ELSE "Unknown",
     !.startMay = @ /\ ~(ok /\ c.batch.operation = "Stopping")]

(* The end of a batch, field by field. *)
LEMMA FinishForm ==
  ASSUME NEW c \in Clients, NEW ok \in BOOLEAN
  PROVE  LET e == Finish(c, ok)
         IN  /\ e \in Clients
             /\ e.connection = c.connection
             /\ e.recording = (IF ok THEN Outcome(c) ELSE "Unknown")
             /\ e.startMay = (c.startMay /\ ~(ok /\ c.batch.operation = "Stopping"))
             /\ e.shutdown = c.shutdown /\ e.sent = c.sent
             /\ e.batch = NoBatch /\ e.unsent = "none" /\ e.buffer = <<>>
             /\ e.commandTimer = FALSE
<1> DEFINE recording == IF ok THEN Outcome(c) ELSE "Unknown"
           may == c.startMay /\ ~(ok /\ c.batch.operation = "Stopping")
           e == Finish(c, ok)
<1>1. /\ recording \in {"Unknown", "Recording", "Stopped"}
      /\ may \in BOOLEAN
      /\ Resting(c) \in {"Idle", "ShuttingDown"}
      /\ <<>> \in Seq(Tokens)
  BY DEF Outcome, Clients, Resting
<1>2. e = [c EXCEPT !.commandTimer = FALSE, !.unsent = "none", !.buffer = <<>>,
                    !.batch = NoBatch, !.operation = Resting(c),
                    !.recording = recording, !.startMay = may]
  BY DEF Finish, Cleared, Clients
<1> HIDE DEF recording, may, e
<1>3. /\ e \in Clients
      /\ e.connection = c.connection /\ e.recording = recording
      /\ e.startMay = may /\ e.shutdown = c.shutdown /\ e.sent = c.sent
      /\ e.batch = NoBatch /\ e.unsent = "none" /\ e.buffer = <<>>
      /\ e.commandTimer = FALSE
  BY <1>1, <1>2, NoBatchTyped DEF Clients
<1> QED
  BY <1>3, Zenon DEF recording, may, e
-----------------------------------------------------------------------------
(***************************************************************************)
(* The inductive invariant.  An OK is to be read only while the batch      *)
(* waits for the answer to a command that the recorder has carried out:    *)
(* then there is one, and what it confirms is so.                          *)
(***************************************************************************)
Silent(tokens) == \A i \in 1..Len(tokens) : tokens[i] # "O"

Single(tokens) ==
  \A i, j \in 1..Len(tokens) : tokens[i] = "O" /\ tokens[j] = "O" => i = j

Quiet == Silent(client.buffer) /\ Silent(replies)

Answered ==
  /\ client.batch # NoBatch
  /\ client.unsent = "none"
  /\ client.sent = <<>>

OneAnswer ==
  /\ Silent(client.buffer) \/ Silent(replies)
  /\ Single(client.buffer)
  /\ Single(replies)

AnswerIsTrue ==
  /\ client.batch.operation = "Stopping" => ~recorder.recording
  /\ MarksStart(client) /\ link => recorder.recording

AnswersOK ==
  /\ Answered \/ Quiet
  /\ OneAnswer
  /\ Quiet \/ AnswerIsTrue

Inv ==
  /\ Typed
  /\ Rested(client) \/ Working(client)
  /\ SentOK(client)
  /\ link => client.connection = "Connected"
  /\ AnswersOK

-----------------------------------------------------------------------------
(* What the window can tell of a recorder. *)
View(rec) == [recording |-> rec.recording, letGo |-> rec.letGo]

(* What a command does to the recorder is what its operation is for. *)
LEMMA ExecuteForm ==
  ASSUME Inv, client.batch # NoBatch, client.unsent = "none",
         NEW after,
         after = Execute(recorder, client.batch.commands[client.batch.next])
  PROVE  after \in Recorders /\ View(after) \in Control!Effects
<1> DEFINE command == client.batch.commands[client.batch.next]
<1>1. /\ Working(client) /\ InBatch(client)
      /\ client \in Clients /\ recorder \in Recorders
  BY Zenon DEF Inv, Rested, Working, InBatch, Typed
<1>2. command \in Commands /\ command.file \in Files \cup {NoFile}
  <2>1. command \in Commands
    BY <1>1, CurrentTyped
  <2> HIDE DEF command
  <2>2. ASSUME NEW name, command = Command(name)
        PROVE  command.file = NoFile
    BY <2>2 DEF Command
  <2>3. ASSUME NEW file \in Files, command = Filename(file)
        PROVE  command.file = file
    BY <2>3 DEF Filename
  <2>4. \/ \E name : command = Command(name)
        \/ \E file \in Files : command = Filename(file)
    BY <2>1, Zenon DEF Commands
  <2>5. command.file \in Files \cup {NoFile}
    BY <2>2, <2>3, <2>4
  <2> QED
    BY <2>1, <2>5
<1>3. client.batch.next \in 1..Len(client.batch.commands)
  BY <1>1, Zenon DEF Working, Shape
<1>4. command.name = "start" => client.operation = "Starting" /\ client.startMay
  BY <1>1, <1>3 DEF Working, Shape, MarksStart, Command
<1>5. command.name = "stop" => client.operation = "Stopping"
  BY <1>1, <1>3 DEF Working, Shape
<1> HIDE DEF command
<1>6. CASE after = recorder
  BY <1>1, <1>6 DEF View, Control!Effects
<1>7. CASE command.name = "filename" /\ after = [recorder EXCEPT !.name = command.file]
  <2>1. after \in Recorders /\ View(after) = View(recorder)
    BY <1>1, <1>2, <1>7 DEF Recorders, View
  <2> QED
    BY <2>1, Zenon DEF View, Control!Effects
<1>8. CASE command.name = "start"
           /\ after = [recorder EXCEPT !.recording = TRUE, !.file = recorder.name]
  <2>1. after \in Recorders
    BY <1>1, <1>8 DEF Recorders
  <2>2. after.recording = TRUE /\ after.letGo = recorder.letGo
    BY <1>1, <1>8 DEF Recorders
  <2>3. View(after) = [recording |-> TRUE, letGo |-> recorder.letGo]
    BY <2>2, Zenon DEF View
  <2>4. View(recorder).letGo = recorder.letGo
    BY DEF View
  <2> QED
    BY <1>4, <1>8, <2>1, <2>3, <2>4, Zenon DEF View, Control!Effects
<1>9. CASE command.name = "stop"
           /\ after = [recorder EXCEPT !.recording = FALSE, !.letGo = FALSE]
  <2>1. after \in Recorders /\ View(after) = [recording |-> FALSE, letGo |-> FALSE]
    BY <1>1, <1>9 DEF Recorders, View
  <2> QED
    BY <1>5, <1>9, <2>1, Zenon DEF Control!Effects, Control!Halted
<1> QED
  <2>1. after = Execute(recorder, command)
    BY DEF command
  <2>2. \/ after = recorder
        \/ command.name = "filename" /\ after = [recorder EXCEPT !.name = command.file]
        \/ command.name = "start"
           /\ after = [recorder EXCEPT !.recording = TRUE, !.file = recorder.name]
        \/ command.name = "stop"
           /\ after = [recorder EXCEPT !.recording = FALSE, !.letGo = FALSE]
    BY <2>1, Zenon DEF Execute
  <2> QED
    BY <1>6, <1>7, <1>8, <1>9, <2>2, Zenon

(* The lines in flight when the connection goes. *)
LEMMA InFlightForm ==
  ASSUME Inv, NEW after \in CarriedOut(recorder, client.sent)
  PROVE  after \in Recorders /\ View(after) \in Control!Effects
<1>1. recorder \in Recorders /\ View(recorder) \in Control!Effects
  BY Zenon DEF Inv, Typed, View, Control!Effects
<1>2. CASE client.sent = <<>>
  BY <1>1, <1>2 DEF CarriedOut
<1>3. CASE /\ client.batch # NoBatch
           /\ client.unsent = "none"
           /\ client.sent = <<client.batch.commands[client.batch.next]>>
  <2> DEFINE command == client.batch.commands[client.batch.next]
  <2>1. after \in {recorder, Execute(recorder, command)}
    <3> HIDE DEF command
    <3>1. Len(<<command>>) = 1 /\ <<command>>[1] = command
      OBVIOUS
    <3>2. client.sent = <<command>>
      BY <1>3 DEF command
    <3> QED
      BY <3>1, <3>2 DEF CarriedOut
  <2> QED
    BY <1>1, <1>3, <2>1, ExecuteForm
<1> QED
  BY <1>2, <1>3, Zenon DEF Inv, SentOK
-----------------------------------------------------------------------------
(***************************************************************************)
(* Steps.  When the connection goes, lines in flight may be carried out;   *)
(* nothing but the start that may have arrived is left of the batch.       *)
(***************************************************************************)
LEMMA DropForm ==
  ASSUME NEW c \in Clients, c.connection # "Connected", NEW rest, Becomes(c, rest)
  PROVE  /\ client' \in Clients
         /\ client'.sent = <<>>
         /\ \A field \in {"connection", "recording", "operation", "shutdown",
                          "startMay", "batch", "unsent", "buffer",
                          "commandTimer"} : client'[field] = c[field]
         /\ replies' = <<>>
         /\ link' = FALSE
         /\ \E after \in IF link THEN CarriedOut(recorder, c.sent)
                        ELSE {recorder} :
              recorder' = [after EXCEPT
                !.letGo = @ \/ (client.startMay /\ ~c.startMay)]
<1>1. /\ client' = [c EXCEPT !.sent = <<>>]
      /\ replies' = <<>>
      /\ link' = FALSE
      /\ \E after \in IF link THEN CarriedOut(recorder, c.sent)
                     ELSE {recorder} :
           recorder' = [after EXCEPT
             !.letGo = @ \/ (client.startMay /\ ~c.startMay)]
  BY Zenon DEF Becomes, isConnected
<1>2. <<>> \in Seq(Commands)
  OBVIOUS
<1>3. /\ client' \in Clients /\ client'.sent = <<>>
      /\ \A field \in {"connection", "recording", "operation", "shutdown",
                       "startMay", "batch", "unsent", "buffer",
                       "commandTimer"} : client'[field] = c[field]
  BY <1>1, <1>2 DEF Clients
<1> QED
  BY <1>1, <1>3, Zenon

(* Where nothing is, nothing is to be read. *)
LEMMA SilentEmpty == Silent(<<>>) /\ Single(<<>>) /\ <<>> \in Seq(Tokens)
  BY DEF Silent, Single

(* The invariant of a client that was disconnected. *)
LEMMA DroppedInv ==
  ASSUME client' \in Clients, Rested(client'), client'.sent = <<>>,
         client'.buffer = <<>>, replies' = <<>>, link' = FALSE,
         recorder' \in Recorders, asked' \in Files \cup {NoFile}
  PROVE  Inv'
<1>1. AnswersOK'
  BY SilentEmpty, Zenon DEF AnswersOK, Quiet, OneAnswer
<1>2. Typed'
  BY SilentEmpty, Zenon DEF Typed
<1> QED
  BY <1>1, <1>2, Zenon DEF Inv, SentOK

(* After the connection was lost, what records does so as an effect. *)
LEMMA LostRecorder ==
  ASSUME Inv, NEW c \in Clients, c.sent = client.sent,
         c.startMay = client.startMay,
         NEW after \in IF link THEN CarriedOut(recorder, c.sent) ELSE {recorder},
         recorder' = [after EXCEPT
           !.letGo = @ \/ (client.startMay /\ ~c.startMay)]
  PROVE  recorder' \in Recorders /\ View(recorder)' \in Control!Effects
<1>1. after \in Recorders /\ View(after) \in Control!Effects
  <2>1. View(recorder) \in Control!Effects /\ recorder \in Recorders
    BY Zenon DEF Inv, Typed, View, Control!Effects
  <2>2. CASE link
    BY <2>2, InFlightForm
  <2>3. CASE ~link
    BY <2>1, <2>3
  <2> QED
    BY <2>2, <2>3
<1>2. recorder' = after
  BY <1>1 DEF Recorders
<1> QED
  BY <1>1, <1>2, Zenon DEF View

(* A connection that is lost is the abstract loss, with what had been sent. *)
LEMMA LostStep ==
  ASSUME Inv, client.connection \in {"Connecting", "Connected"},
         NEW connection \in {"Error", "Disconnected"},
         NEW c, Lost(client, c, connection),
         NEW rest, Becomes(c, rest), asked' \in Files \cup {NoFile}
  PROVE  Inv' /\ Control!Lose
<1>1. c \in Clients /\ c.connection # "Connected"
  BY Zenon DEF Lost
<1>2. PICK after \in IF link THEN CarriedOut(recorder, c.sent) ELSE {recorder} :
        recorder' = [after EXCEPT
          !.letGo = @ \/ (client.startMay /\ ~c.startMay)]
  BY <1>1, DropForm, Zenon
<1>3. /\ client' \in Clients /\ client'.sent = <<>>
      /\ client'.connection = c.connection /\ client'.recording = c.recording
      /\ client'.operation = c.operation /\ client'.shutdown = c.shutdown
      /\ client'.startMay = c.startMay /\ client'.batch = c.batch
      /\ client'.unsent = c.unsent /\ client'.buffer = c.buffer
      /\ client'.commandTimer = c.commandTimer
      /\ replies' = <<>> /\ link' = FALSE
  BY <1>1, DropForm, Zenon
<1>4. Rested(client')
  BY <1>3, Zenon DEF Lost, Rested, Resting
<1>5. recorder' \in Recorders /\ View(recorder)' \in Control!Effects
  BY <1>1, <1>2, LostRecorder, Zenon DEF Lost
<1>6. Inv'
  BY <1>3, <1>4, <1>5, DroppedInv, Zenon DEF Lost
<1>7. Control!Lose
  BY <1>3, <1>4, <1>5, Zenon DEF Control!Lose, Control!Resting, Lost, Rested,
     Resting, View
<1> QED
  BY <1>6, <1>7

(* connectToServer. *)
LEMMA ConnectStep ==
  ASSUME Inv, connectToServer PROVE Inv' /\ Control!Connect
<1> DEFINE lost == LoseConnection(client, "Connecting")
           c == [lost EXCEPT !.connectionTimer = TRUE]
<1>1. client \in Clients /\ recorder \in Recorders
      /\ asked \in Files \cup {NoFile}
  BY Zenon DEF Inv, Typed
<1>2. Rested(client) /\ client.sent = <<>> /\ ~client.shutdown
  BY Zenon DEF connectToServer, Inv, Working, SentOK
<1>3. Lost(client, lost, "Connecting")
  BY <1>1, LoseForm
<1>4. /\ lost \in Clients /\ Rested(lost)
      /\ lost.connection = "Connecting" /\ lost.recording = "Unknown"
      /\ lost.shutdown = client.shutdown /\ lost.startMay = client.startMay
      /\ lost.sent = client.sent /\ lost.buffer = <<>>
  BY <1>3, Zenon DEF Lost
<1> HIDE DEF lost
<1>5. /\ c \in Clients
      /\ c.connection = lost.connection /\ c.recording = lost.recording
      /\ c.shutdown = lost.shutdown /\ c.startMay = lost.startMay
      /\ c.sent = lost.sent /\ c.buffer = lost.buffer
      /\ c.batch = lost.batch /\ c.unsent = lost.unsent
      /\ c.commandTimer = lost.commandTimer /\ c.operation = lost.operation
  BY <1>4 DEF Clients
<1>6. Becomes(c, <<>>) /\ UNCHANGED asked
  BY Zenon DEF connectToServer, c, lost
<1> HIDE DEF c
<1>7. c.connection # "Connected"
  BY <1>4, <1>5, Zenon
<1>8. /\ client' \in Clients /\ client'.sent = <<>>
      /\ client'.connection = c.connection /\ client'.recording = c.recording
      /\ client'.operation = c.operation /\ client'.shutdown = c.shutdown
      /\ client'.startMay = c.startMay /\ client'.batch = c.batch
      /\ client'.unsent = c.unsent /\ client'.buffer = c.buffer
      /\ client'.commandTimer = c.commandTimer
      /\ replies' = <<>> /\ link' = FALSE
  BY <1>5, <1>6, <1>7, DropForm, Zenon
<1>9. recorder' = recorder
  <2>1. PICK after \in IF link THEN CarriedOut(recorder, c.sent) ELSE {recorder} :
          recorder' = [after EXCEPT
            !.letGo = @ \/ (client.startMay /\ ~c.startMay)]
    BY <1>5, <1>6, <1>7, DropForm, Zenon
  <2>2. c.sent = <<>> /\ c.startMay = client.startMay
    BY <1>2, <1>4, <1>5, Zenon
  <2>3. after = recorder
    BY <2>1, <2>2 DEF CarriedOut
  <2> QED
    BY <1>1, <2>1, <2>2, <2>3 DEF Recorders
<1>10. Rested(client') /\ client'.operation = "Idle"
  BY <1>2, <1>4, <1>5, <1>8, Zenon DEF Rested, Resting
<1>11. Inv'
  BY <1>1, <1>4, <1>5, <1>6, <1>8, <1>9, <1>10, DroppedInv, Zenon
<1>12. client.operation = "Idle"
  BY <1>2, Zenon DEF Rested, Resting
<1>13. client.connection \in {"Connecting", "Connected"}
         => ~Control!Owed(client.startMay, client.recording)
  BY Zenon DEF connectToServer, Control!Owed
<1>14. Control!Connect
  BY <1>2, <1>4, <1>5, <1>8, <1>9, <1>10, <1>12, <1>13, Zenon
     DEF Control!Connect, View
<1> QED
  BY <1>11, <1>14

(* A Stop that is carried out ends a recording and what was let go. *)
LEMMA StopHalts ==
  ASSUME NEW rec \in Recorders
  PROVE  /\ Execute(rec, Command("stop")) \in Recorders
         /\ View(Execute(rec, Command("stop"))) = Control!Halted
<1>1. Command("stop").name = "stop"
  BY DEF Command
<1>2. Execute(rec, Command("stop"))
        = [rec EXCEPT !.recording = FALSE, !.letGo = FALSE]
  BY <1>1 DEF Execute
<1> QED
  BY <1>2 DEF Recorders, View, Control!Halted
(***************************************************************************)
(* What disconnectFromServer makes of a batch before it aborts: a shutdown *)
(* that goes on writes its Stop behind the line that was sent.             *)
(***************************************************************************)
LEMMA AbandonForm ==
  ASSUME Inv,
         NEW c \in IF client.batch = NoBatch THEN {client}
                   ELSE finishActiveBatch(client, FALSE)
  PROVE  /\ c \in Clients
         /\ c.shutdown = client.shutdown
         /\ c.startMay = client.startMay
         /\ \/ c.sent = client.sent
            \/ /\ client.shutdown /\ client.startMay
               /\ c.sent = Append(client.sent, Command("stop"))
<1>1. client \in Clients
  BY Zenon DEF Inv, Typed
<1>2. CASE client.batch = NoBatch
  BY <1>1, <1>2
<1>3. CASE client.batch # NoBatch
  <2> DEFINE e == Finish(client, FALSE)
  <2>1. /\ e \in Clients
        /\ e.connection = client.connection /\ e.recording = "Unknown"
        /\ e.startMay = (client.startMay /\ TRUE)
        /\ e.shutdown = client.shutdown /\ e.sent = client.sent
        /\ e.batch = NoBatch /\ e.unsent = "none" /\ e.commandTimer = FALSE
    BY <1>1, FinishForm, Zenon
  <2>2. e.startMay = client.startMay
    <3>1. client.startMay \in BOOLEAN
      BY <1>1 DEF Clients
    <3> QED
      BY <2>1, <3>1, Zenon
  <2>3. c \in continueShutdown(e)
    BY <1>3, Zenon DEF finishActiveBatch, Finish
  <2> HIDE DEF e
  <2>4. \/ Lost(e, c, "Error")
        \/ Began(e, c, "Stopping") /\ e.shutdown /\ Owed(e)
        \/ Settled(e, c, "Unknown")
    BY <2>1, <2>3, ShutdownForm, Zenon
  <2>5. CASE Began(e, c, "Stopping") /\ e.shutdown /\ Owed(e)
    <3>1. c.batch.commands = <<Command("stop")>>
      BY <2>5, Zenon DEF Began, Working, Shape
    <3>2. c.batch.commands[1] = Command("stop")
      BY <3>1
    <3> QED
      BY <2>1, <2>2, <2>5, <3>2, Zenon DEF Began, Owed
  <2> QED
    BY <2>1, <2>2, <2>4, <2>5, Zenon DEF Lost, Settled
<1> QED
  BY <1>2, <1>3

(* The lines in flight when the user detaches. *)
LEMMA DetachedForm ==
  ASSUME Inv, NEW sent,
         \/ sent = client.sent
         \/ /\ client.shutdown /\ client.startMay
            /\ sent = Append(client.sent, Command("stop")),
         NEW after \in CarriedOut(recorder, sent)
  PROVE  /\ after \in Recorders
         /\ View(after) \in Control!Effects
              \cup (IF client.shutdown /\ client.startMay
                    THEN {Control!Halted} ELSE {})
<1>0. recorder \in Recorders
  BY Zenon DEF Inv, Typed
<1>1. CASE sent = client.sent
  BY <1>1, InFlightForm
<1>2. CASE /\ client.shutdown /\ client.startMay
           /\ sent = Append(client.sent, Command("stop"))
  <2> DEFINE Stop == Command("stop")
  <2>1. PICK rec \in CarriedOut(recorder, client.sent) :
          after = rec \/ after = Execute(rec, Stop)
    <3> HIDE DEF Stop
    <3>1. CASE client.sent = <<>>
      <4>1. Len(sent) = 1 /\ sent[1] = Stop
        BY <1>2, <3>1 DEF Stop
      <4> QED
        BY <3>1, <4>1 DEF CarriedOut
    <3>2. CASE client.sent = <<client.batch.commands[client.batch.next]>>
      <4> DEFINE command == client.batch.commands[client.batch.next]
      <4> HIDE DEF command
      <4>1. client.sent = <<command>>
        BY <3>2 DEF command
      <4>2. sent = Append(client.sent, Stop)
        BY <1>2 DEF Stop
      <4>3. Len(sent) = 2 /\ sent[1] = command /\ sent[2] = Stop
        BY <4>1, <4>2
      <4>4. Len(client.sent) = 1 /\ client.sent[1] = command
        BY <4>1
      <4> QED
        BY <4>3, <4>4 DEF CarriedOut
    <3> QED
      BY <3>1, <3>2, Zenon DEF Inv, SentOK
  <2>2. rec \in Recorders /\ View(rec) \in Control!Effects
    BY InFlightForm
  <2>3. CASE after = Execute(rec, Stop)
    BY <1>2, <2>2, <2>3, StopHalts
  <2> QED
    BY <2>1, <2>2, <2>3
<1> QED
  BY <1>1, <1>2

(* disconnectFromServer. *)
LEMMA DetachStep ==
  ASSUME Inv, disconnectFromServer PROVE Inv' /\ Control!Detach
<1>1. PICK c0 \in IF client.batch = NoBatch THEN {client}
                  ELSE finishActiveBatch(client, FALSE) :
        Becomes([LoseConnection(c0, "Disconnected") EXCEPT !.startMay = FALSE],
                <<>>)
  BY Zenon DEF disconnectFromServer
<1>2. /\ c0 \in Clients
      /\ c0.shutdown = client.shutdown /\ c0.startMay = client.startMay
      /\ \/ c0.sent = client.sent
         \/ /\ client.shutdown /\ client.startMay
            /\ c0.sent = Append(client.sent, Command("stop"))
  BY AbandonForm
<1> DEFINE lost == LoseConnection(c0, "Disconnected")
           c == [lost EXCEPT !.startMay = FALSE]
<1>3. Lost(c0, lost, "Disconnected")
  BY <1>2, LoseForm
<1>4. /\ lost \in Clients /\ Rested(lost)
      /\ lost.connection = "Disconnected" /\ lost.recording = "Unknown"
      /\ lost.shutdown = c0.shutdown
      /\ lost.sent = c0.sent /\ lost.buffer = <<>>
  BY <1>3, Zenon DEF Lost
<1>5. Becomes(c, <<>>)
  BY <1>1, Zenon
<1> HIDE DEF lost
<1>6. /\ c \in Clients /\ c.startMay = FALSE
      /\ c.connection = lost.connection /\ c.recording = lost.recording
      /\ c.shutdown = lost.shutdown
      /\ c.sent = lost.sent /\ c.buffer = lost.buffer
      /\ c.batch = lost.batch /\ c.unsent = lost.unsent
      /\ c.commandTimer = lost.commandTimer /\ c.operation = lost.operation
  BY <1>4 DEF Clients
<1> HIDE DEF c
<1>7. c.connection # "Connected"
  BY <1>4, <1>6, Zenon
<1>8. /\ client' \in Clients /\ client'.sent = <<>>
      /\ client'.connection = c.connection /\ client'.recording = c.recording
      /\ client'.operation = c.operation /\ client'.shutdown = c.shutdown
      /\ client'.startMay = c.startMay /\ client'.batch = c.batch
      /\ client'.unsent = c.unsent /\ client'.buffer = c.buffer
      /\ client'.commandTimer = c.commandTimer
      /\ replies' = <<>> /\ link' = FALSE
  BY <1>5, <1>6, <1>7, DropForm, Zenon
<1>9. PICK after \in IF link THEN CarriedOut(recorder, c.sent) ELSE {recorder} :
        recorder' = [after EXCEPT
          !.letGo = @ \/ (client.startMay /\ ~c.startMay)]
  BY <1>5, <1>6, <1>7, DropForm, Zenon
<1> DEFINE Outcomes == Control!Effects
              \cup (IF client.shutdown /\ client.startMay
                    THEN {Control!Halted} ELSE {})
<1>10. after \in Recorders /\ View(after) \in Outcomes
  <2>1. recorder \in Recorders /\ View(recorder) \in Control!Effects
    BY Zenon DEF Inv, Typed, View, Control!Effects
  <2>2. CASE link
    BY <1>2, <1>4, <1>6, <1>9, <2>2, DetachedForm
  <2>3. CASE ~link
    BY <1>9, <2>1, <2>3
  <2> QED
    BY <2>2, <2>3
<1>11. /\ recorder' \in Recorders
       /\ recorder'.recording = after.recording
       /\ recorder'.letGo = (after.letGo \/ client.startMay)
  <2>1. (client.startMay /\ ~c.startMay) = client.startMay
    <3>1. client.startMay \in BOOLEAN
      BY Zenon DEF Inv, Typed, Clients
    <3> QED
      BY <1>6, <3>1, Zenon
  <2>2. recorder' = [after EXCEPT !.letGo = @ \/ client.startMay]
    BY <1>9, <2>1, Zenon
  <2> QED
    BY <1>10, <2>2 DEF Recorders
<1>12. Rested(client')
  BY <1>4, <1>6, <1>8, Zenon DEF Rested, Resting
<1>13. Inv'
  <2>1. asked' \in Files \cup {NoFile}
    BY Zenon DEF Inv, Typed, disconnectFromServer
  <2> QED
    BY <1>4, <1>6, <1>8, <1>11, <1>12, <2>1, DroppedInv, Zenon
<1>14. View(recorder)' = [recording |-> View(after).recording,
                          letGo |-> View(after).letGo \/ client.startMay]
  <2>1. View(after).recording = after.recording /\ View(after).letGo = after.letGo
    BY DEF View
  <2> QED
    BY <1>11, <2>1, Zenon DEF View
<1>15. Control!Detach
  <2>1. \E view \in Outcomes :
          View(recorder)' = [recording |-> view.recording,
                             letGo |-> view.letGo \/ client.startMay]
    BY <1>10, <1>14
  <2> QED
    BY <1>2, <1>4, <1>6, <1>8, <1>12, <2>1, Zenon
       DEF Control!Detach, Control!Resting, Rested, Resting, View
<1> QED
  BY <1>13, <1>15
-----------------------------------------------------------------------------
(* Nothing can be read while a command is still to be answered. *)
LEMMA SilentIsSingle ==
  ASSUME NEW tokens, Silent(tokens) PROVE Single(tokens)
  BY DEF Silent, Single

(* The invariant of a client that has sent, or sends, a command. *)
LEMMA WorkingInv ==
  ASSUME client' \in Clients, Working(client'), SentOK(client'),
         client'.unsent = "none" => client'.sent # <<>>,
         Silent(client'.buffer), Silent(replies'), replies' \in Seq(Tokens),
         link' \in BOOLEAN, recorder' \in Recorders,
         asked' \in Files \cup {NoFile}
  PROVE  Inv'
<1>1. AnswersOK'
  BY SilentIsSingle, Zenon DEF AnswersOK, Quiet, OneAnswer
<1>2. Typed'
  BY Zenon DEF Typed
<1> QED
  BY <1>1, <1>2, Zenon DEF Inv, Working

(* Without a batch no answer is awaited. *)
LEMMA RestedQuiet ==
  ASSUME Inv, client.batch = NoBatch
  PROVE  /\ Rested(client)
         /\ client.sent = <<>>
         /\ Silent(client.buffer) /\ Silent(replies)
  BY Zenon DEF Inv, Working, SentOK, AnswersOK, Answered, Quiet

(* What becomes of a client that stays connected. *)
LEMMA StaysForm ==
  ASSUME NEW c, c.connection = "Connected", NEW rest, Becomes(c, rest)
  PROVE  client' = c /\ replies' = rest /\ UNCHANGED <<link, recorder>>
  BY Zenon DEF Becomes, isConnected

(* The invariant of a client without a batch. *)
LEMMA RestedInv ==
  ASSUME client' \in Clients, Rested(client'), client'.sent = <<>>,
         Silent(client'.buffer), Silent(replies'), replies' \in Seq(Tokens),
         link' \in BOOLEAN, link' => client'.connection = "Connected",
         recorder' \in Recorders, asked' \in Files \cup {NoFile}
  PROVE  Inv'
<1>1. AnswersOK'
  BY SilentIsSingle, Zenon DEF AnswersOK, Quiet, OneAnswer
<1>2. Typed'
  BY Zenon DEF Typed
<1> QED
  BY <1>1, <1>2, Zenon DEF Inv, SentOK

(* The invariant of a client that has begun a batch. *)
LEMMA BeganInv ==
  ASSUME Inv, NEW c, c.sent = <<>>, NEW operation, Began(c, client', operation),
         replies' \in Seq(Tokens), Silent(replies'),
         UNCHANGED <<link, recorder>>, asked' \in Files \cup {NoFile}
  PROVE  Inv'
<1>1. SentOK(client') /\ (client'.unsent = "none" => client'.sent # <<>>)
  <2>1. CASE client'.unsent = "none"
    <3> DEFINE command == client'.batch.commands[client'.batch.next]
    <3>1. client'.sent = Append(<<>>, command)
      BY <2>1, Zenon DEF Began
    <3> HIDE DEF command
    <3>2. Append(<<>>, command) = <<command>> /\ <<command>> # <<>>
      OBVIOUS
    <3> QED
      BY <2>1, <3>1, <3>2, Zenon DEF SentOK, Began, Working, command
  <2>2. CASE client'.unsent # "none"
    BY <2>2, Zenon DEF SentOK, Began
  <2> QED
    BY <2>1, <2>2
<1> QED
  BY <1>1, WorkingInv, SilentEmpty, Zenon DEF Began, Inv, Typed

(* An operation that was asked for: the abstract request, or a loss. *)
LEMMA BeginStep ==
  ASSUME Inv, NEW operation \in Operating, NEW commands \in Seq(Commands),
         Shape(Batch(operation, commands)),
         operation = "Starting" => Len(commands) > 1,
         Begin(operation, commands), asked' \in Files \cup {NoFile},
         operation = "Starting" => ~Control!Owed(client.startMay, client.recording),
         operation = "UpdatingFilename" => client.recording # "Recording"
  PROVE  Inv' /\ (Control!Request(operation) \/ Control!Lose)
<1>1. PICK c \in beginBatch(client, operation, commands) : Becomes(c, replies)
  BY Zenon DEF Begin
<1>2. /\ ~client.shutdown /\ client.batch = NoBatch
      /\ client.connection = "Connected" /\ client \in Clients
  BY Zenon DEF Begin, MayBegin, isConnected, Inv, Typed
<1>3. Lost(client, c, "Error") \/ Began(client, c, operation)
  BY <1>1, <1>2, BeginForm
<1>4. CASE Lost(client, c, "Error")
  BY <1>1, <1>2, <1>4, LostStep
<1>5. CASE Began(client, c, operation)
  <2>1. client' = c /\ replies' = replies /\ UNCHANGED <<link, recorder>>
    BY <1>1, <1>2, <1>5, StaysForm, Zenon DEF Began
  <2>2. Inv'
    <3>1. /\ client.sent = <<>> /\ Silent(replies)
          /\ replies \in Seq(Tokens)
      BY <1>2, RestedQuiet, Zenon DEF Inv, Typed
    <3> QED
      BY <1>5, <2>1, <3>1, BeganInv, Zenon
  <2>3. client.operation = "Idle"
    BY <1>2, RestedQuiet, Zenon DEF Rested, Resting
  <2>4. View(recorder)' = View(recorder)
    BY <2>1 DEF View
  <2>5. Control!Request(operation)
    BY <1>2, <1>5, <2>1, <2>3, <2>4, Zenon DEF Control!Request, Began, View
  <2> QED
    BY <2>2, <2>5
<1> QED
  BY <1>3, <1>4, <1>5

(* A batch with these lines has its shape. *)
LEMMA ShapeForm ==
  ASSUME NEW operation \in Operating, operation # "Stopping",
         NEW lines \in Seq(Commands), Len(lines) >= 1,
         \A i \in 1..Len(lines) :
           /\ lines[i].name # "stop"
           /\ lines[i].name = "start" <=> operation = "Starting" /\ i = Len(lines)
  PROVE  Shape(Batch(operation, lines))
<1> DEFINE b == Batch(operation, lines)
<1>1. b.operation = operation /\ b.commands = lines /\ b.next = 1
  BY DEF Batch
<1>2. 1 \in 1..Len(lines)
  OBVIOUS
<1> HIDE DEF b
<1>3. Shape(b)
  BY <1>1, <1>2, Zenon DEF Shape
<1> QED
  BY <1>3 DEF b

(* A batch of one command that neither starts nor stops. *)
LEMMA SingleShape ==
  ASSUME NEW operation \in {"Refreshing", "UpdatingFilename"},
         NEW command \in Commands,
         command.name # "start", command.name # "stop"
  PROVE  <<command>> \in Seq(Commands) /\ Shape(Batch(operation, <<command>>))
<1> DEFINE lines == <<command>>
<1>1. lines \in Seq(Commands) /\ Len(lines) = 1 /\ lines[1] = command
  OBVIOUS
<1> HIDE DEF lines
<1>2. \A i \in 1..Len(lines) :
        /\ lines[i].name # "stop"
        /\ lines[i].name = "start" <=> operation = "Starting" /\ i = Len(lines)
  BY <1>1
<1>3. /\ operation \in Operating /\ operation # "Stopping"
      /\ Len(lines) >= 1
  BY <1>1 DEF Operating
<1>4. Shape(Batch(operation, lines))
  BY <1>1, <1>2, <1>3, ShapeForm, Zenon
<1> QED
  BY <1>1, <1>4, Zenon DEF lines

(* The names of the commands. *)
LEMMA CommandForms ==
  /\ \A name \in {"update", "select all", "start", "stop"} :
       Command(name) \in Commands /\ Command(name).name = name
  /\ \A file \in Files :
       Filename(file) \in Commands /\ Filename(file).name = "filename"
  BY DEF Command, Filename, Commands

(* A pair as a sequence. *)
LEMMA PairForm ==
  ASSUME NEW S, NEW a \in S, NEW b \in S
  PROVE  /\ <<a, b>> \in Seq(S)
         /\ Len(<<a, b>>) = 2 /\ <<a, b>>[1] = a /\ <<a, b>>[2] = b
  OBVIOUS

(* The start is the last command of the batch that starts a recording. *)
LEMMA StartShape ==
  ASSUME NEW file \in Files, NEW all \in BOOLEAN
  PROVE  /\ StartCommands(file, all) \in Seq(Commands)
         /\ Len(StartCommands(file, all)) > 1
         /\ Shape(Batch("Starting", StartCommands(file, all)))
<1> DEFINE lines == StartCommands(file, all)
<1>1. CASE all
  <2> DEFINE u == Command("update")
             a == Command("select all")
             f == Filename(file)
             g == Command("start")
  <2>1. /\ u \in Commands /\ a \in Commands
        /\ f \in Commands /\ g \in Commands
        /\ u.name = "update" /\ a.name = "select all"
        /\ f.name = "filename" /\ g.name = "start"
    BY CommandForms
  <2> HIDE DEF u, a, f, g
  <2>2. lines = <<u, a>> \o <<f, g>>
    BY <1>1, Zenon DEF StartCommands, u, a, f, g
  <2> HIDE DEF lines
  <2>3. /\ lines \in Seq(Commands) /\ Len(lines) = 4
        /\ lines[1] = u /\ lines[2] = a /\ lines[3] = f /\ lines[4] = g
    <3>1. /\ <<u, a>> \in Seq(Commands) /\ <<f, g>> \in Seq(Commands)
          /\ Len(<<u, a>>) = 2 /\ Len(<<f, g>>) = 2
      BY <2>1, PairForm, Zenon
    <3>2. /\ <<u, a>>[1] = u /\ <<u, a>>[2] = a
          /\ <<f, g>>[1] = f /\ <<f, g>>[2] = g
      BY <2>1, PairForm, Zenon
    <3> QED
      BY <2>2, <3>1, <3>2
  <2>4. Shape(Batch("Starting", lines))
    <3>1. ASSUME NEW i \in 1..Len(lines)
          PROVE  /\ lines[i].name # "stop"
                 /\ lines[i].name = "start"
                      <=> "Starting" = "Starting" /\ i = Len(lines)
      <4>1. i = 1 \/ i = 2 \/ i = 3 \/ i = 4
        BY <2>3
      <4> QED
        BY <2>1, <2>3, <4>1
    <3>2. "Starting" \in Operating /\ "Starting" # "Stopping" /\ Len(lines) >= 1
      BY <2>3 DEF Operating
    <3> QED
      BY <2>3, <3>1, <3>2, ShapeForm, Zenon
  <2> QED
    BY <2>3, <2>4 DEF lines
<1>2. CASE ~all
  <2> DEFINE f == Filename(file)
             g == Command("start")
  <2>1. /\ f \in Commands /\ g \in Commands
        /\ f.name = "filename" /\ g.name = "start"
    BY CommandForms
  <2> HIDE DEF f, g
  <2>2. lines = <<>> \o <<f, g>>
    BY <1>2, Zenon DEF StartCommands, f, g
  <2>3. /\ lines \in Seq(Commands) /\ Len(lines) = 2
        /\ lines[1] = f /\ lines[2] = g
    BY <2>1, <2>2
  <2> HIDE DEF lines
  <2>4. Shape(Batch("Starting", lines))
    <3>1. ASSUME NEW i \in 1..Len(lines)
          PROVE  /\ lines[i].name # "stop"
                 /\ lines[i].name = "start"
                      <=> "Starting" = "Starting" /\ i = Len(lines)
      <4>1. i = 1 \/ i = 2
        BY <2>3
      <4> QED
        BY <2>1, <2>3, <4>1
    <3>2. "Starting" \in Operating /\ "Starting" # "Stopping" /\ Len(lines) >= 1
      BY <2>3 DEF Operating
    <3> QED
      BY <2>3, <3>1, <3>2, ShapeForm, Zenon
  <2> QED
    BY <2>3, <2>4 DEF lines
<1> QED
  BY <1>1, <1>2

(* The operations that begin a batch. *)
LEMMA OperationStep ==
  ASSUME Inv,
         \/ refreshStreams
         \/ stopRecording
         \/ \E file \in Files :
              updateFilename(file) \/ \E all \in BOOLEAN : startRecording(file, all)
  PROVE  Inv' /\ Control!Next
<1>0. asked \in Files \cup {NoFile}
  BY Zenon DEF Inv, Typed
<1>1. CASE refreshStreams
  <2>1. Inv' /\ (Control!Request("Refreshing") \/ Control!Lose)
    BY <1>0, <1>1, SingleShape, CommandForms, BeginStep DEF refreshStreams, Operating
  <2> QED
    BY <2>1, Zenon DEF Control!Next, Control!Operating
<1>2. CASE stopRecording
  <2>1. Inv' /\ (Control!Request("Stopping") \/ Control!Lose)
    BY <1>0, <1>2, StopShape, BeginStep DEF stopRecording, Operating
  <2> QED
    BY <2>1, Zenon DEF Control!Next, Control!Operating
<1>3. ASSUME NEW file \in Files, updateFilename(file)
      PROVE  Inv' /\ Control!Next
  <2>1. Inv' /\ (Control!Request("UpdatingFilename") \/ Control!Lose)
    BY <1>0, <1>3, SingleShape, CommandForms, BeginStep DEF updateFilename, Operating
  <2> QED
    BY <2>1, Zenon DEF Control!Next, Control!Operating
<1>4. ASSUME NEW file \in Files, NEW all \in BOOLEAN, startRecording(file, all)
      PROVE  Inv' /\ Control!Next
  <2>1. ~Control!Owed(client.startMay, client.recording)
    BY <1>4, Zenon DEF startRecording, Control!Owed
  <2>2. Inv' /\ (Control!Request("Starting") \/ Control!Lose)
    BY <1>0, <1>4, <2>1, StartShape, BeginStep DEF startRecording, Operating
  <2> QED
    BY <2>2, Zenon DEF Control!Next, Control!Operating
<1> QED
  BY <1>1, <1>2, <1>3, <1>4, Zenon

(***************************************************************************)
(* The slots keep the invariant and are steps of RecorderControl, and with *)
(* the operations this gives the refinement and what follows from it.      *)
(***************************************************************************)

(* onConnected. *)
LEMMA OpenedStep ==
  ASSUME Inv, onConnected PROVE Inv' /\ Control!Opened
<1>1. /\ client \in Clients /\ client.connection = "Connecting"
      /\ client.batch = NoBatch
  BY Zenon DEF onConnected, Inv, Typed, Working, Rested
<1>2. /\ Rested(client) /\ client.sent = <<>>
      /\ Silent(client.buffer) /\ Silent(replies)
  BY <1>1, RestedQuiet
<1>3. /\ client' = [client EXCEPT !.connection = "Connected",
                                  !.recording = "Unknown",
                                  !.connectionTimer = FALSE]
      /\ link' = TRUE
      /\ UNCHANGED <<replies, recorder, asked>>
  BY Zenon DEF onConnected
<1>4. /\ client' \in Clients
      /\ client'.connection = "Connected" /\ client'.recording = "Unknown"
      /\ client'.operation = client.operation
      /\ client'.shutdown = client.shutdown
      /\ client'.startMay = client.startMay /\ client'.batch = client.batch
      /\ client'.unsent = client.unsent /\ client'.sent = client.sent
      /\ client'.buffer = client.buffer
      /\ client'.commandTimer = client.commandTimer
  BY <1>1, <1>3 DEF Clients
<1>5. Rested(client')
  BY <1>2, <1>4, Zenon DEF Rested, Resting
<1>6. /\ link' \in BOOLEAN /\ replies' \in Seq(Tokens)
      /\ recorder' \in Recorders /\ asked' \in Files \cup {NoFile}
  BY <1>3, Zenon DEF Inv, Typed
<1>7. Inv'
  BY <1>2, <1>3, <1>4, <1>5, <1>6, RestedInv, Zenon
<1>8. View(recorder)' = View(recorder)
  BY <1>3 DEF View
<1>9. Control!Opened
  BY <1>1, <1>3, <1>4, <1>8, Zenon DEF Control!Opened, View
<1> QED
  BY <1>7, <1>9

(***************************************************************************)
(* beginShutdown, in a batch and without one.                              *)
(***************************************************************************)
LEMMA ShutdownInBatch ==
  ASSUME Inv, beginShutdown, client.batch # NoBatch
  PROVE  Inv' /\ Control!BeginShutdown
<1> DEFINE c == [client EXCEPT !.shutdown = TRUE]
<1>1. /\ client \in Clients /\ Working(client) /\ ~client.shutdown
      /\ Becomes(c, replies) /\ asked' = asked
  BY Zenon DEF Inv, Typed, Rested, beginShutdown
<1>2. /\ c \in Clients /\ c.shutdown = TRUE
      /\ c.connection = client.connection /\ c.recording = client.recording
      /\ c.operation = client.operation /\ c.startMay = client.startMay
      /\ c.batch = client.batch /\ c.unsent = client.unsent
      /\ c.sent = client.sent /\ c.buffer = client.buffer
  BY <1>1 DEF Clients
<1> HIDE DEF c
<1>3. c.connection = "Connected"
  BY <1>1, <1>2, Zenon DEF Working
<1>4. client' = c /\ replies' = replies /\ UNCHANGED <<link, recorder>>
  BY <1>1, <1>3, StaysForm, Zenon
<1>5. Inv'
  <2>1. Typed'
    BY <1>1, <1>2, <1>4, Zenon DEF Inv, Typed
  <2>2. Working(client')
    BY <1>1, <1>2, <1>4, Zenon DEF Working, MarksStart
  <2>3. SentOK(client') /\ (link' => client'.connection = "Connected")
    BY <1>2, <1>3, <1>4, Zenon DEF Inv, SentOK
  <2>4. AnswersOK'
    BY <1>2, <1>4, Zenon DEF Inv, AnswersOK, Answered, Quiet, OneAnswer,
       AnswerIsTrue, MarksStart
  <2> QED
    BY <2>1, <2>2, <2>3, <2>4, Zenon DEF Inv
<1>6. client.operation \in Control!Operating
  BY <1>1, Zenon DEF Working, Shape, Operating, Control!Operating
<1>7. View(recorder)' = View(recorder)
  BY <1>4 DEF View
<1>8. Control!BeginShutdown
  BY <1>1, <1>2, <1>4, <1>6, <1>7, Zenon DEF Control!BeginShutdown, View
<1> QED
  BY <1>5, <1>8

(* With nothing in flight the recorder stays as it is. *)
LEMMA NothingInFlight ==
  ASSUME Inv, NEW c, c.sent = <<>>, c.startMay = client.startMay,
         NEW after \in IF link THEN CarriedOut(recorder, c.sent) ELSE {recorder},
         recorder' = [after EXCEPT
           !.letGo = @ \/ (client.startMay /\ ~c.startMay)]
  PROVE  recorder' = recorder
<1>1. after = recorder
  BY DEF CarriedOut
<1>2. recorder \in Recorders
  BY Zenon DEF Inv, Typed
<1> QED
  BY <1>1, <1>2 DEF Recorders

(* A client without a batch loses its connection, if it had one. *)
LEMMA QuietDrop ==
  ASSUME Inv, NEW c \in Clients, c.connection # "Connected", c.sent = <<>>,
         c.startMay = client.startMay, Rested(c), Silent(c.buffer),
         NEW rest, Becomes(c, rest), asked' \in Files \cup {NoFile}
  PROVE  /\ Inv'
         /\ client'.connection = c.connection /\ client'.recording = c.recording
         /\ client'.operation = c.operation /\ client'.shutdown = c.shutdown
         /\ client'.startMay = c.startMay
         /\ link' = FALSE
         /\ recorder' = recorder
<1>1. /\ client' \in Clients /\ client'.sent = <<>>
      /\ client'.connection = c.connection /\ client'.recording = c.recording
      /\ client'.operation = c.operation /\ client'.shutdown = c.shutdown
      /\ client'.startMay = c.startMay /\ client'.batch = c.batch
      /\ client'.unsent = c.unsent /\ client'.buffer = c.buffer
      /\ client'.commandTimer = c.commandTimer
      /\ replies' = <<>> /\ link' = FALSE
  BY DropForm, Zenon
<1>2. PICK after \in IF link THEN CarriedOut(recorder, c.sent) ELSE {recorder} :
        recorder' = [after EXCEPT
          !.letGo = @ \/ (client.startMay /\ ~c.startMay)]
  BY DropForm, Zenon
<1>3. recorder' = recorder
  BY <1>2, NothingInFlight
<1>4. Rested(client')
  BY <1>1, Zenon DEF Rested, Resting
<1>5. recorder' \in Recorders /\ link' \in BOOLEAN
  BY <1>1, <1>3, Zenon DEF Inv, Typed
<1>6. Inv'
  BY <1>1, <1>4, <1>5, SilentEmpty, RestedInv, Zenon
<1> QED
  BY <1>1, <1>3, <1>6, Zenon

(* beginShutdown without a batch. *)
LEMMA ShutdownAtRest ==
  ASSUME Inv, beginShutdown, client.batch = NoBatch
  PROVE  Inv' /\ Control!BeginShutdown
<1> DEFINE e == [client EXCEPT !.shutdown = TRUE]
<1>1. PICK c \in continueShutdown(e) : Becomes(c, replies)
  BY Zenon DEF beginShutdown
<1>2. /\ client \in Clients /\ Rested(client) /\ client.sent = <<>>
      /\ Silent(client.buffer) /\ Silent(replies) /\ replies \in Seq(Tokens)
      /\ ~client.shutdown /\ asked' = asked
      /\ asked' \in Files \cup {NoFile}
  BY RestedQuiet, Zenon DEF Inv, Typed, beginShutdown
<1>3. /\ e \in Clients /\ e.shutdown = TRUE
      /\ e.connection = client.connection /\ e.recording = client.recording
      /\ e.startMay = client.startMay
      /\ e.batch = client.batch /\ e.unsent = client.unsent
      /\ e.sent = client.sent /\ e.buffer = client.buffer
      /\ e.commandTimer = client.commandTimer
  BY <1>2 DEF Clients
<1> HIDE DEF e
<1>4. client.operation = "Idle"
  BY <1>2, Zenon DEF Rested, Resting
<1>5. Control!Owed(client.startMay, client.recording) <=> Owed(e)
  BY <1>3, Zenon DEF Control!Owed, Owed
<1>6. IF Owed(e)
      THEN IF e.connection = "Connected"
           THEN Lost(e, c, "Error") \/ Began(e, c, "Stopping")
           ELSE Settled(e, c, "Unknown")
      ELSE Settled(e, c, e.recording)
  <2>1. /\ e.batch = NoBatch /\ e.unsent = "none" /\ ~e.commandTimer
        /\ e.shutdown
    BY <1>2, <1>3, Zenon DEF Rested
  <2> QED
    BY <1>1, <1>3, <2>1, ShutdownForm
<1>7. CASE Owed(e) /\ e.connection = "Connected" /\ Began(e, c, "Stopping")
  <2>1. client' = c /\ replies' = replies /\ UNCHANGED <<link, recorder>>
    BY <1>1, <1>7, StaysForm, Zenon DEF Began
  <2>2. Inv'
    BY <1>2, <1>3, <1>7, <2>1, BeganInv, Zenon
  <2>3. View(recorder)' = View(recorder)
    BY <2>1 DEF View
  <2>4. Control!BeginShutdown
    BY <1>2, <1>3, <1>4, <1>5, <1>7, <2>1, <2>3, Zenon
       DEF Control!BeginShutdown, Began, View
  <2> QED
    BY <2>2, <2>4
<1>8. CASE Owed(e) /\ e.connection = "Connected" /\ Lost(e, c, "Error")
  <2>1. /\ c \in Clients /\ c.connection = "Error" /\ c.sent = <<>>
        /\ c.connection # "Connected"
        /\ c.recording = "Unknown" /\ c.shutdown = TRUE
        /\ c.startMay = client.startMay /\ Rested(c) /\ c.buffer = <<>>
        /\ c.operation = "ShuttingDown"
    BY <1>2, <1>3, <1>8, Zenon DEF Lost, Rested, Resting
  <2>2. Silent(c.buffer)
    BY <2>1, SilentEmpty, Zenon
  <2>3. /\ Inv' /\ client'.connection = "Error"
        /\ client'.recording = "Unknown" /\ client'.operation = "ShuttingDown"
        /\ client'.shutdown = TRUE /\ client'.startMay = client.startMay
        /\ link' = FALSE /\ recorder' = recorder
    BY <1>1, <1>2, <2>1, <2>2, QuietDrop, Zenon
  <2>4. View(recorder)' = View(recorder)
    BY <2>3 DEF View
  <2>5. Control!BeginShutdown
    BY <1>2, <1>3, <1>4, <1>5, <1>8, <2>3, <2>4, Zenon
       DEF Control!BeginShutdown, View
  <2> QED
    BY <2>3, <2>5
<1>9. CASE /\ e.connection # "Connected"
           /\ \/ Owed(e) /\ Settled(e, c, "Unknown")
              \/ ~Owed(e) /\ Settled(e, c, e.recording)
  <2>1. /\ c \in Clients /\ c.connection = client.connection /\ c.sent = <<>>
        /\ c.connection # "Connected"
        /\ c.shutdown = TRUE
        /\ c.startMay = client.startMay /\ Rested(c)
        /\ c.buffer = client.buffer
        /\ c.operation = "ShuttingDown"
        /\ c.recording = IF Owed(e) THEN "Unknown" ELSE client.recording
    BY <1>2, <1>3, <1>9, Zenon DEF Settled, Rested, Resting
  <2>2. Silent(c.buffer)
    BY <1>2, <2>1, Zenon
  <2>3. /\ Inv' /\ client'.connection = client.connection
        /\ client'.recording = c.recording
        /\ client'.operation = "ShuttingDown"
        /\ client'.shutdown = TRUE /\ client'.startMay = client.startMay
        /\ link' = FALSE /\ recorder' = recorder
    BY <1>1, <1>2, <2>1, <2>2, QuietDrop, Zenon
  <2>4. View(recorder)' = View(recorder)
    BY <2>3 DEF View
  <2>5. link = FALSE
    <3>1. ~link
      BY <1>3, <1>9, Zenon DEF Inv
    <3> QED
      BY <3>1, Zenon DEF Inv, Typed
  <2>6. CASE Owed(e)
    BY <1>2, <1>3, <1>4, <1>5, <1>9, <2>1, <2>3, <2>4, <2>6, Zenon
       DEF Control!BeginShutdown, View
  <2>7. CASE ~Owed(e)
    BY <1>2, <1>3, <1>4, <1>5, <1>9, <2>1, <2>3, <2>4, <2>5, <2>7, Zenon
       DEF Control!BeginShutdown, View
  <2> QED
    BY <2>3, <2>6, <2>7
<1>10. CASE ~Owed(e) /\ e.connection = "Connected" /\ Settled(e, c, e.recording)
  <2>1. client' = c /\ replies' = replies /\ UNCHANGED <<link, recorder>>
    BY <1>1, <1>10, StaysForm, Zenon DEF Settled
  <2>2. /\ Rested(c) /\ c.sent = <<>> /\ c.buffer = client.buffer
        /\ c.operation = "ShuttingDown" /\ c.connection = "Connected"
        /\ c \in Clients /\ c.recording = client.recording
        /\ c.shutdown = TRUE /\ c.startMay = client.startMay
    BY <1>2, <1>3, <1>10, Zenon DEF Settled, Rested, Resting
  <2>3. Inv'
    BY <1>2, <2>1, <2>2, RestedInv, Zenon DEF Inv, Typed
  <2>4. View(recorder)' = View(recorder)
    BY <2>1 DEF View
  <2>5. Control!BeginShutdown
    BY <1>2, <1>3, <1>4, <1>5, <1>10, <2>1, <2>2, <2>4, Zenon
       DEF Control!BeginShutdown, View
  <2> QED
    BY <2>3, <2>5
<1> QED
  BY <1>6, <1>7, <1>8, <1>9, <1>10, Zenon
-----------------------------------------------------------------------------
(***************************************************************************)
(* writeNextCommand that goes on to another command, or to more of one.    *)
(***************************************************************************)
LEMMA ProceedStep ==
  ASSUME Inv, client.connection = "Connected",
         NEW e, e.connection = client.connection,
         e.recording = client.recording, e.operation = client.operation,
         e.shutdown = client.shutdown, e.startMay = client.startMay,
         e.sent = <<>>, Silent(e.buffer),
         NEW c, Proceeds(e, c),
         NEW rest \in Seq(Tokens), Silent(rest), Becomes(c, rest),
         asked' \in Files \cup {NoFile}
  PROVE  Inv' /\ (Control!SendStart \/ UNCHANGED Control!vars)
<1>1. /\ c \in Clients /\ Working(c) /\ c.connection = "Connected"
      /\ Silent(c.buffer)
  BY SilentEmpty, Zenon DEF Proceeds
<1>2. client' = c /\ replies' = rest /\ UNCHANGED <<link, recorder>>
  BY <1>1, StaysForm, Zenon
<1>3. SentOK(c) /\ (c.unsent = "none" => c.sent # <<>>)
  <2>1. CASE c.unsent = "none"
    <3> DEFINE command == c.batch.commands[c.batch.next]
    <3>1. c.sent = Append(<<>>, command)
      BY <2>1, Zenon DEF Proceeds
    <3> HIDE DEF command
    <3>2. Append(<<>>, command) = <<command>> /\ <<command>> # <<>>
      OBVIOUS
    <3> QED
      BY <1>1, <2>1, <3>1, <3>2, Zenon DEF SentOK, Working, command
  <2>2. CASE c.unsent # "none"
    BY <2>2, Zenon DEF SentOK, Proceeds
  <2> QED
    BY <2>1, <2>2
<1>4. Inv'
  BY <1>1, <1>2, <1>3, WorkingInv, Zenon DEF Inv, Typed
<1>5. View(recorder)' = View(recorder)
  BY <1>2 DEF View
<1>6. client.startMay \in BOOLEAN
  BY Zenon DEF Inv, Typed, Clients
<1>7. CASE c.startMay = client.startMay
  BY <1>2, <1>4, <1>5, <1>7, Zenon DEF Control!vars, Proceeds, View
<1>8. CASE ~client.startMay /\ MarksStart(c) /\ c.startMay = TRUE
  <2>1. client.operation = "Starting"
    BY <1>1, <1>8, Zenon DEF Proceeds, Working, MarksStart
  <2> QED
    BY <1>2, <1>4, <1>5, <1>8, <2>1, Zenon DEF Control!SendStart, Proceeds, View
<1>9. c.startMay = client.startMay
      \/ (~client.startMay /\ MarksStart(c) /\ c.startMay = TRUE)
  BY <1>6, Zenon DEF Proceeds
<1> QED
  BY <1>4, <1>7, <1>8, <1>9, Zenon

(* onBytesWritten. *)
LEMMA BytesWrittenStep ==
  ASSUME Inv, onBytesWritten
  PROVE  Inv' /\ (Control!SendStart \/ Control!Lose \/ UNCHANGED Control!vars)
<1>1. PICK c \in Write(client) : Becomes(c, replies)
  BY Zenon DEF onBytesWritten
<1>2. /\ client \in Clients /\ client.connection = "Connected"
      /\ client.unsent # "none" /\ asked' = asked
      /\ replies \in Seq(Tokens) /\ asked' \in Files \cup {NoFile}
  BY Zenon DEF onBytesWritten, isConnected, Inv, Typed
<1>3. Working(client) /\ client.sent = <<>>
  BY <1>2, Zenon DEF Inv, Rested, SentOK
<1>4. Silent(client.buffer) /\ Silent(replies)
  BY <1>2, Zenon DEF Inv, AnswersOK, Answered, Quiet
<1>5. Lost(client, c, "Error") \/ Proceeds(client, c)
  <2>1. /\ InBatch(client)
        /\ client.unsent = "rest" /\ MarksStart(client) => client.startMay
    BY <1>3, Zenon DEF Working, InBatch
  <2> QED
    BY <1>1, <1>2, <2>1, WriteForm
<1>6. CASE Lost(client, c, "Error")
  BY <1>1, <1>2, <1>6, LostStep
<1>7. CASE Proceeds(client, c)
  BY <1>1, <1>2, <1>3, <1>4, <1>7, ProceedStep, Zenon
<1> QED
  BY <1>5, <1>6, <1>7

-----------------------------------------------------------------------------
(***************************************************************************)
(* The connection fails, or a timer fires.                                 *)
(***************************************************************************)
LEMMA FailureStep ==
  ASSUME Inv,
         \/ onDisconnected \/ onSocketError
         \/ onConnectionTimeout \/ onCommandTimeout
  PROVE  Inv' /\ Control!Lose
<1>1. /\ client \in Clients /\ asked \in Files \cup {NoFile}
  BY Zenon DEF Inv, Typed
<1>2. /\ Lost(client, LoseConnection(client, "Disconnected"), "Disconnected")
      /\ Lost(client, LoseConnection(client, "Error"), "Error")
  BY <1>1, LoseForm
<1>3. CASE onDisconnected
  <2>1. /\ client.connection \in {"Connecting", "Connected"}
        /\ Becomes(LoseConnection(client, "Disconnected"), <<>>)
        /\ asked' = asked
    BY <1>3, Zenon DEF onDisconnected, isConnected
  <2> QED
    BY <1>1, <1>2, <2>1, LostStep
<1>4. CASE onSocketError \/ onConnectionTimeout \/ onCommandTimeout
  <2>1. client.connection \in {"Connecting", "Connected"}
    BY <1>4, Zenon DEF onSocketError, onConnectionTimeout, onCommandTimeout,
       isConnected, Inv, Rested, Working
  <2>2. /\ asked' = asked
        /\ \/ Becomes(LoseConnection(client, "Error"), <<>>)
           \/ Becomes(LoseConnection(client, "Error"), replies)
    BY <1>4, Zenon DEF onSocketError, onConnectionTimeout, onCommandTimeout,
       failActiveConnection, TimedOut
  <2> QED
    BY <1>1, <1>2, <2>1, <2>2, LostStep
<1> QED
  BY <1>3, <1>4

-----------------------------------------------------------------------------
(***************************************************************************)
(* The recorder and the network.                                           *)
(***************************************************************************)
LEMMA TailOfOne ==
  ASSUME NEW S, NEW a \in S
  PROVE  /\ <<a>> # <<>> /\ Head(<<a>>) = a /\ Tail(<<a>>) = <<>>
         /\ <<>> \in Seq(S)
  OBVIOUS

(* Sequences of tokens, end to end and in part. *)
LEMMA ConcatForm ==
  ASSUME NEW s \in Seq(Tokens), NEW t \in Seq(Tokens)
  PROVE  /\ s \o t \in Seq(Tokens)
         /\ Len(s) \in Nat /\ Len(t) \in Nat
         /\ Len(s \o t) = Len(s) + Len(t)
         /\ \A i \in 1..Len(s) : (s \o t)[i] = s[i]
         /\ \A i \in 1..Len(t) : (s \o t)[Len(s) + i] = t[i]
         /\ \A i \in 1..Len(s \o t) :
              i \in 1..Len(s) \/ \E j \in 1..Len(t) : i = Len(s) + j
<1>1. Len(s) \in Nat /\ Len(t) \in Nat
  OBVIOUS
<1>2. s \o t \in Seq(Tokens) /\ Len(s \o t) = Len(s) + Len(t)
  OBVIOUS
<1>3. \A i \in 1..Len(s) + Len(t) :
        (s \o t)[i] = IF i <= Len(s) THEN s[i] ELSE t[i - Len(s)]
  BY ConcatProperties, Zenon
<1>4. \A i \in 1..Len(s) : (s \o t)[i] = s[i]
  BY <1>1, <1>3
<1>5. ASSUME NEW i \in 1..Len(t) PROVE (s \o t)[Len(s) + i] = t[i]
  <2>1. /\ Len(s) + i \in 1..Len(s) + Len(t) /\ ~(Len(s) + i <= Len(s))
        /\ (Len(s) + i) - Len(s) = i
    BY <1>1
  <2> QED
    BY <1>3, <2>1, Zenon
<1>6. ASSUME NEW i \in 1..Len(s \o t), i \notin 1..Len(s)
      PROVE  \E j \in 1..Len(t) : i = Len(s) + j
  <2>1. i - Len(s) \in 1..Len(t) /\ i = Len(s) + (i - Len(s))
    BY <1>1, <1>2, <1>6
  <2> QED
    BY <2>1, Zenon
<1> QED
  BY <1>1, <1>2, <1>4, <1>5, <1>6, Zenon

(* A part of a sequence of tokens. *)
LEMMA PartForm ==
  ASSUME NEW s \in Seq(Tokens), NEW m \in 1..Len(s) + 1, NEW n \in m - 1..Len(s)
  PROVE  /\ SubSeq(s, m, n) \in Seq(Tokens)
         /\ Len(SubSeq(s, m, n)) = n - m + 1
         /\ \A i \in 1..Len(SubSeq(s, m, n)) :
              m + i - 1 \in m..n /\ SubSeq(s, m, n)[i] = s[m + i - 1]
<1>1. Len(s) \in Nat /\ m \in Int /\ n \in Int
  OBVIOUS
<1>2. \A i \in m..n : s[i] \in Tokens
  BY <1>1
<1>3. /\ SubSeq(s, m, n) \in Seq(Tokens)
      /\ Len(SubSeq(s, m, n)) = n - m + 1
  BY <1>1
<1>4. ASSUME NEW i \in 1..Len(SubSeq(s, m, n))
      PROVE  m + i - 1 \in m..n /\ SubSeq(s, m, n)[i] = s[m + i - 1]
  BY <1>1, <1>3
<1> QED
  BY <1>3, <1>4, Zenon

(* An O is in one of the parts, or in none. *)
LEMMA ConcatSilent ==
  ASSUME NEW s \in Seq(Tokens), NEW t \in Seq(Tokens)
  PROVE  /\ Silent(s) /\ Silent(t) => Silent(s \o t)
         /\ Silent(s) /\ Single(t) => Single(s \o t)
         /\ Single(s) /\ Silent(t) => Single(s \o t)
<1> DEFINE st == s \o t
<1>1. /\ Len(s) \in Nat /\ Len(t) \in Nat
      /\ \A i \in 1..Len(s) : st[i] = s[i]
      /\ \A i \in 1..Len(t) : st[Len(s) + i] = t[i]
      /\ \A i \in 1..Len(st) :
           i \in 1..Len(s) \/ \E j \in 1..Len(t) : i = Len(s) + j
  BY ConcatForm, Zenon
<1> HIDE DEF st
<1>2. ASSUME Silent(s), Silent(t) PROVE Silent(st)
  BY <1>1, <1>2, Zenon DEF Silent
<1>3. ASSUME Silent(s), Single(t) PROVE Single(st)
  <2>1. ASSUME NEW i \in 1..Len(st), st[i] = "O"
        PROVE  \E k \in 1..Len(t) : i = Len(s) + k /\ t[k] = "O"
    BY <1>1, <1>3, <2>1, Zenon DEF Silent
  <2> QED
    BY <1>3, <2>1, Zenon DEF Single
<1>4. ASSUME Single(s), Silent(t) PROVE Single(st)
  <2>1. ASSUME NEW i \in 1..Len(st), st[i] = "O"
        PROVE  i \in 1..Len(s) /\ s[i] = "O"
    BY <1>1, <1>4, <2>1, Zenon DEF Silent
  <2> QED
    BY <1>4, <2>1, Zenon DEF Single
<1> QED
  BY <1>2, <1>3, <1>4, Zenon DEF st

(* A part says no more than the whole. *)
LEMMA PartSilent ==
  ASSUME NEW s \in Seq(Tokens), NEW m \in 1..Len(s) + 1, NEW n \in m - 1..Len(s)
  PROVE  /\ Silent(s) => Silent(SubSeq(s, m, n))
         /\ Single(s) => Single(SubSeq(s, m, n))
<1> DEFINE part == SubSeq(s, m, n)
<1>1. ASSUME NEW i \in 1..Len(part)
      PROVE  part[i] = s[m + i - 1] /\ m + i - 1 \in 1..Len(s)
  <2>1. part[i] = s[m + i - 1] /\ m + i - 1 \in m..n
    BY PartForm, Zenon
  <2>2. Len(s) \in Nat
    OBVIOUS
  <2>3. m + i - 1 \in 1..Len(s)
    BY <2>1, <2>2
  <2> QED
    BY <2>1, <2>3
<1>2. ASSUME NEW i \in 1..Len(part), NEW j \in 1..Len(part),
             m + i - 1 = m + j - 1
      PROVE  i = j
  <2>1. Len(part) \in Nat /\ m \in Int
    BY PartForm
  <2> QED
    BY <1>2, <2>1
<1> HIDE DEF part
<1>3. Silent(s) => Silent(part)
  BY <1>1, Zenon DEF Silent
<1>4. Single(s) => Single(part)
  BY <1>1, <1>2, Zenon DEF Single
<1> QED
  BY <1>3, <1>4 DEF part

(* An OK is read once, and an error never as one. *)
LEMMA AnswerForm ==
  ASSUME NEW tokens \in Seq(Tokens), Silent(tokens)
  PROVE  /\ tokens \o <<"O", "K", "space">> \in Seq(Tokens)
         /\ tokens \o <<"E", "R">> \in Seq(Tokens)
         /\ Single(tokens \o <<"O", "K", "space">>)
         /\ Silent(tokens \o <<"E", "R">>)
<1> DEFINE ok == <<"O", "K", "space">>
           error == <<"E", "R">>
<1>1. /\ ok \in Seq(Tokens) /\ error \in Seq(Tokens)
      /\ Len(ok) = 3 /\ Len(error) = 2
      /\ ok[2] # "O" /\ ok[3] # "O" /\ error[1] # "O" /\ error[2] # "O"
  BY DEF Tokens
<1> HIDE DEF ok, error
<1>2. Single(ok) /\ Silent(error)
  BY <1>1 DEF Single, Silent
<1>3. Single(tokens \o ok) /\ Silent(tokens \o error)
  BY <1>1, <1>2, ConcatSilent, Zenon
<1>4. tokens \o ok \in Seq(Tokens) /\ tokens \o error \in Seq(Tokens)
  BY <1>1
<1> QED
  BY <1>3, <1>4 DEF ok, error

(* The command that an OK confirms was carried out. *)
LEMMA CarriedOutIsTrue ==
  ASSUME Inv, client.batch # NoBatch, client.unsent = "none",
         NEW after,
         after = Execute(recorder, client.batch.commands[client.batch.next])
  PROVE  /\ client.batch.operation = "Stopping" => ~after.recording
         /\ MarksStart(client) => after.recording
<1> DEFINE command == client.batch.commands[client.batch.next]
<1>1. Working(client) /\ recorder \in Recorders
  BY Zenon DEF Inv, Rested, Typed
<1>2. client.batch.next \in 1..Len(client.batch.commands)
  BY <1>1, Zenon DEF Working, Shape
<1>3. ASSUME client.batch.operation = "Stopping" PROVE ~after.recording
  <2>1. client.batch.commands = <<Command("stop")>>
    BY <1>1, <1>3, Zenon DEF Working, Shape
  <2>2. client.batch.next = 1
    BY <1>2, <2>1
  <2>3. command = Command("stop")
    BY <2>1, <2>2
  <2> HIDE DEF command
  <2>4. View(after) = Control!Halted
    BY <1>1, <2>3, StopHalts, Zenon DEF command
  <2> QED
    BY <2>4 DEF View, Control!Halted
<1>4. ASSUME MarksStart(client) PROVE after.recording
  <2>1. command.name = "start" /\ after = Execute(recorder, command)
    BY <1>4, Zenon DEF MarksStart
  <2> HIDE DEF command
  <2>2. CASE recorder.recording
    <3>1. after = recorder
      BY <2>1, <2>2 DEF Execute
    <3> QED
      BY <2>2, <3>1
  <2>3. CASE ~recorder.recording
    <3>1. after = [recorder EXCEPT !.recording = TRUE, !.file = recorder.name]
      BY <2>1, <2>3 DEF Execute
    <3>2. after.recording = TRUE
      BY <1>1, <3>1 DEF Recorders
    <3> QED
      BY <3>2
  <2> QED
    BY <2>2, <2>3
<1> QED
  BY <1>3, <1>4

(* RecorderAnswers. *)
LEMMA AnswersStep ==
  ASSUME Inv, RecorderAnswers PROVE Inv' /\ Control!RecorderActs
<1> DEFINE command == client.batch.commands[client.batch.next]
           after == Execute(recorder, command)
<1>1. /\ client \in Clients /\ recorder \in Recorders /\ link
      /\ replies \in Seq(Tokens) /\ asked' \in Files \cup {NoFile}
      /\ link' = link /\ link' \in BOOLEAN
  BY Zenon DEF RecorderAnswers, Inv, Typed
<1>2. /\ client.sent = <<command>> /\ client.batch # NoBatch
      /\ client.unsent = "none" /\ Working(client)
      /\ client.connection = "Connected"
  BY Zenon DEF RecorderAnswers, Inv, SentOK, Rested, Working
<1>3. Silent(client.buffer) /\ Silent(replies)
  <2>1. <<command>> # <<>>
    OBVIOUS
  <2> QED
    BY <1>2, <2>1, Zenon DEF Inv, AnswersOK, Answered, Quiet
<1>4. command \in Commands
  BY <1>1, <1>2, CurrentTyped, Zenon DEF Working, InBatch
<1>5. /\ after \in Recorders /\ View(after) \in Control!Effects
      /\ client.batch.operation = "Stopping" => ~after.recording
      /\ MarksStart(client) => after.recording
  BY <1>2, ExecuteForm, CarriedOutIsTrue
<1>6. /\ client' = [client EXCEPT !.sent = Tail(@)]
      /\ \/ recorder' = after /\ replies' = replies \o <<"O", "K", "space">>
         \/ recorder' \in {recorder, after} /\ replies' = replies \o <<"E", "R">>
  <2>1. Head(client.sent) = command
    BY <1>2, <1>4, TailOfOne, Zenon
  <2> QED
    BY <2>1, Zenon DEF RecorderAnswers
<1> HIDE DEF command, after
<1>7. /\ client' \in Clients /\ client'.sent = <<>>
      /\ client'.connection = client.connection
      /\ client'.recording = client.recording
      /\ client'.operation = client.operation
      /\ client'.shutdown = client.shutdown
      /\ client'.startMay = client.startMay /\ client'.batch = client.batch
      /\ client'.unsent = client.unsent /\ client'.buffer = client.buffer
  <2>1. Tail(client.sent) = <<>> /\ <<>> \in Seq(Commands)
    BY <1>2, <1>4, TailOfOne, Zenon
  <2>2. client' = [client EXCEPT !.sent = <<>>]
    BY <1>6, <2>1, Zenon
  <2> QED
    BY <1>1, <2>1, <2>2 DEF Clients
<1>8. Working(client') /\ SentOK(client') /\ Answered'
  BY <1>2, <1>7, Zenon DEF Working, MarksStart, SentOK, Answered
<1>9. /\ recorder' \in Recorders /\ View(recorder)' \in Control!Effects
  <2>1. View(recorder) \in Control!Effects
    BY Zenon DEF Control!Effects, View
  <2>2. recorder' \in {recorder, after}
    BY <1>6
  <2> QED
    BY <1>1, <1>5, <2>1, <2>2, Zenon DEF View
<1>10. replies' \in Seq(Tokens) /\ OneAnswer' /\ (Quiet' \/ AnswerIsTrue')
  <2>1. Single(client'.buffer) /\ Silent(client'.buffer)
    BY <1>3, <1>7, SilentIsSingle, Zenon
  <2>2. CASE recorder' = after /\ replies' = replies \o <<"O", "K", "space">>
    <3>1. replies' \in Seq(Tokens) /\ Single(replies')
      BY <1>1, <1>3, <2>2, AnswerForm, Zenon
    <3>2. AnswerIsTrue'
      BY <1>5, <1>7, <2>2, Zenon DEF AnswerIsTrue, MarksStart
    <3> QED
      BY <2>1, <3>1, <3>2, Zenon DEF OneAnswer
  <2>3. CASE replies' = replies \o <<"E", "R">>
    <3>1. replies' \in Seq(Tokens) /\ Silent(replies')
      BY <1>1, <1>3, <2>3, AnswerForm, Zenon
    <3>2. Single(replies')
      BY <3>1, SilentIsSingle, Zenon
    <3> QED
      BY <2>1, <3>1, <3>2, Zenon DEF OneAnswer, Quiet
  <2> QED
    BY <1>6, <2>2, <2>3, Zenon
<1>11. Inv'
  <2>1. Typed'
    BY <1>1, <1>7, <1>9, <1>10, Zenon DEF Typed
  <2>2. AnswersOK'
    BY <1>8, <1>10, Zenon DEF AnswersOK
  <2>3. link' => client'.connection = "Connected"
    BY <1>2, <1>7, Zenon
  <2> QED
    BY <1>8, <2>1, <2>2, <2>3, Zenon DEF Inv
<1>12. Control!RecorderActs
  BY <1>1, <1>7, <1>9, Zenon DEF Control!RecorderActs, View
<1> QED
  BY <1>11, <1>12

(* LinkLost and RecorderDies. *)
LEMMA GoneStep ==
  ASSUME Inv, LinkLost \/ RecorderDies PROVE Inv' /\ Control!RecorderGone
<1>1. /\ link' = FALSE /\ client' = client /\ replies' = replies
      /\ asked' = asked
  BY Zenon DEF LinkLost, RecorderDies
<1>2. recorder \in Recorders
  BY Zenon DEF Inv, Typed
<1>3. /\ recorder' \in Recorders
      /\ View(recorder)' \in {View(recorder), Control!Halted}
      /\ ~recorder.recording => ~recorder'.recording
  <2>1. CASE LinkLost
    BY <1>2, <2>1, Zenon DEF LinkLost, View
  <2>2. CASE RecorderDies
    <3>1. recorder' = [recorder EXCEPT !.recording = FALSE, !.name = NoFile,
                                       !.letGo = FALSE]
      BY <2>2, Zenon DEF RecorderDies
    <3>2. /\ recorder' \in Recorders
          /\ recorder'.recording = FALSE /\ recorder'.letGo = FALSE
      BY <1>2, <3>1 DEF Recorders
    <3> QED
      BY <3>2, Zenon DEF View, Control!Halted
  <2> QED
    BY <2>1, <2>2
<1>4. Inv'
  <2>1. Typed'
    BY <1>1, <1>3, Zenon DEF Inv, Typed
  <2>2. AnswersOK'
    BY <1>1, <1>3, Zenon DEF Inv, AnswersOK, Answered, Quiet, OneAnswer,
       AnswerIsTrue, MarksStart
  <2> QED
    BY <1>1, <2>1, <2>2, Zenon DEF Inv
<1>5. Control!RecorderGone
  BY <1>1, <1>3, Zenon DEF Control!RecorderGone, View
<1> QED
  BY <1>4, <1>5

-----------------------------------------------------------------------------
(***************************************************************************)
(* What onReadyRead takes from the socket, and what it leaves there.       *)
(***************************************************************************)
LEMMA SplitForm ==
  ASSUME NEW s \in Seq(Tokens), Single(s), NEW n \in 1..Len(s)
  PROVE  /\ SubSeq(s, 1, n) \in Seq(Tokens) /\ Single(SubSeq(s, 1, n))
         /\ SubSeq(s, n + 1, Len(s)) \in Seq(Tokens)
         /\ Single(SubSeq(s, n + 1, Len(s)))
         /\ \/ Silent(SubSeq(s, 1, n))
            \/ Silent(SubSeq(s, n + 1, Len(s)))
         /\ Silent(s) => /\ Silent(SubSeq(s, 1, n))
                         /\ Silent(SubSeq(s, n + 1, Len(s)))
<1> DEFINE front == SubSeq(s, 1, n)
           back == SubSeq(s, n + 1, Len(s))
<1>1. /\ Len(s) \in Nat /\ n \in Nat
      /\ 1 \in 1..Len(s) + 1 /\ n \in 1 - 1..Len(s)
      /\ n + 1 \in 1..Len(s) + 1 /\ Len(s) \in (n + 1) - 1..Len(s)
  OBVIOUS
<1>2. /\ front \in Seq(Tokens) /\ back \in Seq(Tokens)
      /\ Single(front) /\ Single(back)
      /\ Silent(s) => Silent(front) /\ Silent(back)
  BY <1>1, PartForm, PartSilent, Zenon
<1>3. ASSUME NEW i \in 1..Len(front), front[i] = "O",
             NEW j \in 1..Len(back), back[j] = "O"
      PROVE  FALSE
  <2>1. 1 + i - 1 \in 1..n /\ front[i] = s[1 + i - 1]
    BY <1>1, PartForm, Zenon
  <2>2. /\ n + 1 + j - 1 \in n + 1..Len(s)
        /\ back[j] = s[n + 1 + j - 1]
    BY <1>1, PartForm, Zenon
  <2>3. /\ 1 + i - 1 \in 1..Len(s) /\ n + 1 + j - 1 \in 1..Len(s)
        /\ 1 + i - 1 # n + 1 + j - 1
    BY <1>1, <2>1, <2>2
  <2> QED
    BY <1>3, <2>1, <2>2, <2>3, Zenon DEF Single
<1> HIDE DEF front, back
<1>4. Silent(front) \/ Silent(back)
  BY <1>3, Zenon DEF Silent
<1> QED
  BY <1>2, <1>4 DEF front, back

(* The tokens read with the buffer, and those still to be read. *)
LEMMA ReadForm ==
  ASSUME Inv, NEW n \in 1..Len(replies), NEW all, NEW rest,
         all = client.buffer \o SubSeq(replies, 1, n),
         rest = SubSeq(replies, n + 1, Len(replies))
  PROVE  /\ all \in Seq(Tokens) /\ rest \in Seq(Tokens)
         /\ Single(all) /\ Single(rest)
         /\ Silent(all) \/ Silent(rest)
         /\ Quiet => Silent(all) /\ Silent(rest)
<1> DEFINE front == SubSeq(replies, 1, n)
<1>1. /\ client.buffer \in Seq(Tokens) /\ replies \in Seq(Tokens)
      /\ Single(client.buffer) /\ Single(replies)
      /\ Silent(client.buffer) \/ Silent(replies)
  BY Zenon DEF Inv, Typed, Clients, AnswersOK, OneAnswer
<1>2. /\ front \in Seq(Tokens) /\ rest \in Seq(Tokens)
      /\ Single(front) /\ Single(rest)
      /\ Silent(front) \/ Silent(rest)
      /\ Silent(replies) => Silent(front) /\ Silent(rest)
  BY <1>1, SplitForm, Zenon
<1>3. all = client.buffer \o front
  OBVIOUS
<1> HIDE DEF front
<1>4. all \in Seq(Tokens)
  BY <1>1, <1>2, <1>3, ConcatForm, Zenon
<1>5. /\ Silent(client.buffer) /\ Silent(front) => Silent(all)
      /\ Silent(client.buffer) => Single(all)
      /\ Silent(front) => Single(all)
  BY <1>1, <1>2, <1>3, ConcatSilent, Zenon
<1> QED
  BY <1>1, <1>2, <1>4, <1>5, Zenon DEF Quiet

(* Stripped takes from the front of the tokens, at most all of them. *)
LEMMA StrippedIs ==
  ASSUME NEW s \in Seq(Tokens)
  PROVE  \E m \in 1..Len(s) + 1 : Stripped(s) = SubSeq(s, m, Len(s))
<1> DEFINE blank == {n \in 0..Len(s) : \A i \in 1..n : s[i] = "space"}
           m == Cardinality(blank)
<1>1. Len(s) \in Nat
  OBVIOUS
<1>2. /\ IsFiniteSet(0..Len(s)) /\ Cardinality(0..Len(s)) = Len(s) + 1
  <2>1. 0 \in Int /\ Len(s) \in Int /\ ~(0 > Len(s))
    BY <1>1
  <2>2. /\ IsFiniteSet(0..Len(s))
        /\ Cardinality(0..Len(s)) = IF 0 > Len(s) THEN 0 ELSE Len(s) - 0 + 1
    BY <2>1, FS_Interval, Zenon
  <2> QED
    BY <1>1, <2>1, <2>2
<1>3. IsFiniteSet(blank) /\ m <= Len(s) + 1
  BY <1>2, FS_Subset, Zenon
<1>4. m \in Nat /\ m # 0
  <2>1. 0 \in blank
    BY <1>1
  <2> HIDE DEF blank
  <2>2. blank # {}
    BY <2>1, Zenon
  <2> QED
    BY <1>3, <2>2, FS_CardinalityType, FS_EmptySet, Zenon
<1>5. m \in 1..Len(s) + 1
  BY <1>1, <1>3, <1>4
<1>6. Stripped(s) = SubSeq(s, m, Len(s))
  BY Zenon DEF Stripped
<1> HIDE DEF m
<1> QED
  BY <1>5, <1>6, Zenon

(* The leading space goes, and nothing else does. *)
LEMMA StrippedForm ==
  ASSUME NEW s \in Seq(Tokens)
  PROVE  /\ Stripped(s) \in Seq(Tokens)
         /\ Silent(s) => Silent(Stripped(s))
         /\ Single(s) => Single(Stripped(s))
<1>1. PICK m \in 1..Len(s) + 1 : Stripped(s) = SubSeq(s, m, Len(s))
  BY StrippedIs
<1>2. Len(s) \in m - 1..Len(s)
  OBVIOUS
<1> QED
  BY <1>1, <1>2, PartForm, PartSilent, Zenon

(* The text behind an OK: the one O of the text is the first. *)
LEMMA BehindForm ==
  ASSUME NEW s \in Seq(Tokens), Single(s), Len(s) >= 2,
         SubSeq(s, 1, 2) = <<"O", "K">>
  PROVE  /\ ~Silent(s)
         /\ SubSeq(s, 3, Len(s)) \in Seq(Tokens)
         /\ Silent(SubSeq(s, 3, Len(s)))
<1> DEFINE behind == SubSeq(s, 3, Len(s))
<1>1. /\ Len(s) \in Nat /\ 1 \in 1..Len(s) /\ 1 \in 1..Len(s) + 1
      /\ 2 \in 1 - 1..Len(s)
      /\ 3 \in 1..Len(s) + 1 /\ Len(s) \in 3 - 1..Len(s)
  OBVIOUS
<1>2. s[1] = "O"
  <2>1. SubSeq(s, 1, 2)[1] = "O"
    <3>1. <<"O", "K">>[1] = "O"
      OBVIOUS
    <3> QED
      BY <3>1, Zenon
  <2>2. SubSeq(s, 1, 2)[1] = s[1]
    BY <1>1
  <2> QED
    BY <2>1, <2>2, Zenon
<1>3. behind \in Seq(Tokens)
  BY <1>1, PartForm, Zenon
<1>4. ASSUME NEW i \in 1..Len(behind), behind[i] = "O" PROVE FALSE
  <2>1. 3 + i - 1 \in 3..Len(s) /\ behind[i] = s[3 + i - 1]
    BY <1>1, PartForm, Zenon
  <2>2. 3 + i - 1 \in 1..Len(s) /\ 3 + i - 1 # 1
    BY <1>1, <2>1
  <2> QED
    BY <1>1, <1>2, <1>4, <2>1, <2>2, Zenon DEF Single
<1> HIDE DEF behind
<1>5. ~Silent(s)
  BY <1>1, <1>2, Zenon DEF Silent
<1>6. Silent(behind)
  BY <1>4, Zenon DEF Silent
<1> QED
  BY <1>3, <1>5, <1>6 DEF behind

-----------------------------------------------------------------------------
(***************************************************************************)
(* onReadyRead: too little was read, an error, or an OK.                   *)
(***************************************************************************)
LEMMA KeepReadingStep ==
  ASSUME Inv, client.connection = "Connected",
         NEW b \in Seq(Tokens), NEW rest \in Seq(Tokens),
         Single(b), Single(rest), Silent(b) \/ Silent(rest),
         Quiet => Silent(b) /\ Silent(rest),
         Becomes([client EXCEPT !.buffer = b], rest), asked' = asked
  PROVE  Inv' /\ UNCHANGED Control!vars
<1> DEFINE c == [client EXCEPT !.buffer = b]
<1>1. client \in Clients
  BY Zenon DEF Inv, Typed
<1>2. /\ c \in Clients /\ c.buffer = b
      /\ c.connection = client.connection /\ c.recording = client.recording
      /\ c.operation = client.operation /\ c.shutdown = client.shutdown
      /\ c.startMay = client.startMay /\ c.batch = client.batch
      /\ c.unsent = client.unsent /\ c.sent = client.sent
      /\ c.commandTimer = client.commandTimer
  BY <1>1 DEF Clients
<1>3. Becomes(c, rest)
  OBVIOUS
<1> HIDE DEF c
<1>4. client' = c /\ replies' = rest /\ UNCHANGED <<link, recorder>>
  BY <1>2, <1>3, StaysForm, Zenon
<1>5. Inv'
  <2>1. Typed'
    BY <1>2, <1>4, Zenon DEF Inv, Typed
  <2>2. Rested(client') \/ Working(client')
    BY <1>2, <1>4, Zenon DEF Inv, Rested, Working, MarksStart, Resting
  <2>3. SentOK(client') /\ (link' => client'.connection = "Connected")
    BY <1>2, <1>4, Zenon DEF Inv, SentOK
  <2>4. AnswersOK'
    BY <1>2, <1>4, Zenon DEF Inv, AnswersOK, Answered, Quiet, OneAnswer,
       AnswerIsTrue, MarksStart
  <2> QED
    BY <2>1, <2>2, <2>3, <2>4, Zenon DEF Inv
<1>6. View(recorder)' = View(recorder)
  BY <1>4 DEF View
<1> QED
  BY <1>2, <1>4, <1>5, <1>6, Zenon DEF Control!vars, View

(* The client after an OK, before its next command. *)
LEMMA ConfirmedForm ==
  ASSUME Inv, client.batch # NoBatch, NEW b \in Seq(Tokens), NEW e,
         e = [client EXCEPT !.commandTimer = FALSE, !.buffer = b,
                            !.batch.next = @ + 1]
  PROVE  /\ e \in Clients
         /\ e.buffer = b
         /\ e.connection = client.connection /\ e.recording = client.recording
         /\ e.operation = client.operation /\ e.shutdown = client.shutdown
         /\ e.startMay = client.startMay
         /\ e.unsent = client.unsent /\ e.sent = client.sent
         /\ e.batch.operation = client.batch.operation
         /\ e.batch.commands = client.batch.commands
         /\ e.batch.next = client.batch.next + 1
<1> DEFINE next == [client.batch EXCEPT !.next = @ + 1]
<1>1. client \in Clients /\ client.batch \in Batches
  BY Zenon DEF Inv, Typed, Clients
<1>2. /\ next \in Batches
      /\ next.operation = client.batch.operation
      /\ next.commands = client.batch.commands
      /\ next.next = client.batch.next + 1
  BY <1>1 DEF Batches
<1>3. e = [client EXCEPT !.commandTimer = FALSE, !.buffer = b, !.batch = next]
  BY <1>1 DEF Clients
<1> HIDE DEF next
<1>4. /\ e \in Clients /\ e.buffer = b /\ e.batch = next
      /\ e.connection = client.connection /\ e.recording = client.recording
      /\ e.operation = client.operation /\ e.shutdown = client.shutdown
      /\ e.startMay = client.startMay
      /\ e.unsent = client.unsent /\ e.sent = client.sent
  BY <1>1, <1>2, <1>3 DEF Clients
<1> QED
  BY <1>2, <1>4, Zenon

(* The shape of a batch does not depend on which command is its next. *)
LEMMA ShapeMoves ==
  ASSUME NEW b, NEW d, Shape(b), d.operation = b.operation,
         d.commands = b.commands, d.next \in 1..Len(d.commands)
  PROVE  Shape(d)
<1> DEFINE commands == b.commands
<1>1. b.commands = commands /\ d.commands = commands
  OBVIOUS
<1> HIDE DEF commands
<1> QED
  BY <1>1, Zenon DEF Shape

(* Another command of the batch is to be sent. *)
LEMMA NextCommandStep ==
  ASSUME Inv, client.connection = "Connected", Answered,
         NEW b \in Seq(Tokens), Silent(b), NEW rest \in Seq(Tokens), Silent(rest),
         NEW e, e = [client EXCEPT !.commandTimer = FALSE, !.buffer = b,
                                   !.batch.next = @ + 1],
         ~Finished(e.batch), NEW c \in Write(e), Becomes(c, rest), asked' = asked
  PROVE  Inv' /\ (Control!SendStart \/ Control!Lose \/ UNCHANGED Control!vars)
<1>1. /\ client.batch # NoBatch /\ client.unsent = "none" /\ client.sent = <<>>
      /\ Working(client) /\ client \in Clients
      /\ asked' \in Files \cup {NoFile}
  BY Zenon DEF Inv, Answered, Rested, Typed
<1>2. /\ e \in Clients /\ e.buffer = b
      /\ e.connection = client.connection /\ e.recording = client.recording
      /\ e.operation = client.operation /\ e.shutdown = client.shutdown
      /\ e.startMay = client.startMay
      /\ e.unsent = client.unsent /\ e.sent = client.sent
      /\ e.batch.operation = client.batch.operation
      /\ e.batch.commands = client.batch.commands
      /\ e.batch.next = client.batch.next + 1
  BY <1>1, ConfirmedForm, Zenon
<1>3. client.batch.next \in 1..Len(client.batch.commands)
  BY <1>1, Zenon DEF Working, Shape
<1>4. /\ client.batch.commands \in Seq(Commands)
      /\ client.batch.operation \in Operating
  BY <1>1, Zenon DEF Clients, Batches, Working, Shape
<1>5. e.batch.next \in 1..Len(e.batch.commands) /\ Len(e.batch.commands) \in Nat
  BY <1>2, <1>3, <1>4 DEF Finished
<1>6. e.batch # NoBatch
  <2>1. NoBatch.operation = "Idle" /\ "Idle" \notin Operating
    BY DEF NoBatch, Operating
  <2> QED
    BY <1>2, <1>4, <2>1, Zenon
<1>7. InBatch(e)
  <2>1. Shape(e.batch)
    BY <1>1, <1>2, <1>5, ShapeMoves, Zenon DEF Working
  <2> QED
    BY <1>1, <1>2, <1>6, <2>1, Zenon DEF InBatch, Working
<1>8. ~(e.unsent = "rest")
  BY <1>1, <1>2
<1>9. Lost(e, c, "Error") \/ Proceeds(e, c)
  BY <1>2, <1>7, <1>8, WriteForm
<1>10. CASE Lost(e, c, "Error")
  <2>1. Lost(client, c, "Error")
    BY <1>2, <1>10, Zenon DEF Lost
  <2> QED
    BY <1>1, <2>1, LostStep
<1>11. CASE Proceeds(e, c)
  BY <1>1, <1>2, <1>11, ProceedStep, Zenon
<1> QED
  BY <1>9, <1>10, <1>11

(* The last command of the batch was confirmed. *)
LEMMA ConfirmStep ==
  ASSUME Inv, client.connection = "Connected", Answered, AnswerIsTrue,
         NEW b \in Seq(Tokens), NEW rest \in Seq(Tokens), Silent(rest),
         NEW e, e = [client EXCEPT !.commandTimer = FALSE, !.buffer = b,
                                   !.batch.next = @ + 1],
         Finished(e.batch), NEW c \in finishActiveBatch(e, TRUE),
         Becomes(c, rest), asked' = asked
  PROVE  Inv' /\ (Control!Confirm \/ Control!Lose)
<1> DEFINE f == Finish(e, TRUE)
<1>1. /\ client.batch # NoBatch /\ client.unsent = "none" /\ client.sent = <<>>
      /\ Working(client) /\ client \in Clients
      /\ asked' \in Files \cup {NoFile}
      /\ client.startMay \in BOOLEAN
  BY Zenon DEF Inv, Answered, Rested, Typed, Clients
<1>2. /\ e \in Clients
      /\ e.connection = client.connection /\ e.recording = client.recording
      /\ e.shutdown = client.shutdown /\ e.startMay = client.startMay
      /\ e.sent = client.sent
      /\ e.batch.operation = client.batch.operation
      /\ e.batch.commands = client.batch.commands
      /\ e.batch.next = client.batch.next + 1
  BY <1>1, ConfirmedForm, Zenon
<1>3. /\ client.batch.operation \in Operating
      /\ client.operation = client.batch.operation
  BY <1>1, Zenon DEF Working, Shape
<1>4. client.batch.operation = "Starting" => MarksStart(client)
  <2>1. client.batch.next \in 1..Len(client.batch.commands)
    BY <1>1, Zenon DEF Working, Shape
  <2>2. client.batch.commands \in Seq(Commands)
    BY <1>1, Zenon DEF Clients, Batches
  <2>3. client.batch.next = Len(client.batch.commands)
    BY <1>2, <2>1, <2>2 DEF Finished
  <2>4. CASE client.batch.operation = "Starting"
    <3>1. client.batch.operation # "Stopping"
      BY <2>4
    <3>2. client.batch.commands[client.batch.next].name = "start"
      BY <1>1, <2>1, <2>3, <2>4, <3>1, Zenon DEF Working, Shape
    <3> QED
      BY <2>4, <3>2, Zenon DEF MarksStart
  <2> QED
    BY <2>4
<1>5. /\ f \in Clients /\ f.connection = "Connected"
      /\ f.recording = Outcome(e)
      /\ f.startMay = (e.startMay /\ ~(TRUE /\ e.batch.operation = "Stopping"))
      /\ f.shutdown = client.shutdown /\ f.sent = <<>>
      /\ f.batch = NoBatch /\ f.unsent = "none" /\ f.buffer = <<>>
      /\ f.commandTimer = FALSE
  <2>1. /\ f \in Clients /\ f.connection = e.connection
        /\ f.recording = (IF TRUE THEN Outcome(e) ELSE "Unknown")
        /\ f.startMay = (e.startMay /\ ~(TRUE /\ e.batch.operation = "Stopping"))
        /\ f.shutdown = e.shutdown /\ f.sent = e.sent
        /\ f.batch = NoBatch /\ f.unsent = "none" /\ f.buffer = <<>>
        /\ f.commandTimer = FALSE
    BY <1>2, FinishForm, Zenon
  <2> HIDE DEF f
  <2> QED
    BY <1>1, <1>2, <2>1, Zenon
<1>6. c \in continueShutdown(f)
  BY Zenon DEF finishActiveBatch, Finish
<1> HIDE DEF f
<1>7. \/ /\ client.operation \in {"Refreshing", "UpdatingFilename"}
         /\ f.recording = client.recording /\ f.startMay = client.startMay
      \/ /\ client.operation = "Starting" /\ client.startMay
         /\ link => recorder.recording
         /\ f.recording = "Recording" /\ f.startMay = client.startMay
      \/ /\ client.operation = "Stopping" /\ ~recorder.recording
         /\ f.recording = "Stopped" /\ f.startMay = FALSE
  <2>1. CASE client.operation \in {"Refreshing", "UpdatingFilename"}
    <3>1. client.operation # "Starting" /\ client.operation # "Stopping"
      BY <2>1
    <3>2. f.recording = client.recording
      BY <1>2, <1>3, <1>5, <3>1 DEF Outcome
    <3>3. f.startMay = client.startMay
      BY <1>1, <1>2, <1>3, <1>5, <3>1, Zenon
    <3> QED
      BY <2>1, <3>2, <3>3, Zenon
  <2>2. CASE client.operation = "Starting"
    <3>1. client.startMay /\ (link => recorder.recording)
      <4>1. client.unsent # "all"
        BY <1>1
      <4> QED
        BY <1>1, <1>3, <1>4, <2>2, <4>1, Zenon DEF Working, AnswerIsTrue
    <3>2. f.recording = "Recording"
      BY <1>2, <1>3, <1>5, <2>2 DEF Outcome
    <3>3. client.operation # "Stopping"
      BY <2>2
    <3>4. f.startMay = client.startMay
      BY <1>1, <1>2, <1>3, <1>5, <3>3, Zenon
    <3> QED
      BY <2>2, <3>1, <3>2, <3>4, Zenon
  <2>3. CASE client.operation = "Stopping"
    <3>1. f.recording = "Stopped"
      BY <1>2, <1>3, <1>5, <2>3 DEF Outcome
    <3>2. f.startMay = FALSE
      BY <1>2, <1>3, <1>5, <2>3, Zenon
    <3>3. ~recorder.recording
      BY <1>3, <2>3, Zenon DEF AnswerIsTrue
    <3> QED
      BY <2>3, <3>1, <3>2, <3>3, Zenon
  <2> QED
    BY <1>3, <2>1, <2>2, <2>3, Zenon DEF Operating
<1>8. Control!Owed(f.startMay, f.recording) <=> Owed(f)
  BY Zenon DEF Control!Owed, Owed
<1>9. IF f.shutdown /\ Owed(f)
      THEN Lost(f, c, "Error") \/ Began(f, c, "Stopping")
      ELSE Settled(f, c, f.recording)
  BY <1>5, <1>6, ShutdownForm, Zenon
<1>10. CASE f.shutdown /\ Owed(f) /\ Lost(f, c, "Error")
  <2>1. f.startMay = client.startMay
    <3>1. "Stopped" # "Recording"
      OBVIOUS
    <3> QED
      BY <1>7, <1>10, <3>1, Zenon DEF Owed
  <2>2. Lost(client, c, "Error")
    BY <1>1, <1>5, <1>10, <2>1, Zenon DEF Lost
  <2> QED
    BY <1>1, <2>2, LostStep
<1>11. CASE f.shutdown /\ Owed(f) /\ Began(f, c, "Stopping")
  <2>1. client' = c /\ replies' = rest /\ UNCHANGED <<link, recorder>>
    BY <1>5, <1>11, StaysForm, Zenon DEF Began
  <2>2. Inv'
    BY <1>1, <1>5, <1>11, <2>1, BeganInv, Zenon
  <2>3. View(recorder)' = View(recorder) /\ View(recorder).recording = recorder.recording
    BY <2>1 DEF View
  <2>4. /\ client'.connection = client.connection
        /\ client'.recording = f.recording /\ client'.startMay = f.startMay
        /\ client'.operation = "Stopping" /\ client'.shutdown = client.shutdown
    BY <1>5, <1>11, <2>1, Zenon DEF Began
  <2>5. Control!Confirm
    BY <1>5, <1>7, <1>8, <1>11, <2>1, <2>3, <2>4, Zenon
       DEF Control!Confirm, View
  <2> QED
    BY <2>2, <2>5
<1>12. CASE ~(f.shutdown /\ Owed(f)) /\ Settled(f, c, f.recording)
  <2>1. client' = c /\ replies' = rest /\ UNCHANGED <<link, recorder>>
    BY <1>5, <1>12, StaysForm, Zenon DEF Settled
  <2>2. /\ c \in Clients /\ Rested(c) /\ c.connection = "Connected"
        /\ c.recording = f.recording /\ c.shutdown = client.shutdown
        /\ c.startMay = f.startMay /\ c.sent = <<>> /\ c.buffer = <<>>
    BY <1>5, <1>12, Zenon DEF Settled
  <2>3. Inv'
    BY <1>1, <2>1, <2>2, SilentEmpty, RestedInv, Zenon DEF Inv, Typed
  <2>4. View(recorder)' = View(recorder) /\ View(recorder).recording = recorder.recording
    BY <2>1 DEF View
  <2>5. c.operation = IF client.shutdown THEN "ShuttingDown" ELSE "Idle"
    BY <2>2, Zenon DEF Rested, Resting
  <2>6. Control!Confirm
    BY <1>5, <1>7, <1>8, <1>12, <2>1, <2>2, <2>4, <2>5, Zenon
       DEF Control!Confirm, Control!Resting, View
  <2> QED
    BY <2>3, <2>6
<1> QED
  BY <1>9, <1>10, <1>11, <1>12, Zenon

(* onReadyRead. *)
LEMMA ReadStep ==
  ASSUME Inv, onReadyRead
  PROVE  /\ Inv'
         /\ Control!SendStart \/ Control!Confirm \/ Control!Lose
            \/ UNCHANGED Control!vars
<1>1. /\ client.connection = "Connected" /\ client \in Clients
      /\ asked' = asked /\ asked' \in Files \cup {NoFile}
  BY Zenon DEF onReadyRead, isConnected, Inv, Typed
<1>2. PICK n \in 1..Len(replies) :
        LET rest == SubSeq(replies, n + 1, Len(replies))
            all == client.buffer \o SubSeq(replies, 1, n)
            text == Stripped(all)
        IN  IF client.batch = NoBatch \/ client.unsent # "none"
            THEN Becomes([client EXCEPT !.buffer = all], rest)
            ELSE IF Len(text) < 2
            THEN Becomes([client EXCEPT !.buffer = text], rest)
            ELSE IF SubSeq(text, 1, 2) # <<"O", "K">>
            THEN Becomes(failActiveConnection(client), rest)
            ELSE \E c \in writeNextCommand(
                            [client EXCEPT !.commandTimer = FALSE,
                                           !.buffer = SubSeq(text, 3, Len(text)),
                                           !.batch.next = @ + 1]) :
                   Becomes(c, rest)
  BY Zenon DEF onReadyRead
<1> DEFINE rest == SubSeq(replies, n + 1, Len(replies))
           all == client.buffer \o SubSeq(replies, 1, n)
           text == Stripped(all)
           behind == SubSeq(text, 3, Len(text))
           e == [client EXCEPT !.commandTimer = FALSE, !.buffer = behind,
                               !.batch.next = @ + 1]
<1>3. /\ all \in Seq(Tokens) /\ rest \in Seq(Tokens)
      /\ Single(all) /\ Single(rest)
      /\ Silent(all) \/ Silent(rest)
      /\ Quiet => Silent(all) /\ Silent(rest)
  BY ReadForm, Zenon
<1> HIDE DEF rest, all
<1>4. /\ text \in Seq(Tokens)
      /\ Single(text)
      /\ Silent(text) \/ Silent(rest)
      /\ Quiet => Silent(text) /\ Silent(rest)
      /\ Silent(all) => Silent(text)
  BY <1>3, StrippedForm, Zenon
<1> HIDE DEF text
<1>5. CASE Becomes([client EXCEPT !.buffer = all], rest)
  BY <1>1, <1>3, <1>5, KeepReadingStep, Zenon
<1>6. CASE Becomes([client EXCEPT !.buffer = text], rest)
  BY <1>1, <1>3, <1>4, <1>6, KeepReadingStep, Zenon
<1>7. CASE Becomes(failActiveConnection(client), rest)
  <2>1. Lost(client, failActiveConnection(client), "Error")
    BY <1>1, LoseForm, Zenon DEF failActiveConnection
  <2> QED
    BY <1>1, <1>7, <2>1, LostStep
<1>8. CASE /\ Len(text) >= 2 /\ SubSeq(text, 1, 2) = <<"O", "K">>
           /\ \E c \in writeNextCommand(e) : Becomes(c, rest)
  <2>1. ~Silent(text) /\ behind \in Seq(Tokens) /\ Silent(behind)
    BY <1>4, <1>8, BehindForm
  <2>2. Silent(rest) /\ Answered /\ AnswerIsTrue
    BY <1>4, <2>1, Zenon DEF Inv, AnswersOK
  <2>3. PICK c \in writeNextCommand(e) : Becomes(c, rest)
    BY <1>8, Zenon
  <2> HIDE DEF behind
  <2>4. CASE Finished(e.batch)
    <3>1. c \in finishActiveBatch(e, TRUE)
      BY <2>3, <2>4, Zenon DEF writeNextCommand
    <3> QED
      BY <1>1, <1>3, <2>1, <2>2, <2>3, <2>4, <3>1, ConfirmStep, Zenon
  <2>5. CASE ~Finished(e.batch)
    <3>1. c \in Write(e)
      BY <2>3, <2>5, Zenon DEF writeNextCommand
    <3> QED
      BY <1>1, <1>3, <2>1, <2>2, <2>3, <2>5, <3>1, NextCommandStep, Zenon
  <2> QED
    BY <2>4, <2>5, Zenon
<1>9. \/ Becomes([client EXCEPT !.buffer = all], rest)
      \/ Becomes([client EXCEPT !.buffer = text], rest)
      \/ Becomes(failActiveConnection(client), rest)
      \/ /\ ~(Len(text) < 2) /\ SubSeq(text, 1, 2) = <<"O", "K">>
         /\ \E c \in writeNextCommand(e) : Becomes(c, rest)
  BY <1>2, Zenon DEF rest, all, text, behind, e
<1>10. ~(Len(text) < 2) => Len(text) >= 2
  BY <1>4
<1> QED
  BY <1>5, <1>6, <1>7, <1>8, <1>9, <1>10, Zenon
-----------------------------------------------------------------------------
(***************************************************************************)
(* Every step keeps the invariant, and is a step of the control or none.   *)
(***************************************************************************)
LEMMA InitForm == Init => Inv /\ Control!Init
<1> SUFFICES ASSUME Init PROVE Inv /\ Control!Init
  OBVIOUS
<1>1. /\ client \in Clients
      /\ client.connection = "Disconnected" /\ client.recording = "Unknown"
      /\ client.operation = "Idle" /\ client.shutdown = FALSE
      /\ client.startMay = FALSE /\ client.batch = NoBatch
      /\ client.unsent = "none" /\ client.sent = <<>>
      /\ client.buffer = <<>> /\ client.commandTimer = FALSE
  <2>1. <<>> \in Seq(Commands) /\ <<>> \in Seq(Tokens)
    OBVIOUS
  <2> QED
    BY <2>1, NoBatchTyped DEF Init, Clients
<1>2. /\ recorder \in Recorders
      /\ recorder.recording = FALSE /\ recorder.letGo = FALSE
  BY DEF Init, Recorders
<1>3. /\ link = FALSE /\ link \in BOOLEAN
      /\ replies = <<>> /\ asked \in Files \cup {NoFile}
  BY DEF Init
<1>4. Rested(client)
  BY <1>1, Zenon DEF Rested, Resting
<1>5. AnswersOK
  BY <1>1, <1>3, SilentEmpty, Zenon DEF AnswersOK, Quiet, OneAnswer
<1>6. Typed
  BY <1>1, <1>2, <1>3, SilentEmpty, Zenon DEF Typed
<1>7. Inv
  BY <1>1, <1>3, <1>4, <1>5, <1>6, Zenon DEF Inv, SentOK
<1>8. Control!Init
  BY <1>1, <1>2, <1>3, Zenon DEF Control!Init
<1> QED
  BY <1>7, <1>8

(* A step that changes nothing. *)
LEMMA StutterStep ==
  ASSUME Inv, UNCHANGED vars PROVE Inv' /\ UNCHANGED Control!vars
<1>1. /\ client' = client /\ link' = link /\ replies' = replies
      /\ recorder' = recorder /\ asked' = asked
  BY Zenon DEF vars
<1>2. Inv'
  <2>1. Typed' /\ (Rested(client') \/ Working(client')) /\ SentOK(client')
    BY <1>1, Zenon DEF Inv, Typed
  <2>2. AnswersOK'
    BY <1>1, Zenon DEF Inv, AnswersOK, Answered, Quiet, OneAnswer,
       AnswerIsTrue, MarksStart
  <2> QED
    BY <1>1, <2>1, <2>2, Zenon DEF Inv
<1> QED
  BY <1>1, <1>2, Zenon DEF Control!vars

(* Next, step by step. *)
LEMMA NextStep ==
  ASSUME Inv, [Next]_vars PROVE Inv' /\ [Control!Next]_(Control!vars)
<1>1. CASE connectToServer
  BY <1>1, ConnectStep, Zenon DEF Control!Next
<1>2. CASE disconnectFromServer
  BY <1>2, DetachStep, Zenon DEF Control!Next
<1>3. CASE \/ refreshStreams
           \/ stopRecording
           \/ \E file \in Files :
                updateFilename(file)
                  \/ \E all \in BOOLEAN : startRecording(file, all)
  BY <1>3, OperationStep, Zenon
<1>4. CASE beginShutdown
  BY <1>4, ShutdownInBatch, ShutdownAtRest, Zenon DEF Control!Next
<1>5. CASE onConnected
  BY <1>5, OpenedStep, Zenon DEF Control!Next
<1>6. CASE \/ onDisconnected \/ onSocketError
           \/ onConnectionTimeout \/ onCommandTimeout
  BY <1>6, FailureStep, Zenon DEF Control!Next
<1>7. CASE onBytesWritten
  BY <1>7, BytesWrittenStep, Zenon DEF Control!Next
<1>8. CASE onReadyRead
  BY <1>8, ReadStep, Zenon DEF Control!Next
<1>9. CASE RecorderAnswers
  BY <1>9, AnswersStep, Zenon DEF Control!Next
<1>10. CASE LinkLost \/ RecorderDies
  BY <1>10, GoneStep, Zenon DEF Control!Next
<1>11. CASE UNCHANGED vars
  BY <1>11, StutterStep, Zenon
<1> QED
  BY <1>1, <1>2, <1>3, <1>4, <1>5, <1>6, <1>7, <1>8, <1>9, <1>10, <1>11, Zenon
     DEF Next, Operations, Slots

(***************************************************************************)
(* The client keeps its invariant: an OK is to be read only while it waits *)
(* for the answer to a command that the recorder has carried out.          *)
(***************************************************************************)
THEOREM ClientSafe == Spec => []Inv
<1>1. Init => Inv
  BY InitForm
<1>2. Inv /\ [Next]_vars => Inv'
  BY NextStep
<1> QED
  BY <1>1, <1>2, PTL DEF Spec

(***************************************************************************)
(* The client keeps the promise that the window relies on: each of its     *)
(* slots is one step of the abstract control of the recorder, or none.     *)
(***************************************************************************)
THEOREM ClientImplementsControl == Spec => ImplementsControl
<1>1. Init => Control!Init
  BY InitForm
<1>2. Inv /\ [Next]_vars => [Control!Next]_(Control!vars)
  BY NextStep
<1> QED
  BY <1>1, <1>2, ClientSafe, PTL DEF Spec, ImplementsControl, Control!Spec

-----------------------------------------------------------------------------
(***************************************************************************)
(* The abstract control keeps its promise with every one of its steps.     *)
(***************************************************************************)
Watched == [recording : BOOLEAN, letGo : BOOLEAN]

ControlInv ==
  /\ client.startMay \in BOOLEAN
  /\ View(recorder) \in Watched
  /\ Control!Remembered
  /\ Control!Truthful

(* What an operation has sent does no more than its name says. *)
LEMMA EffectsBounded ==
  ASSUME View(recorder) \in Watched, NEW after \in Control!Effects
  PROVE  /\ after \in Watched
         /\ \/ after = View(recorder)
            \/ /\ client.operation = "Starting" /\ client.startMay
               /\ after.recording /\ after.letGo = View(recorder).letGo
            \/ client.operation = "Stopping" /\ ~after.recording
<1>1. CASE after = View(recorder)
  BY <1>1
<1>2. CASE /\ client.operation = "Starting" /\ client.startMay
           /\ after = [recording |-> TRUE, letGo |-> View(recorder).letGo]
  BY <1>2 DEF Watched, View
<1>3. CASE client.operation = "Stopping" /\ after = Control!Halted
  BY <1>3 DEF Watched, View, Control!Halted
<1> QED
  BY <1>1, <1>2, <1>3, Zenon DEF Control!Effects, View

LEMMA ControlStep == ControlInv /\ [Control!Next]_(Control!vars) => ControlInv'
<1> SUFFICES ASSUME ControlInv, [Control!Next]_(Control!vars) PROVE ControlInv'
  OBVIOUS
<1> USE DEF ControlInv, View, Control!Remembered, Control!Truthful, Watched
<1>1. CASE Control!Connect \/ Control!Opened
  BY <1>1 DEF Control!Connect, Control!Opened
<1>2. CASE Control!Detach
  <2>1. PICK after \in Control!Effects \cup (IF client.shutdown /\ client.startMay THEN {Control!Halted} ELSE {}) :
          View(recorder)' = [recording |-> after.recording,
                       letGo |-> after.letGo \/ client.startMay]
    BY <1>2 DEF Control!Detach
  <2>2. after \in Watched /\ (after.recording => client.startMay \/ after.letGo)
    <3>1. CASE after \in Control!Effects
      BY <3>1, EffectsBounded
    <3>2. CASE after = Control!Halted
      BY <3>2 DEF Control!Halted
    <3> QED
      BY <2>1, <3>1, <3>2, Zenon
  <2>3. /\ View(recorder)' \in Watched
        /\ View(recorder)'.recording = after.recording
        /\ View(recorder)'.letGo = (after.letGo \/ client.startMay)
    BY <2>1, <2>2
  <2> QED
    BY <1>2, <2>2, <2>3 DEF Control!Detach
<1>3. CASE Control!SendStart
  BY <1>3 DEF Control!SendStart
<1>4. CASE Control!Confirm
  BY <1>4 DEF Control!Confirm, Control!Owed, Control!Resting
<1>5. CASE Control!Lose
  BY <1>5, EffectsBounded DEF Control!Lose
<1>6. ASSUME NEW requested \in Control!Operating, Control!Request(requested) PROVE ControlInv'
  BY <1>6 DEF Control!Request, Control!Owed
<1>7. CASE Control!BeginShutdown
  BY <1>7 DEF Control!BeginShutdown, Control!Owed
<1>8. CASE Control!RecorderActs
  BY <1>8, EffectsBounded DEF Control!RecorderActs
<1>9. CASE Control!RecorderGone
  <2>1. View(recorder)' = View(recorder) \/ View(recorder)' = Control!Halted
    BY <1>9, Zenon DEF Control!RecorderGone
  <2>2. View(recorder)' \in Watched /\ (View(recorder)'.recording => View(recorder)' = View(recorder))
    <3>1. CASE View(recorder)' = View(recorder)
      BY <3>1
    <3>2. CASE View(recorder)' = Control!Halted
      BY <3>2 DEF Control!Halted
    <3> QED
      BY <2>1, <3>1, <3>2, Zenon
  <2> QED
    BY <1>9, <2>2, Zenon DEF Control!RecorderGone
<1>10. CASE UNCHANGED (Control!vars)
  BY <1>10 DEF Control!vars
<1> QED
  BY <1>1, <1>2, <1>3, <1>4, <1>5, <1>6, <1>7, <1>8, <1>9, <1>10 DEF Control!Next

(***************************************************************************)
(* Under the abstract control a recording is never forgotten and a         *)
(* confirmed state is never wrong.                                         *)
(***************************************************************************)
THEOREM ControlKeepsPromise == Control!Spec => [](Control!Remembered /\ Control!Truthful)
<1>1. Control!Init => ControlInv
  <2> SUFFICES ASSUME Control!Init PROVE ControlInv
    OBVIOUS
  <2>1. View(recorder) \in Watched /\ ~View(recorder).recording
    BY DEF Control!Init, Watched, View
  <2> QED
    BY <2>1, Zenon DEF View, Control!Init, ControlInv, Control!Remembered, Control!Truthful
<1>2. ControlInv => Control!Remembered /\ Control!Truthful
  BY DEF ControlInv
<1> QED
  BY <1>1, <1>2, ControlStep, PTL DEF Control!Spec

(* So does the client, which implements it. *)
LEMMA PromiseKept == Spec => [](Control!Remembered /\ Control!Truthful)
BY ClientImplementsControl, ControlKeepsPromise, PTL DEF ImplementsControl

(***************************************************************************)
(* Outside a batch nothing is left to be written and no timer runs that    *)
(* could fail a later command; inside one the client is connected.         *)
(***************************************************************************)
THEOREM NothingIsLeft == Spec => []NothingLeftBehind
<1>1. Inv => NothingLeftBehind
  BY Zenon DEF Inv, NothingLeftBehind, Rested, Working, SentOK, isConnected
<1> QED
  BY <1>1, ClientSafe, PTL

(***************************************************************************)
(* A recording that the client may have started is never forgotten, even   *)
(* while the line that starts it is still on its way.                      *)
(***************************************************************************)
THEOREM StartStaysRemembered == Spec => []StartIsRemembered
<1>1. Inv /\ Contains(client.sent, Command("start")) => client.startMay
  <2> SUFFICES ASSUME Inv, Contains(client.sent, Command("start"))
               PROVE  client.startMay
    OBVIOUS
  <2> DEFINE command == client.batch.commands[client.batch.next]
  <2>1. client.sent # <<>>
    BY DEF Contains
  <2>2. /\ client.sent = <<command>> /\ client.unsent = "none"
        /\ client.batch # NoBatch /\ Working(client)
    BY <2>1, Zenon DEF Inv, SentOK, Rested
  <2>3. command = Command("start")
    <3> HIDE DEF command
    <3> QED
      BY <2>2 DEF Contains
  <2>4. command.name = "start"
    BY <2>3 DEF Command
  <2>5. client.batch.next \in 1..Len(client.batch.commands)
    BY <2>2, Zenon DEF Working, Shape
  <2>6. client.batch.operation = "Starting"
    <3>1. Command("stop").name # "start"
      BY DEF Command
    <3>2. client.batch.operation # "Stopping"
      BY <2>2, <2>4, <2>5, <3>1 DEF Working, Shape
    <3> QED
      BY <2>2, <2>4, <2>5, <3>2, Zenon DEF Working, Shape
  <2>7. client.unsent # "all"
    BY <2>2
  <2> QED
    BY <2>2, <2>4, <2>6, <2>7, Zenon DEF Working, MarksStart
<1>2. Inv /\ Control!Remembered => StartIsRemembered
  <2> SUFFICES ASSUME Inv, Control!Remembered PROVE StartIsRemembered
    OBVIOUS
  <2> DEFINE sending == Contains(client.sent, Command("start"))
  <2>1. sending => client.startMay
    BY <1>1
  <2> HIDE DEF sending
  <2>2. recorder.recording \/ sending => client.startMay \/ recorder.letGo
    BY <2>1 DEF Control!Remembered
  <2>3. client.recording = "Recording" => client.startMay
    BY DEF Control!Remembered
  <2> QED
    BY <2>2, <2>3, Zenon DEF StartIsRemembered, sending
<1> QED
  BY <1>2, ClientSafe, PromiseKept, PTL

(***************************************************************************)
(* While the connection lives, a confirmed state is the recorder's state,  *)
(* unless the opposite is being asked for just now.                        *)
(***************************************************************************)
THEOREM ConfirmedStaysTrue == Spec => []ConfirmedStateIsTrue
<1>1. Control!Truthful =>
        (link =>
          /\ client.recording = "Recording" /\ client.operation # "Stopping"
               => recorder.recording
          /\ client.recording = "Stopped" /\ client.operation # "Starting"
               => ~recorder.recording)
  BY DEF Control!Truthful
<1>2. Inv => /\ client.batch.operation # "Stopping" => client.operation # "Stopping"
             /\ client.batch.operation # "Starting" => client.operation # "Starting"
  <2>1. Resting(client) # "Stopping" /\ Resting(client) # "Starting"
    BY DEF Resting
  <2> QED
    BY <2>1, Zenon DEF Inv, Rested, Working
<1>3. Inv /\ Control!Truthful => ConfirmedStateIsTrue
  BY <1>1, <1>2, Zenon DEF ConfirmedStateIsTrue
<1> QED
  BY <1>3, ClientSafe, PromiseKept, PTL
-----------------------------------------------------------------------------
(***************************************************************************)
(* What travels on the connection.  The stream is what was read and not    *)
(* taken, and what is still to be read: between two commands at most the   *)
(* space behind an OK is left of it, and while the answer to a command is  *)
(* on its way there is that answer, with nothing but a space behind its    *)
(* OK.  Reading takes from the front of the stream.                        *)
(***************************************************************************)
Blank(tokens) == \A i \in 1..Len(tokens) : tokens[i] = "space"

LeftOver(tokens) == Len(tokens) <= 1 /\ Blank(tokens)

OneReply(tokens) ==
  /\ Len(tokens) <= 4
  /\ \A k \in 1..Len(tokens) : tokens[k] = "K" =>
       /\ Len(tokens) <= k + 1
       /\ \A i \in k + 1..Len(tokens) : tokens[i] = "space"

Traffic ==
  LET stream == client.buffer \o replies
  IN  /\ Len(client.buffer) <= 1
      /\ IF Answered THEN OneReply(stream) ELSE LeftOver(stream)

(* t is what is left of s when some of its front was taken. *)
Ends(t, s) ==
  \E d \in Nat : /\ Len(s) = d + Len(t)
                 /\ \A i \in 1..Len(t) : t[i] = s[d + i]

(* What ends a stream says no more than the stream. *)
LEMMA EndsForm ==
  ASSUME NEW s \in Seq(Tokens), NEW t \in Seq(Tokens), Ends(t, s)
  PROVE  /\ Len(t) <= Len(s)
         /\ Blank(s) => Blank(t)
         /\ LeftOver(s) => LeftOver(t)
         /\ OneReply(s) => OneReply(t)
<1>1. PICK d \in Nat : /\ Len(s) = d + Len(t)
                       /\ \A i \in 1..Len(t) : t[i] = s[d + i]
  BY Zenon DEF Ends
<1>2. Len(s) \in Nat /\ Len(t) \in Nat /\ Len(t) <= Len(s)
  BY <1>1
<1>3. \A i \in 1..Len(t) : d + i \in 1..Len(s) /\ t[i] = s[d + i]
  BY <1>1, <1>2
<1>4. Blank(s) => Blank(t)
  BY <1>3, Zenon DEF Blank
<1>5. ASSUME OneReply(s) PROVE OneReply(t)
  <2>1. ASSUME NEW k \in 1..Len(t), t[k] = "K"
        PROVE  /\ Len(t) <= k + 1
               /\ \A i \in k + 1..Len(t) : t[i] = "space"
    <3>1. /\ Len(s) <= d + k + 1
          /\ \A i \in d + k + 1..Len(s) : s[i] = "space"
      BY <1>3, <1>5, <2>1 DEF OneReply
    <3>2. \A i \in k + 1..Len(t) : d + i \in d + k + 1..Len(s) /\ i \in 1..Len(t)
      BY <1>1, <1>2
    <3> QED
      BY <1>1, <1>2, <1>3, <3>1, <3>2
  <2>2. Len(t) <= 4
    BY <1>2, <1>5 DEF OneReply
  <2> QED
    BY <2>1, <2>2, Zenon DEF OneReply
<1>6. LeftOver(s) => LeftOver(t)
  BY <1>2, <1>4 DEF LeftOver
<1> QED
  BY <1>2, <1>4, <1>5, <1>6

(* Taking the front of a sequence leaves its end, whatever follows it. *)
LEMMA FrontTaken ==
  ASSUME NEW s \in Seq(Tokens), NEW r \in Seq(Tokens), NEW m \in 1..Len(s) + 1
  PROVE  Ends(SubSeq(s, m, Len(s)) \o r, s \o r)
<1> DEFINE t == SubSeq(s, m, Len(s))
<1>1. /\ t \in Seq(Tokens) /\ Len(t) = Len(s) - m + 1 /\ Len(s) \in Nat
      /\ \A i \in 1..Len(t) : t[i] = s[m + i - 1] /\ m + i - 1 \in m..Len(s)
  <2>1. Len(s) \in m - 1..Len(s) /\ Len(s) \in Nat
    OBVIOUS
  <2> QED
    BY <2>1, PartForm, Zenon
<1> HIDE DEF t
<1>2. /\ Len(t \o r) = Len(t) + Len(r) /\ Len(s \o r) = Len(s) + Len(r)
      /\ Len(r) \in Nat /\ Len(t) \in Nat
      /\ \A i \in 1..Len(t) : (t \o r)[i] = t[i]
      /\ \A i \in 1..Len(r) : (t \o r)[Len(t) + i] = r[i]
      /\ \A i \in 1..Len(s) : (s \o r)[i] = s[i]
      /\ \A i \in 1..Len(r) : (s \o r)[Len(s) + i] = r[i]
      /\ \A i \in 1..Len(t \o r) :
           i \in 1..Len(t) \/ \E j \in 1..Len(r) : i = Len(t) + j
  BY <1>1, ConcatForm, Zenon
<1> DEFINE d == m - 1
<1>3. d \in Nat /\ Len(s \o r) = d + Len(t \o r)
  BY <1>1, <1>2
<1>4. ASSUME NEW i \in 1..Len(t) PROVE (t \o r)[i] = (s \o r)[d + i]
  <2>1. /\ t[i] = s[m + i - 1] /\ m + i - 1 \in m..Len(s)
    BY <1>1
  <2>2. m + i - 1 = d + i /\ m + i - 1 \in 1..Len(s)
    BY <1>1, <2>1
  <2> QED
    BY <1>2, <2>1, <2>2, Zenon
<1>5. ASSUME NEW j \in 1..Len(r)
      PROVE  (t \o r)[Len(t) + j] = (s \o r)[d + (Len(t) + j)]
  <2>1. d + (Len(t) + j) = Len(s) + j
    BY <1>1, <1>2
  <2> QED
    BY <1>2, <2>1, Zenon
<1> HIDE DEF d
<1>6. \A i \in 1..Len(t \o r) : (t \o r)[i] = (s \o r)[d + i]
  BY <1>2, <1>4, <1>5, Zenon
<1> QED
  BY <1>3, <1>6, Zenon DEF Ends, t

(* A sequence ends whatever it follows. *)
LEMMA BackIsEnd ==
  ASSUME NEW s \in Seq(Tokens), NEW r \in Seq(Tokens)
  PROVE  Ends(r, s \o r)
<1>1. /\ Len(s \o r) = Len(s) + Len(r) /\ Len(s) \in Nat
      /\ \A i \in 1..Len(r) : (s \o r)[Len(s) + i] = r[i]
  BY ConcatForm, Zenon
<1> QED
  BY <1>1, Zenon DEF Ends

(* An empty sequence leaves the other as it is. *)
LEMMA EmptyFront ==
  ASSUME NEW r \in Seq(Tokens)
  PROVE  <<>> \o r = r /\ r \o <<>> = r
  BY ConcatEmptySeq

(* Three parts of a stream, whichever are put together first. *)
LEMMA TokensAssociate ==
  ASSUME NEW s \in Seq(Tokens), NEW t \in Seq(Tokens), NEW u \in Seq(Tokens)
  PROVE  (s \o t) \o u = s \o (t \o u)
  OBVIOUS

(* The tokens that are read come from the stream, in its order. *)
LEMMA StreamRead ==
  ASSUME NEW b \in Seq(Tokens), NEW r \in Seq(Tokens), NEW n \in 1..Len(r)
  PROVE  (b \o SubSeq(r, 1, n)) \o SubSeq(r, n + 1, Len(r)) = b \o r
<1> DEFINE front == SubSeq(r, 1, n)
           back == SubSeq(r, n + 1, Len(r))
<1>1. /\ Len(r) \in Nat /\ n \in Nat
      /\ 1 \in 1..Len(r) + 1 /\ n \in 1 - 1..Len(r)
      /\ n + 1 \in 1..Len(r) + 1 /\ Len(r) \in (n + 1) - 1..Len(r)
      /\ Len(r) \in n..Len(r)
  OBVIOUS
<1>2. front \in Seq(Tokens) /\ back \in Seq(Tokens)
  BY <1>1, PartForm, Zenon
<1>3. front \o back = SubSeq(r, 1, Len(r))
  BY <1>1, ConcatAdjacentSubSeq, Zenon
<1>4. SubSeq(r, 1, Len(r)) = r
  BY SubSeqFull, Zenon
<1> HIDE DEF front, back
<1>5. (b \o front) \o back = b \o (front \o back)
  BY <1>2, TokensAssociate, Zenon
<1>6. (b \o front) \o back = b \o r
  BY <1>3, <1>4, <1>5, Zenon
<1> QED
  BY <1>6, Zenon DEF front, back

(* Stripped takes from the front of the stream. *)
LEMMA StrippedEnds ==
  ASSUME NEW s \in Seq(Tokens), NEW r \in Seq(Tokens)
  PROVE  Ends(Stripped(s) \o r, s \o r)
<1>1. PICK m \in 1..Len(s) + 1 : Stripped(s) = SubSeq(s, m, Len(s))
  BY StrippedIs
<1> QED
  BY <1>1, FrontTaken, Zenon

(* Behind an OK there is at most the space that follows it. *)
LEMMA BehindLeft ==
  ASSUME NEW text \in Seq(Tokens), NEW rest \in Seq(Tokens),
         OneReply(text \o rest), Len(text) >= 2,
         SubSeq(text, 1, 2) = <<"O", "K">>
  PROVE  LeftOver(SubSeq(text, 3, Len(text)) \o rest)
<1> DEFINE behind == SubSeq(text, 3, Len(text))
           s == text \o rest
           t == behind \o rest
<1>1. /\ Len(text) \in Nat /\ 3 \in 1..Len(text) + 1 /\ 2 \in 1..Len(text)
      /\ Len(text) \in 3 - 1..Len(text)
  OBVIOUS
<1>2. behind \in Seq(Tokens) /\ Len(behind) = Len(text) - 3 + 1
  BY <1>1, PartForm, Zenon
<1>3. Ends(t, s)
  BY <1>1, FrontTaken, Zenon
<1> HIDE DEF behind
<1>4. /\ Len(s) = Len(text) + Len(rest) /\ Len(t) = Len(behind) + Len(rest)
      /\ Len(rest) \in Nat
      /\ \A i \in 1..Len(text) : s[i] = text[i]
      /\ s \in Seq(Tokens) /\ t \in Seq(Tokens)
  BY <1>2, ConcatForm, Zenon
<1>5. text[2] = "K"
  <2>1. SubSeq(text, 1, 2)[2] = "K"
    <3>1. <<"O", "K">>[2] = "K"
      OBVIOUS
    <3> QED
      BY <3>1, Zenon
  <2>2. SubSeq(text, 1, 2)[2] = text[2]
    BY <1>1
  <2> QED
    BY <2>1, <2>2, Zenon
<1>6. s[2] = "K" /\ 2 \in 1..Len(s)
  BY <1>1, <1>4, <1>5
<1>7. PICK d \in Nat : /\ Len(s) = d + Len(t)
                       /\ \A i \in 1..Len(t) : t[i] = s[d + i]
  BY <1>3, Zenon DEF Ends
<1> HIDE DEF s, t
<1>8. /\ Len(s) <= 2 + 1
      /\ \A i \in 2 + 1..Len(s) : s[i] = "space"
  BY <1>6, Zenon DEF OneReply, s
<1>9. d = 2 /\ Len(t) <= 1
  BY <1>1, <1>2, <1>4, <1>7, <1>8
<1>10. Blank(t)
  BY <1>4, <1>7, <1>8, <1>9 DEF Blank
<1> QED
  BY <1>9, <1>10, Zenon DEF LeftOver, t, behind

(* The answer to a command, behind what was left of the last one. *)
LEMMA ReplyForm ==
  ASSUME NEW s \in Seq(Tokens), LeftOver(s)
  PROVE  /\ OneReply(s \o <<"O", "K", "space">>)
         /\ OneReply(s \o <<"E", "R">>)
<1> DEFINE ok == <<"O", "K", "space">>
           error == <<"E", "R">>
<1>1. /\ ok \in Seq(Tokens) /\ error \in Seq(Tokens)
      /\ Len(ok) = 3 /\ Len(error) = 2
      /\ ok[1] = "O" /\ ok[2] = "K" /\ ok[3] = "space"
      /\ error[1] = "E" /\ error[2] = "R"
  BY DEF Tokens
<1> HIDE DEF ok, error
<1>2. /\ Len(s) \in Nat /\ Len(s) <= 1
      /\ \A i \in 1..Len(s) : s[i] = "space"
  BY DEF LeftOver, Blank
<1> DEFINE a == s \o ok
           e == s \o error
<1>3. /\ Len(a) = Len(s) + 3
      /\ \A i \in 1..Len(s) : a[i] = s[i]
      /\ \A i \in 1..Len(ok) : a[Len(s) + i] = ok[i]
  BY <1>1, ConcatForm, Zenon
<1>4. /\ Len(e) = Len(s) + 2
      /\ \A i \in 1..Len(s) : e[i] = s[i]
      /\ \A i \in 1..Len(error) : e[Len(s) + i] = error[i]
  BY <1>1, ConcatForm, Zenon
<1> HIDE DEF a, e
<1>5. /\ a[Len(s) + 1] = "O" /\ a[Len(s) + 2] = "K" /\ a[Len(s) + 3] = "space"
      /\ e[Len(s) + 1] = "E" /\ e[Len(s) + 2] = "R"
  BY <1>1, <1>3, <1>4
<1>6. OneReply(a)
  <2>1. \A k \in 1..Len(a) : k \in 1..Len(s) \/ k = Len(s) + 1 \/ k = Len(s) + 2
                             \/ k = Len(s) + 3
    BY <1>2, <1>3
  <2>2. ASSUME NEW k \in 1..Len(a), a[k] = "K" PROVE k = Len(s) + 2
    BY <1>2, <1>3, <1>5, <2>1, <2>2, SMTT(30)
  <2>3. Len(a) <= 4 /\ Len(a) <= (Len(s) + 2) + 1
        /\ \A i \in (Len(s) + 2) + 1..Len(a) : i = Len(s) + 3
    BY <1>2, <1>3
  <2> QED
    BY <1>5, <2>2, <2>3, Zenon DEF OneReply
<1>7. OneReply(e)
  <2>1. \A k \in 1..Len(e) : k \in 1..Len(s) \/ k = Len(s) + 1 \/ k = Len(s) + 2
    BY <1>2, <1>4
  <2>2. ASSUME NEW k \in 1..Len(e), e[k] = "K" PROVE FALSE
    BY <1>2, <1>4, <1>5, <2>1, <2>2
  <2>3. Len(e) <= 4
    BY <1>2, <1>4
  <2> QED
    BY <2>2, <2>3, Zenon DEF OneReply
<1> QED
  BY <1>6, <1>7 DEF a, e, ok, error
-----------------------------------------------------------------------------
(***************************************************************************)
(* What is known of the file that a Start asks for: its name is the        *)
(* command before the Start, and once that was confirmed, or is about to   *)
(* be, the recorder that is connected has the name.                        *)
(***************************************************************************)
NameGiven ==
  \/ client.batch.next = Len(client.batch.commands)
  \/ client.batch.next = Len(client.batch.commands) - 1 /\ ~Quiet

Named ==
  client.batch.operation = "Starting" =>
    /\ Len(client.batch.commands) >= 2
    /\ client.batch.commands[Len(client.batch.commands) - 1] = Filename(asked)
    /\ link /\ NameGiven => recorder.name = asked

(* No step makes the recorder record to another file. *)
KeepsAsked == ~recorder.recording /\ recorder'.recording => recorder'.file = asked

(* The command of a batch for a recording, carried out. *)
LEMMA ExecuteNamed ==
  ASSUME Inv, Named, link, client.batch # NoBatch, client.unsent = "none",
         NEW after,
         after = Execute(recorder, client.batch.commands[client.batch.next])
  PROVE  /\ ~recorder.recording /\ after.recording => after.file = asked
         /\ client.batch.operation = "Starting" =>
              /\ client.batch.next = Len(client.batch.commands) - 1
                   => after.name = asked
              /\ client.batch.next = Len(client.batch.commands)
                   => after.name = asked
<1> DEFINE command == client.batch.commands[client.batch.next]
<1>1. Working(client) /\ recorder \in Recorders /\ Shape(client.batch)
  BY Zenon DEF Inv, Rested, Typed, Working
<1>2. client.batch.next \in 1..Len(client.batch.commands)
  BY <1>1, Zenon DEF Shape
<1>3. /\ command.name = "start" =>
           /\ client.batch.operation = "Starting"
           /\ client.batch.next = Len(client.batch.commands)
      /\ client.batch.operation = "Starting"
           /\ client.batch.next = Len(client.batch.commands)
         => command.name = "start"
  <2>1. CASE client.batch.operation = "Stopping"
    <3>1. command = Command("stop")
      BY <1>1, <1>2, <2>1 DEF Shape
    <3>2. Command("stop").name # "start"
      BY CommandForms
    <3> HIDE DEF command
    <3> QED
      BY <2>1, <3>1, <3>2
  <2>2. CASE client.batch.operation # "Stopping"
    BY <1>1, <1>2, <2>2, Zenon DEF Shape
  <2> QED
    BY <2>1, <2>2
<1>4. client.batch.operation = "Starting"
        /\ client.batch.next = Len(client.batch.commands) - 1
      => command = Filename(asked)
  BY Zenon DEF Named
<1>5. client.batch.operation = "Starting"
        /\ client.batch.next = Len(client.batch.commands)
      => recorder.name = asked
  BY Zenon DEF Named, NameGiven
<1> DEFINE lines == Len(client.batch.commands)
           n == client.batch.next
           starting == client.batch.operation = "Starting"
<1> HIDE DEF command
<1>6. after = Execute(recorder, command)
  BY DEF command
<1>7. CASE command.name = "start"
  <2>1. \/ after = recorder
        \/ after = [recorder EXCEPT !.recording = TRUE, !.file = recorder.name]
    BY <1>6, <1>7, Zenon DEF Execute
  <2>2. after.name = recorder.name /\ recorder.name = asked
    BY <1>1, <1>3, <1>5, <1>7, <2>1 DEF Recorders
  <2>3. ~recorder.recording /\ after.recording => after.file = recorder.name
    BY <1>1, <2>1 DEF Recorders
  <2> QED
    BY <2>2, <2>3
<1>8. CASE command.name # "start"
  <2>1. ~recorder.recording => ~after.recording
    <3>1. \/ after = recorder
          \/ after = [recorder EXCEPT !.name = command.file]
          \/ after = [recorder EXCEPT !.recording = FALSE, !.letGo = FALSE]
      BY <1>6, <1>8, Zenon DEF Execute
    <3> QED
      BY <1>1, <3>1 DEF Recorders
  <2>2. ASSUME command = Filename(asked) PROVE after.name = asked
    <3>1. command.name = "filename" /\ command.file = asked
      BY <2>2 DEF Filename
    <3>2. after = [recorder EXCEPT !.name = asked]
      BY <1>6, <3>1 DEF Execute
    <3> QED
      BY <1>1, <3>2 DEF Recorders
  <2> QED
    BY <1>3, <1>4, <1>8, <2>1, <2>2, Zenon
<1> QED
  BY <1>7, <1>8

(* What is carried out when the connection goes keeps to the file. *)
LEMMA CarriedOutNamed ==
  ASSUME Inv, Named, link, NEW sent,
         sent = client.sent \/ sent = Append(client.sent, Command("stop")),
         NEW after \in CarriedOut(recorder, sent)
  PROVE  /\ after \in Recorders
         /\ ~recorder.recording /\ after.recording => after.file = asked
<1>1. recorder \in Recorders
  BY Zenon DEF Inv, Typed
<1>2. ASSUME NEW rec \in CarriedOut(recorder, client.sent)
      PROVE  /\ rec \in Recorders
             /\ ~recorder.recording /\ rec.recording => rec.file = asked
  <2>1. rec \in Recorders
    BY <1>2, InFlightForm
  <2>2. CASE client.sent = <<>>
    <3>1. rec = recorder
      BY <1>2, <2>2 DEF CarriedOut
    <3> QED
      BY <1>1, <3>1
  <2>3. CASE /\ client.batch # NoBatch
             /\ client.unsent = "none"
             /\ client.sent = <<client.batch.commands[client.batch.next]>>
    <3> DEFINE command == client.batch.commands[client.batch.next]
    <3>1. rec \in {recorder, Execute(recorder, command)}
      <4> HIDE DEF command
      <4>1. Len(<<command>>) = 1 /\ <<command>>[1] = command
        OBVIOUS
      <4>2. client.sent = <<command>>
        BY <2>3 DEF command
      <4> QED
        BY <1>2, <4>1, <4>2 DEF CarriedOut
    <3> QED
      BY <2>1, <2>3, <3>1, ExecuteNamed
  <2> QED
    BY <2>2, <2>3, Zenon DEF Inv, SentOK
<1>3. CASE sent = client.sent
  BY <1>2, <1>3
<1>4. CASE sent = Append(client.sent, Command("stop"))
  <2> DEFINE Stop == Command("stop")
  <2>1. \/ after \in CarriedOut(recorder, client.sent)
        \/ \E rec \in CarriedOut(recorder, client.sent) : after = Execute(rec, Stop)
    <3> HIDE DEF Stop
    <3>0. sent = Append(client.sent, Stop)
      BY <1>4 DEF Stop
    <3>1. CASE client.sent = <<>>
      <4>1. Len(sent) = 1 /\ sent[1] = Stop
        BY <3>0, <3>1
      <4> QED
        BY <3>1, <4>1 DEF CarriedOut
    <3>2. CASE client.sent = <<client.batch.commands[client.batch.next]>>
      <4> DEFINE command == client.batch.commands[client.batch.next]
      <4> HIDE DEF command
      <4>1. client.sent = <<command>>
        BY <3>2 DEF command
      <4>2. Len(sent) = 2 /\ sent[1] = command /\ sent[2] = Stop
        BY <3>0, <4>1
      <4>3. Len(client.sent) = 1 /\ client.sent[1] = command
        BY <4>1
      <4> QED
        BY <4>2, <4>3 DEF CarriedOut
    <3> QED
      BY <3>1, <3>2, Zenon DEF Inv, SentOK
  <2>2. ASSUME NEW rec \in CarriedOut(recorder, client.sent),
               after = Execute(rec, Stop)
        PROVE  after \in Recorders /\ ~after.recording
    <3>1. rec \in Recorders
      BY <1>2
    <3>2. after \in Recorders /\ View(after) = Control!Halted
      BY <2>2, <3>1, StopHalts
    <3> QED
      BY <3>2 DEF View, Control!Halted
  <2> QED
    BY <1>2, <2>1, <2>2
<1> QED
  BY <1>3, <1>4

-----------------------------------------------------------------------------
(***************************************************************************)
(* Where the connection goes, nothing is left to travel on it.             *)
(***************************************************************************)
LEMMA DropKeeps ==
  ASSUME Inv, Named, NEW c \in Clients, c.connection # "Connected",
         c.batch = NoBatch, LeftOver(c.buffer),
         c.sent = client.sent \/ c.sent = Append(client.sent, Command("stop")),
         NEW rest, Becomes(c, rest)
  PROVE  Traffic' /\ Named' /\ KeepsAsked
<1>1. /\ client'.batch = NoBatch /\ client'.buffer = c.buffer
      /\ replies' = <<>>
      /\ \E after \in IF link THEN CarriedOut(recorder, c.sent)
                      ELSE {recorder} :
           recorder' = [after EXCEPT
             !.letGo = @ \/ (client.startMay /\ ~c.startMay)]
  BY DropForm, Zenon
<1>2. Traffic'
  <2>1. c.buffer \in Seq(Tokens)
    BY DEF Clients
  <2>2. client'.buffer \o replies' = c.buffer
    BY <1>1, <2>1, EmptyFront, Zenon
  <2>3. ~Answered'
    BY <1>1, Zenon DEF Answered
  <2>4. Len(client'.buffer) <= 1
    BY <1>1, Zenon DEF LeftOver
  <2> QED
    BY <2>2, <2>3, <2>4, Zenon DEF Traffic
<1>3. Named'
  <2>1. NoBatch.operation # "Starting"
    BY DEF NoBatch
  <2> QED
    BY <1>1, <2>1, Zenon DEF Named
<1>4. KeepsAsked
  <2>1. PICK after \in IF link THEN CarriedOut(recorder, c.sent) ELSE {recorder} :
          recorder' = [after EXCEPT
            !.letGo = @ \/ (client.startMay /\ ~c.startMay)]
    BY <1>1, Zenon
  <2>2. /\ after \in Recorders
        /\ ~recorder.recording /\ after.recording => after.file = asked
    <3>1. CASE link
      BY <2>1, <3>1, CarriedOutNamed
    <3>2. CASE ~link
      <4>1. recorder \in Recorders /\ after = recorder
        BY <2>1, <3>2, Zenon DEF Inv, Typed
      <4> QED
        BY <4>1
    <3> QED
      BY <3>1, <3>2
  <2>3. recorder'.recording = after.recording /\ recorder'.file = after.file
    BY <2>1, <2>2 DEF Recorders
  <2> QED
    BY <2>2, <2>3, Zenon DEF KeepsAsked
<1> QED
  BY <1>2, <1>3, <1>4

(* A connection that was lost, seen from a client that lost it. *)
LEMMA LostKeeps ==
  ASSUME Inv, Named, NEW c,
         NEW connection \in {"Disconnected", "Connecting", "Error"},
         Lost(client, c, connection), NEW rest, Becomes(c, rest)
  PROVE  Traffic' /\ Named' /\ KeepsAsked
<1>1. /\ c \in Clients /\ c.connection # "Connected" /\ c.batch = NoBatch
      /\ c.buffer = <<>> /\ c.sent = client.sent
  BY Zenon DEF Lost, Rested
<1>2. LeftOver(c.buffer)
  BY <1>1 DEF LeftOver, Blank
<1> QED
  BY <1>1, <1>2, DropKeeps, Zenon

(* Where it lives, the recorder stays as it is. *)
LEMMA StaysKeeps ==
  ASSUME NEW c, c.connection = "Connected", c.buffer \in Seq(Tokens),
         NEW rest \in Seq(Tokens), LeftOver(c.buffer \o rest),
         c.batch = NoBatch \/ c.unsent # "none" \/ c.sent # <<>>,
         Becomes(c, rest)
  PROVE  Traffic' /\ KeepsAsked
<1>1. client' = c /\ replies' = rest /\ recorder' = recorder
  BY StaysForm, Zenon
<1>2. ~Answered'
  BY <1>1, Zenon DEF Answered
<1>3. Len(c.buffer) <= 1
  <2>1. /\ Len(c.buffer \o rest) = Len(c.buffer) + Len(rest)
        /\ Len(c.buffer) \in Nat /\ Len(rest) \in Nat
    BY ConcatForm, Zenon
  <2>2. Len(c.buffer \o rest) <= 1
    BY Zenon DEF LeftOver
  <2> QED
    BY <2>1, <2>2
<1> QED
  BY <1>1, <1>2, <1>3, Zenon DEF Traffic, KeepsAsked
-----------------------------------------------------------------------------
(***************************************************************************)
(* The steps, one by one.  First what they have in common.                 *)
(***************************************************************************)
(* Between two commands only a space can be left to be read. *)
LEMMA LittleLeft ==
  ASSUME Inv, Traffic, ~Answered
  PROVE  /\ client.buffer \in Seq(Tokens) /\ replies \in Seq(Tokens)
         /\ LeftOver(client.buffer \o replies)
         /\ LeftOver(client.buffer) /\ LeftOver(replies)
<1>1. client.buffer \in Seq(Tokens) /\ replies \in Seq(Tokens)
  BY Zenon DEF Inv, Typed, Clients
<1> DEFINE b == client.buffer
           s == b \o replies
<1>2. LeftOver(s) /\ Len(b) <= 1
  BY Zenon DEF Traffic
<1> HIDE DEF b
<1>3. /\ s \in Seq(Tokens) /\ \A i \in 1..Len(b) : s[i] = b[i]
      /\ Len(s) = Len(b) + Len(replies) /\ Len(b) \in Nat /\ Len(replies) \in Nat
  BY <1>1, ConcatForm, Zenon DEF b
<1>4. Ends(replies, s)
  BY <1>1, BackIsEnd, Zenon DEF b
<1> HIDE DEF s
<1>5. LeftOver(replies)
  BY <1>1, <1>2, <1>3, <1>4, EndsForm, Zenon
<1>6. LeftOver(b)
  BY <1>2, <1>3 DEF LeftOver, Blank
<1> QED
  BY <1>1, <1>2, <1>5, <1>6 DEF s, b

(* A step that does not read, write or begin anything. *)
LEMMA SameKeeps ==
  ASSUME Traffic, Named,
         client'.batch = client.batch, client'.unsent = client.unsent,
         client'.sent = client.sent, client'.buffer = client.buffer,
         replies' = replies, asked' = asked,
         \/ client.batch = NoBatch
         \/ ~link'
         \/ link' = link /\ recorder'.name = recorder.name
  PROVE  Traffic' /\ Named'
<1>1. Traffic'
  BY Zenon DEF Traffic, Answered
<1>2. NoBatch.operation # "Starting"
  BY DEF NoBatch
<1>3. Named'
  BY <1>2, Zenon DEF Named, NameGiven, Quiet
<1> QED
  BY <1>1, <1>3

(* A client that began or goes on awaits no answer yet. *)
LEMMA BusyForm ==
  ASSUME NEW e, NEW c, NEW command, e.sent = <<>>,
         IF c.unsent = "none" THEN c.sent = Append(e.sent, command)
                              ELSE c.sent = e.sent
  PROVE  c.unsent # "none" \/ c.sent # <<>>
<1>1. Append(<<>>, command) # <<>>
  OBVIOUS
<1> QED
  BY <1>1, Zenon

(* connectToServer. *)
LEMMA ConnectKeeps ==
  ASSUME Inv, Traffic, Named, connectToServer
  PROVE  Traffic' /\ Named' /\ KeepsAsked
<1> DEFINE lost == LoseConnection(client, "Connecting")
           c == [lost EXCEPT !.connectionTimer = TRUE]
<1>1. Lost(client, lost, "Connecting")
  <2>1. client \in Clients
    BY Zenon DEF Inv, Typed
  <2> QED
    BY <2>1, LoseForm
<1>2. /\ lost \in Clients /\ lost.batch = NoBatch
      /\ lost.connection = "Connecting" /\ lost.sent = client.sent
      /\ lost.buffer = <<>>
  BY <1>1, Zenon DEF Lost, Rested
<1>3. Becomes(c, <<>>)
  BY Zenon DEF connectToServer
<1> HIDE DEF lost
<1>4. /\ c \in Clients /\ c.batch = NoBatch
      /\ c.connection # "Connected" /\ c.sent = client.sent
      /\ c.buffer = <<>>
  BY <1>2 DEF Clients
<1>5. LeftOver(c.buffer)
  BY <1>4 DEF LeftOver, Blank
<1> HIDE DEF c
<1> QED
  BY <1>3, <1>4, <1>5, DropKeeps, Zenon

(* disconnectFromServer. *)
LEMMA DetachKeeps ==
  ASSUME Inv, Traffic, Named, disconnectFromServer
  PROVE  Traffic' /\ Named' /\ KeepsAsked
<1>1. PICK c0 \in IF client.batch = NoBatch THEN {client}
                  ELSE finishActiveBatch(client, FALSE) :
        Becomes([LoseConnection(c0, "Disconnected") EXCEPT !.startMay = FALSE],
                <<>>)
  BY Zenon DEF disconnectFromServer
<1>2. /\ c0 \in Clients
      /\ c0.sent = client.sent \/ c0.sent = Append(client.sent, Command("stop"))
  BY AbandonForm, Zenon
<1> DEFINE lost == LoseConnection(c0, "Disconnected")
           c == [lost EXCEPT !.startMay = FALSE]
<1>3. Lost(c0, lost, "Disconnected")
  BY <1>2, LoseForm
<1>4. /\ lost \in Clients /\ lost.batch = NoBatch
      /\ lost.connection = "Disconnected" /\ lost.sent = c0.sent
      /\ lost.buffer = <<>>
  BY <1>3, Zenon DEF Lost, Rested
<1>5. Becomes(c, <<>>)
  BY <1>1, Zenon
<1> HIDE DEF lost
<1>6. /\ c \in Clients /\ c.batch = NoBatch
      /\ c.connection # "Connected" /\ c.sent = c0.sent
      /\ c.buffer = <<>>
  BY <1>4 DEF Clients
<1>7. LeftOver(c.buffer)
  BY <1>6 DEF LeftOver, Blank
<1> HIDE DEF c
<1> QED
  BY <1>2, <1>5, <1>6, <1>7, DropKeeps, Zenon

(* beginBatch sets the batch that is asked for, if the connection lasts. *)
LEMMA BatchForm ==
  ASSUME NEW c \in Clients, c.connection = "Connected",
         NEW operation \in Operating, NEW commands \in Seq(Commands),
         Shape(Batch(operation, commands)),
         NEW d \in beginBatch(c, operation, commands)
  PROVE  Lost(c, d, "Error") \/ d.batch = Batch(operation, commands)
<1> DEFINE b == Batch(operation, commands)
           e == [c EXCEPT !.batch = b, !.unsent = "none", !.buffer = <<>>,
                          !.operation = operation]
<1>1. b \in Batches /\ b # NoBatch /\ b.operation = operation
  BY DEF Batch, Batches, NoBatch, Operating
<1>2. <<>> \in Seq(Tokens)
  OBVIOUS
<1> HIDE DEF b
<1>3. /\ e \in Clients
      /\ e.batch = b /\ e.unsent = "none" /\ e.buffer = <<>>
      /\ e.operation = operation /\ e.connection = c.connection
      /\ e.recording = c.recording /\ e.shutdown = c.shutdown
      /\ e.startMay = c.startMay /\ e.sent = c.sent
  BY <1>1, <1>2 DEF Clients
<1>4. d \in Write(e)
  BY Zenon DEF beginBatch, b
<1> HIDE DEF e
<1>5. InBatch(e)
  BY <1>1, <1>3, Zenon DEF InBatch, b
<1>6. Lost(e, d, "Error") \/ Proceeds(e, d)
  BY <1>3, <1>4, <1>5, WriteForm
<1>7. Lost(e, d, "Error") => Lost(c, d, "Error")
  BY <1>3, Zenon DEF Lost
<1>8. Proceeds(e, d) => d.batch = b
  BY <1>3, Zenon DEF Proceeds
<1> QED
  BY <1>6, <1>7, <1>8 DEF b

(* A client that has begun a batch and waits for no answer yet. *)
LEMMA BeganKeeps ==
  ASSUME Inv, NEW e, e.sent = <<>>, NEW c, NEW operation,
         Began(e, c, operation), c.connection = "Connected",
         NEW rest \in Seq(Tokens), LeftOver(rest), Becomes(c, rest)
  PROVE  Traffic' /\ KeepsAsked
<1>1. c.buffer = <<>> /\ (c.unsent # "none" \/ c.sent # <<>>)
  BY BusyForm, Zenon DEF Began
<1>2. c.buffer \in Seq(Tokens) /\ c.buffer \o rest = rest
  BY <1>1, EmptyFront
<1> QED
  BY <1>1, <1>2, StaysKeeps, Zenon

(* An operation that was asked for. *)
LEMMA BeginKeeps ==
  ASSUME Inv, Traffic, Named,
         NEW operation \in Operating, NEW commands \in Seq(Commands),
         Shape(Batch(operation, commands)),
         operation = "Starting" => Len(commands) > 1,
         operation = "Starting" =>
           commands[Len(commands) - 1] = Filename(asked'),
         Begin(operation, commands)
  PROVE  Traffic' /\ Named' /\ KeepsAsked
<1>1. PICK c \in beginBatch(client, operation, commands) : Becomes(c, replies)
  BY Zenon DEF Begin
<1>2. /\ client.batch = NoBatch /\ client.connection = "Connected"
      /\ client \in Clients
  BY Zenon DEF Begin, MayBegin, isConnected, Inv, Typed
<1>3. Lost(client, c, "Error") \/ Began(client, c, operation)
  BY <1>1, <1>2, BeginForm
<1>4. CASE Lost(client, c, "Error")
  BY <1>1, <1>4, LostKeeps
<1>5. CASE Began(client, c, operation) /\ ~Lost(client, c, "Error")
  <2>1. client.sent = <<>> /\ Silent(replies) /\ ~Answered
    BY <1>2, RestedQuiet, Zenon DEF Answered
  <2>2. c.connection = "Connected"
    BY <1>2, <1>5, Zenon DEF Began
  <2>3. Traffic' /\ KeepsAsked
    <3>1. LeftOver(replies) /\ replies \in Seq(Tokens)
      BY <2>1, LittleLeft
    <3> QED
      BY <1>1, <1>5, <2>1, <2>2, <3>1, BeganKeeps, Zenon
  <2>4. client' = c /\ replies' = replies
    BY <1>1, <2>2, StaysForm, Zenon
  <2>5. Quiet'
    BY <1>5, <2>1, <2>4, SilentEmpty, Zenon DEF Quiet, Began
  <2>6. /\ client'.batch.operation = operation /\ client'.batch.commands = commands
        /\ client'.batch.next = 1
    <3>1. c.batch = Batch(operation, commands)
      BY <1>1, <1>2, <1>5, BatchForm
    <3>2. /\ Batch(operation, commands).operation = operation
          /\ Batch(operation, commands).commands = commands
          /\ Batch(operation, commands).next = 1
      BY DEF Batch
    <3> QED
      BY <2>4, <3>1, <3>2, Zenon
  <2>7. Named'
    <3>1. CASE operation = "Starting"
      <4>1. Len(commands) >= 2 /\ 1 # Len(commands)
        <5> DEFINE n == Len(commands)
        <5>1. n > 1
          BY <3>1, Zenon
        <5>2. n \in Nat
          OBVIOUS
        <5> HIDE DEF n
        <5>3. n >= 2 /\ 1 # n
          BY <5>1, <5>2
        <5> QED
          BY <5>3 DEF n
      <4>2. ~NameGiven'
        BY <2>5, <2>6, <4>1, Zenon DEF NameGiven
      <4> QED
        BY <2>6, <3>1, <4>1, <4>2, Zenon DEF Named
    <3>2. CASE operation # "Starting"
      BY <2>6, <3>2, Zenon DEF Named
    <3> QED
      BY <3>1, <3>2
  <2> QED
    BY <2>3, <2>7
<1> QED
  BY <1>3, <1>4, <1>5

(* The name is the command before the start. *)
LEMMA StartNamed ==
  ASSUME NEW file \in Files, NEW all \in BOOLEAN
  PROVE  StartCommands(file, all)[Len(StartCommands(file, all)) - 1]
           = Filename(file)
<1> DEFINE lines == StartCommands(file, all)
           f == Filename(file)
           g == Command("start")
<1>1. f \in Commands /\ g \in Commands
  BY CommandForms
<1>2. CASE all
  <2> DEFINE u == Command("update")
             a == Command("select all")
  <2>1. u \in Commands /\ a \in Commands
    BY CommandForms
  <2> HIDE DEF u, a, f, g
  <2>2. lines = <<u, a>> \o <<f, g>>
    BY <1>2, Zenon DEF StartCommands, u, a, f, g
  <2>3. /\ <<u, a>> \in Seq(Commands) /\ <<f, g>> \in Seq(Commands)
        /\ Len(<<u, a>>) = 2 /\ Len(<<f, g>>) = 2
        /\ <<f, g>>[1] = f
    BY <1>1, <2>1, PairForm, Zenon
  <2> HIDE DEF lines
  <2>4. Len(lines) = 4 /\ lines[3] = f
    BY <2>2, <2>3
  <2>5. lines[Len(lines) - 1] = f
    BY <2>4
  <2> QED
    BY <2>5 DEF lines, f
<1>3. CASE ~all
  <2> HIDE DEF f, g
  <2>1. lines = <<>> \o <<f, g>>
    BY <1>3, Zenon DEF StartCommands, f, g
  <2>2. Len(lines) = 2 /\ lines[1] = f
    BY <1>1, <2>1
  <2> HIDE DEF lines
  <2>3. lines[Len(lines) - 1] = f
    BY <2>2
  <2> QED
    BY <2>3 DEF lines, f
<1> QED
  BY <1>2, <1>3

(* The operations that begin a batch. *)
LEMMA OperationKeeps ==
  ASSUME Inv, Traffic, Named,
         \/ refreshStreams
         \/ stopRecording
         \/ \E file \in Files :
              updateFilename(file) \/ \E all \in BOOLEAN : startRecording(file, all)
  PROVE  Traffic' /\ Named' /\ KeepsAsked
<1>1. CASE refreshStreams
  BY <1>1, SingleShape, CommandForms, BeginKeeps DEF refreshStreams, Operating
<1>2. CASE stopRecording
  BY <1>2, StopShape, BeginKeeps DEF stopRecording, Operating
<1>3. ASSUME NEW file \in Files, updateFilename(file)
      PROVE  Traffic' /\ Named' /\ KeepsAsked
  BY <1>3, SingleShape, CommandForms, BeginKeeps DEF updateFilename, Operating
<1>4. ASSUME NEW file \in Files, NEW all \in BOOLEAN, startRecording(file, all)
      PROVE  Traffic' /\ Named' /\ KeepsAsked
  <2> DEFINE lines == StartCommands(file, all)
  <2>1. asked' = file /\ Begin("Starting", lines)
    BY <1>4, Zenon DEF startRecording
  <2>2. /\ lines \in Seq(Commands) /\ Len(lines) > 1
        /\ Shape(Batch("Starting", lines))
        /\ lines[Len(lines) - 1] = Filename(asked')
    BY <2>1, StartShape, StartNamed, Zenon
  <2>3. "Starting" \in Operating
    BY DEF Operating
  <2> HIDE DEF lines
  <2> QED
    BY <2>1, <2>2, <2>3, BeginKeeps
<1> QED
  BY <1>1, <1>2, <1>3, <1>4, Zenon

-----------------------------------------------------------------------------
(* beginShutdown. *)
LEMMA ShutdownKeeps ==
  ASSUME Inv, Traffic, Named, beginShutdown
  PROVE  Traffic' /\ Named' /\ KeepsAsked
<1> DEFINE e == [client EXCEPT !.shutdown = TRUE]
<1>1. /\ client \in Clients /\ asked' = asked
      /\ \E c \in IF client.batch # NoBatch THEN {e} ELSE continueShutdown(e) :
           Becomes(c, replies)
  BY Zenon DEF beginShutdown, Inv, Typed
<1>2. /\ e \in Clients /\ e.shutdown = TRUE
      /\ e.connection = client.connection /\ e.recording = client.recording
      /\ e.startMay = client.startMay
      /\ e.batch = client.batch /\ e.unsent = client.unsent
      /\ e.sent = client.sent /\ e.buffer = client.buffer
      /\ e.commandTimer = client.commandTimer
  BY <1>1 DEF Clients
<1> HIDE DEF e
<1>3. CASE client.batch # NoBatch
  <2>1. Becomes(e, replies) /\ e.connection = "Connected"
    BY <1>1, <1>2, <1>3, Zenon DEF Inv, Rested, Working
  <2>2. client' = e /\ replies' = replies /\ UNCHANGED <<link, recorder>>
    BY <2>1, StaysForm, Zenon
  <2> QED
    BY <1>1, <1>2, <2>2, SameKeeps, Zenon DEF KeepsAsked
<1>4. CASE client.batch = NoBatch
  <2>1. PICK c \in continueShutdown(e) : Becomes(c, replies)
    BY <1>1, <1>4, Zenon
  <2>2. /\ Rested(client) /\ client.sent = <<>> /\ ~Answered
    BY <1>4, RestedQuiet, Zenon DEF Answered
  <2>3. /\ LeftOver(replies) /\ LeftOver(client.buffer)
        /\ LeftOver(client.buffer \o replies) /\ replies \in Seq(Tokens)
        /\ client.buffer \in Seq(Tokens)
    BY <2>2, LittleLeft
  <2>4. \/ Lost(e, c, "Error")
        \/ Began(e, c, "Stopping") /\ e.connection = "Connected"
        \/ Settled(e, c, "Unknown") \/ Settled(e, c, e.recording)
    <3>1. /\ e.batch = NoBatch /\ e.unsent = "none" /\ ~e.commandTimer
      BY <1>2, <2>2, Zenon DEF Rested
    <3> QED
      BY <1>2, <2>1, <3>1, ShutdownForm, Zenon
  <2>5. CASE Lost(e, c, "Error")
    <3>1. /\ c \in Clients /\ c.connection # "Connected" /\ c.batch = NoBatch
          /\ c.buffer = <<>> /\ c.sent = client.sent
      BY <1>2, <2>5, Zenon DEF Lost, Rested
    <3>2. LeftOver(c.buffer)
      BY <3>1 DEF LeftOver, Blank
    <3> QED
      BY <2>1, <3>1, <3>2, DropKeeps, Zenon
  <2>6. CASE Began(e, c, "Stopping") /\ e.connection = "Connected"
    <3>1. c.connection = "Connected" /\ c.batch.operation = "Stopping"
      BY <2>6, Zenon DEF Began, Working
    <3>2. Traffic' /\ KeepsAsked
      BY <1>2, <2>1, <2>2, <2>3, <2>6, <3>1, BeganKeeps, Zenon
    <3>3. client' = c
      BY <2>1, <3>1, StaysForm, Zenon
    <3>4. "Stopping" # "Starting"
      OBVIOUS
    <3> QED
      BY <3>1, <3>2, <3>3, <3>4, Zenon DEF Named
  <2>7. CASE Settled(e, c, "Unknown") \/ Settled(e, c, e.recording)
    <3>1. /\ c \in Clients /\ c.batch = NoBatch
          /\ c.buffer = client.buffer /\ c.sent = client.sent
      BY <1>2, <2>7, Zenon DEF Settled, Rested
    <3>2. CASE c.connection = "Connected"
      <4>1. client' = c
        BY <2>1, <3>2, StaysForm, Zenon
      <4>2. Traffic' /\ KeepsAsked
        BY <2>1, <2>3, <3>1, <3>2, StaysKeeps, Zenon
      <4>3. NoBatch.operation # "Starting"
        BY DEF NoBatch
      <4> QED
        BY <3>1, <4>1, <4>2, <4>3, Zenon DEF Named
    <3>3. CASE c.connection # "Connected"
      BY <2>1, <2>3, <3>1, <3>3, DropKeeps, Zenon
    <3> QED
      BY <3>2, <3>3
  <2> QED
    BY <2>4, <2>5, <2>6, <2>7
<1> QED
  BY <1>3, <1>4

(* onConnected. *)
LEMMA OpenedKeeps ==
  ASSUME Inv, Traffic, Named, onConnected
  PROVE  Traffic' /\ Named' /\ KeepsAsked
<1>1. /\ client \in Clients /\ client.batch = NoBatch
      /\ client' = [client EXCEPT !.connection = "Connected",
                                  !.recording = "Unknown",
                                  !.connectionTimer = FALSE]
      /\ UNCHANGED <<replies, recorder, asked>>
  <2>1. client.connection = "Connecting" /\ "Connecting" # "Connected"
    BY DEF onConnected
  <2> QED
    BY <2>1, Zenon DEF onConnected, Inv, Typed, Working, Rested
<1>2. /\ client'.batch = client.batch /\ client'.unsent = client.unsent
      /\ client'.sent = client.sent /\ client'.buffer = client.buffer
  BY <1>1 DEF Clients
<1> QED
  BY <1>1, <1>2, SameKeeps, Zenon DEF KeepsAsked

(* The connection fails, or a timer fires. *)
LEMMA FailureKeeps ==
  ASSUME Inv, Traffic, Named,
         \/ onDisconnected \/ onSocketError
         \/ onConnectionTimeout \/ onCommandTimeout
  PROVE  Traffic' /\ Named' /\ KeepsAsked
<1>1. /\ Lost(client, LoseConnection(client, "Disconnected"), "Disconnected")
      /\ Lost(client, LoseConnection(client, "Error"), "Error")
  <2>1. client \in Clients
    BY Zenon DEF Inv, Typed
  <2> QED
    BY <2>1, LoseForm
<1>2. \/ Becomes(LoseConnection(client, "Disconnected"), <<>>)
      \/ Becomes(LoseConnection(client, "Error"), <<>>)
      \/ Becomes(LoseConnection(client, "Error"), replies)
  BY Zenon DEF onDisconnected, onSocketError, onConnectionTimeout,
     onCommandTimeout, failActiveConnection, TimedOut
<1> QED
  BY <1>1, <1>2, LostKeeps

(* writeNextCommand for a command that is there. *)
LEMMA ProceedKeeps ==
  ASSUME Inv, NEW e, e.connection = "Connected", e.sent = <<>>,
         e.buffer \in Seq(Tokens), NEW c, Proceeds(e, c),
         NEW rest \in Seq(Tokens), LeftOver(e.buffer \o rest),
         Becomes(c, rest)
  PROVE  Traffic' /\ KeepsAsked /\ client' = c /\ link' = link
         /\ recorder' = recorder /\ replies' = rest
<1>1. /\ c.connection = "Connected" /\ c.buffer \in {<<>>, e.buffer}
      /\ c.unsent # "none" \/ c.sent # <<>>
  BY BusyForm, Zenon DEF Proceeds
<1>2. c.buffer \in Seq(Tokens) /\ LeftOver(c.buffer \o rest)
  <2>1. <<>> \in Seq(Tokens) /\ <<>> \o rest = rest
    BY EmptyFront
  <2>2. LeftOver(rest)
    <3>1. Ends(rest, e.buffer \o rest) /\ e.buffer \o rest \in Seq(Tokens)
      BY BackIsEnd, ConcatForm
    <3> QED
      BY <3>1, EndsForm, Zenon
  <2> QED
    BY <1>1, <2>1, <2>2
<1>3. Traffic' /\ KeepsAsked
  BY <1>1, <1>2, StaysKeeps, Zenon
<1> QED
  BY <1>1, <1>3, StaysForm, Zenon

(* onBytesWritten. *)
LEMMA BytesKeep ==
  ASSUME Inv, Traffic, Named, onBytesWritten
  PROVE  Traffic' /\ Named' /\ KeepsAsked
<1>1. PICK c \in Write(client) : Becomes(c, replies)
  BY Zenon DEF onBytesWritten
<1>2. /\ client \in Clients /\ client.connection = "Connected"
      /\ client.unsent # "none" /\ asked' = asked
  BY Zenon DEF onBytesWritten, isConnected, Inv, Typed
<1>3. Working(client) /\ client.sent = <<>> /\ ~Answered
  BY <1>2, Zenon DEF Inv, Rested, SentOK, Answered
<1>4. /\ client.buffer \in Seq(Tokens) /\ replies \in Seq(Tokens)
      /\ LeftOver(client.buffer \o replies)
  BY <1>3, LittleLeft
<1>5. Silent(client.buffer) /\ Silent(replies)
  BY <1>3, Zenon DEF Inv, AnswersOK, Quiet
<1>6. Lost(client, c, "Error") \/ Proceeds(client, c)
  <2>1. /\ InBatch(client)
        /\ client.unsent = "rest" /\ MarksStart(client) => client.startMay
    BY <1>3, Zenon DEF Working, InBatch
  <2> QED
    BY <1>1, <1>2, <2>1, WriteForm
<1>7. CASE Lost(client, c, "Error")
  BY <1>1, <1>7, LostKeeps
<1>8. CASE Proceeds(client, c)
  <2>1. /\ Traffic' /\ KeepsAsked /\ client' = c /\ link' = link
        /\ recorder' = recorder /\ replies' = replies
    BY <1>1, <1>2, <1>3, <1>4, <1>8, ProceedKeeps, Zenon
  <2>2. client'.batch = client.batch /\ Quiet'
    BY <1>5, <1>8, <2>1, SilentEmpty, Zenon DEF Proceeds, Quiet
  <2>3. Named'
    BY <1>2, <2>1, <2>2, Zenon DEF Named, NameGiven
  <2> QED
    BY <2>1, <2>3
<1> QED
  BY <1>6, <1>7, <1>8

(* RecorderAnswers. *)
LEMMA AnswersKeep ==
  ASSUME Inv, Traffic, Named, RecorderAnswers
  PROVE  Traffic' /\ Named' /\ KeepsAsked
<1> DEFINE command == client.batch.commands[client.batch.next]
           after == Execute(recorder, command)
           ok == <<"O", "K", "space">>
           error == <<"E", "R">>
<1>1. /\ client \in Clients /\ recorder \in Recorders /\ link
      /\ link' = link /\ asked' = asked
  BY Zenon DEF RecorderAnswers, Inv, Typed
<1>2. /\ client.sent = <<command>> /\ client.batch # NoBatch
      /\ client.unsent = "none" /\ Working(client)
  BY Zenon DEF RecorderAnswers, Inv, SentOK, Rested, Working
<1>3. command \in Commands
  BY <1>1, <1>2, CurrentTyped, Zenon DEF Working, InBatch
<1>4. /\ ~recorder.recording /\ after.recording => after.file = asked
      /\ client.batch.operation = "Starting" =>
           /\ client.batch.next = Len(client.batch.commands) - 1
                => after.name = asked
           /\ client.batch.next = Len(client.batch.commands)
                => after.name = asked
  BY <1>1, <1>2, ExecuteNamed
<1>5. /\ client' = [client EXCEPT !.sent = Tail(@)]
      /\ \/ recorder' = after /\ replies' = replies \o ok
         \/ recorder' \in {recorder, after} /\ replies' = replies \o error
  <2>1. Head(client.sent) = command
    BY <1>2, <1>3, TailOfOne, Zenon
  <2> QED
    BY <2>1, Zenon DEF RecorderAnswers
<1>6. ~Answered /\ <<command>> # <<>>
  BY <1>2, TailOfOne, Zenon DEF Answered
<1> HIDE DEF command, after
<1>7. /\ client'.sent = <<>> /\ client'.batch = client.batch
      /\ client'.unsent = client.unsent /\ client'.buffer = client.buffer
  <2>1. Tail(client.sent) = <<>> /\ <<>> \in Seq(Commands)
    BY <1>2, <1>3, TailOfOne, Zenon
  <2>2. client' = [client EXCEPT !.sent = <<>>]
    BY <1>5, <2>1, Zenon
  <2> QED
    BY <1>1, <2>1, <2>2 DEF Clients
<1>8. /\ client.buffer \in Seq(Tokens) /\ replies \in Seq(Tokens)
      /\ LeftOver(client.buffer \o replies)
      /\ Len(client.buffer) <= 1
  BY <1>6, LittleLeft, Zenon DEF LeftOver
<1>9. Traffic'
  <2> DEFINE b == client.buffer
             s == b \o replies
  <2>1. ok \in Seq(Tokens) /\ error \in Seq(Tokens)
    BY DEF Tokens
  <2>2. /\ b \in Seq(Tokens) /\ s \in Seq(Tokens) /\ LeftOver(s)
    BY <1>8, ConcatForm, Zenon
  <2>3. OneReply(s \o ok) /\ OneReply(s \o error)
    BY <2>2, ReplyForm
  <2> HIDE DEF ok, error, b
  <2>4. /\ (b \o replies) \o ok = b \o (replies \o ok)
        /\ (b \o replies) \o error = b \o (replies \o error)
    <3>1. b \in Seq(Tokens) /\ replies \in Seq(Tokens)
      BY <1>8, <2>2
    <3> QED
      BY <2>1, <3>1, TokensAssociate, Zenon
  <2>5. OneReply(b \o (replies \o ok)) /\ OneReply(b \o (replies \o error))
    BY <2>3, <2>4, Zenon
  <2>6. Answered'
    BY <1>2, <1>7, Zenon DEF Answered
  <2>7. OneReply(client'.buffer \o replies')
    BY <1>5, <1>7, <2>5, Zenon DEF b
  <2> QED
    BY <1>7, <1>8, <2>6, <2>7, Zenon DEF Traffic
<1>10. KeepsAsked
  <2>1. recorder' = recorder \/ recorder' = after
    BY <1>5
  <2> QED
    BY <1>4, <2>1, Zenon DEF KeepsAsked
<1>11. Named'
  <2>1. CASE recorder' = after
    BY <1>1, <1>4, <1>7, <2>1, Zenon DEF Named, NameGiven
  <2>2. CASE recorder' = recorder /\ replies' = replies \o error
    <3>1. Silent(client.buffer) /\ Silent(replies)
      BY <1>6, Zenon DEF Inv, AnswersOK, Quiet
    <3>2. Quiet'
      BY <1>7, <1>8, <2>2, <3>1, AnswerForm, Zenon DEF Quiet
    <3> QED
      BY <1>1, <1>7, <2>2, <3>2, Zenon DEF Named, NameGiven
  <2> QED
    BY <1>5, <2>1, <2>2
<1> QED
  BY <1>9, <1>10, <1>11

(* LinkLost and RecorderDies. *)
LEMMA GoneKeeps ==
  ASSUME Inv, Traffic, Named, LinkLost \/ RecorderDies
  PROVE  Traffic' /\ Named' /\ KeepsAsked
<1>1. /\ ~link' /\ client' = client /\ replies' = replies /\ asked' = asked
  BY Zenon DEF LinkLost, RecorderDies
<1>2. recorder \in Recorders
  BY Zenon DEF Inv, Typed
<1>3. recorder' = recorder \/ ~recorder'.recording
  <2>1. CASE LinkLost
    BY <2>1, Zenon DEF LinkLost
  <2>2. CASE RecorderDies
    BY <1>2, <2>2 DEF RecorderDies, Recorders
  <2> QED
    BY <2>1, <2>2
<1> QED
  BY <1>1, <1>3, SameKeeps, Zenon DEF KeepsAsked

(* onReadyRead: too little was read. *)
LEMMA KeepReadingKeeps ==
  ASSUME Inv, Traffic, Named, client.connection = "Connected",
         NEW b \in Seq(Tokens), NEW rest \in Seq(Tokens),
         Ends(b \o rest, client.buffer \o replies),
         Answered => Len(b) <= 1,
         Quiet => Silent(b) /\ Silent(rest),
         Becomes([client EXCEPT !.buffer = b], rest), asked' = asked
  PROVE  Traffic' /\ Named' /\ KeepsAsked
<1> DEFINE c == [client EXCEPT !.buffer = b]
<1>1. /\ client \in Clients /\ client.buffer \in Seq(Tokens)
      /\ replies \in Seq(Tokens)
  BY Zenon DEF Inv, Typed, Clients
<1>2. /\ c.buffer = b /\ c.connection = client.connection
      /\ c.batch = client.batch /\ c.unsent = client.unsent
      /\ c.sent = client.sent
  BY <1>1 DEF Clients
<1>3. Becomes(c, rest)
  OBVIOUS
<1> HIDE DEF c
<1>4. client' = c /\ replies' = rest /\ UNCHANGED <<link, recorder>>
  BY <1>2, <1>3, StaysForm, Zenon
<1>5. Answered' <=> Answered
  BY <1>2, <1>4, Zenon DEF Answered
<1>6. /\ LeftOver(client.buffer \o replies) => LeftOver(b \o rest)
      /\ OneReply(client.buffer \o replies) => OneReply(b \o rest)
  <2> DEFINE s == client.buffer \o replies
             t == b \o rest
  <2>1. s \in Seq(Tokens) /\ t \in Seq(Tokens)
    BY <1>1, ConcatForm, Zenon
  <2> HIDE DEF s, t
  <2>2. Ends(t, s)
    BY DEF s, t
  <2>3. (LeftOver(s) => LeftOver(t)) /\ (OneReply(s) => OneReply(t))
    BY <2>1, <2>2, EndsForm, Zenon
  <2> QED
    BY <2>3 DEF s, t
<1>7. Len(b) <= 1
  <2>1. CASE ~Answered
    <3>1. LeftOver(b \o rest)
      BY <1>6, <2>1, Zenon DEF Traffic
    <3>2. Len(b \o rest) = Len(b) + Len(rest) /\ Len(b) \in Nat /\ Len(rest) \in Nat
      BY ConcatForm, Zenon
    <3>3. Len(b \o rest) <= 1
      BY <3>1, Zenon DEF LeftOver
    <3> QED
      BY <3>2, <3>3
  <2> QED
    BY <2>1
<1>8. Traffic'
  BY <1>2, <1>4, <1>5, <1>6, <1>7, Zenon DEF Traffic
<1>9. Named'
  BY <1>2, <1>4, Zenon DEF Named, NameGiven, Quiet
<1> QED
  BY <1>4, <1>8, <1>9, Zenon DEF KeepsAsked

(* onReadyRead: an OK, and more of the batch to be sent. *)
LEMMA NextCommandKeeps ==
  ASSUME Inv, Traffic, Named, client.connection = "Connected", Answered, ~Quiet,
         NEW b \in Seq(Tokens), Silent(b), NEW rest \in Seq(Tokens), Silent(rest),
         LeftOver(b \o rest),
         NEW e, e = [client EXCEPT !.commandTimer = FALSE, !.buffer = b,
                                   !.batch.next = @ + 1],
         ~Finished(e.batch), NEW c \in Write(e), Becomes(c, rest), asked' = asked
  PROVE  Traffic' /\ Named' /\ KeepsAsked
<1>1. /\ client.batch # NoBatch /\ client.unsent = "none" /\ client.sent = <<>>
      /\ Working(client) /\ client \in Clients
  BY Zenon DEF Inv, Answered, Rested, Typed
<1>2. /\ e \in Clients /\ e.buffer = b
      /\ e.connection = client.connection /\ e.recording = client.recording
      /\ e.operation = client.operation /\ e.shutdown = client.shutdown
      /\ e.startMay = client.startMay
      /\ e.unsent = client.unsent /\ e.sent = client.sent
      /\ e.batch.operation = client.batch.operation
      /\ e.batch.commands = client.batch.commands
      /\ e.batch.next = client.batch.next + 1
  BY <1>1, ConfirmedForm, Zenon
<1>3. /\ client.batch.next \in 1..Len(client.batch.commands)
      /\ client.batch.commands \in Seq(Commands)
      /\ client.batch.operation \in Operating
  BY <1>1, Zenon DEF Working, Shape, Clients, Batches
<1>4. e.batch.next \in 1..Len(e.batch.commands)
  BY <1>2, <1>3 DEF Finished
<1>5. e.batch # NoBatch
  <2>1. NoBatch.operation = "Idle" /\ "Idle" \notin Operating
    BY DEF NoBatch, Operating
  <2> QED
    BY <1>2, <1>3, <2>1, Zenon
<1>6. InBatch(e)
  <2>1. Shape(e.batch)
    BY <1>1, <1>2, <1>4, ShapeMoves, Zenon DEF Working
  <2> QED
    BY <1>1, <1>2, <1>5, <2>1, Zenon DEF InBatch, Working
<1>7. ~(e.unsent = "rest")
  BY <1>1, <1>2
<1>8. Lost(e, c, "Error") \/ Proceeds(e, c)
  BY <1>2, <1>6, <1>7, WriteForm
<1>9. CASE Lost(e, c, "Error")
  <2>1. Lost(client, c, "Error")
    BY <1>2, <1>9, Zenon DEF Lost
  <2> QED
    BY <2>1, LostKeeps
<1>10. CASE Proceeds(e, c)
  <2>1. /\ Traffic' /\ KeepsAsked /\ client' = c /\ link' = link
        /\ recorder' = recorder /\ replies' = rest
    BY <1>1, <1>2, <1>10, ProceedKeeps, Zenon
  <2>2. client'.batch = e.batch /\ Quiet'
    BY <1>2, <1>10, <2>1, SilentEmpty, Zenon DEF Proceeds, Quiet
  <2>3. NameGiven' => NameGiven
    <3>1. NameGiven' => client'.batch.next = Len(client'.batch.commands)
      BY <2>2, Zenon DEF NameGiven
    <3>2. NameGiven' => client.batch.next + 1 = Len(client.batch.commands)
      BY <1>2, <2>2, <3>1, Zenon
    <3>3. NameGiven' => client.batch.next = Len(client.batch.commands) - 1
      <4> DEFINE n == client.batch.next
                 last == Len(client.batch.commands)
      <4>1. n \in Nat /\ last \in Nat
        BY <1>3
      <4> HIDE DEF n, last
      <4>2. n + 1 = last => n = last - 1
        BY <4>1
      <4> QED
        BY <3>2, <4>2, Zenon DEF n, last
    <3> QED
      BY <3>3, Zenon DEF NameGiven
  <2>4. Named'
    BY <1>2, <2>1, <2>2, <2>3, Zenon DEF Named
  <2> QED
    BY <2>1, <2>4
<1> QED
  BY <1>8, <1>9, <1>10

(* onReadyRead: an OK, and the batch is done. *)
LEMMA ConfirmKeeps ==
  ASSUME Inv, Traffic, Named, client.connection = "Connected", Answered,
         NEW b \in Seq(Tokens), NEW rest \in Seq(Tokens), LeftOver(rest),
         NEW e, e = [client EXCEPT !.commandTimer = FALSE, !.buffer = b,
                                   !.batch.next = @ + 1],
         NEW c \in finishActiveBatch(e, TRUE), Becomes(c, rest)
  PROVE  Traffic' /\ Named' /\ KeepsAsked
<1> DEFINE f == Finish(e, TRUE)
<1>1. client.batch # NoBatch /\ client.sent = <<>>
  BY Zenon DEF Answered
<1>2. e \in Clients /\ e.connection = "Connected" /\ e.sent = <<>>
  BY <1>1, ConfirmedForm, Zenon
<1>3. /\ f \in Clients /\ f.connection = "Connected" /\ f.sent = <<>>
      /\ f.batch = NoBatch /\ f.unsent = "none" /\ f.buffer = <<>>
      /\ f.commandTimer = FALSE
  BY <1>2, FinishForm, Zenon
<1>4. c \in continueShutdown(f)
  BY Zenon DEF finishActiveBatch, Finish
<1> HIDE DEF f
<1>5. Lost(f, c, "Error") \/ Began(f, c, "Stopping") \/ Settled(f, c, f.recording)
  BY <1>3, <1>4, ShutdownForm, Zenon
<1>6. CASE Lost(f, c, "Error")
  <2>1. /\ c \in Clients /\ c.connection # "Connected" /\ c.batch = NoBatch
        /\ c.buffer = <<>> /\ c.sent = client.sent
    BY <1>1, <1>3, <1>6, Zenon DEF Lost, Rested
  <2>2. LeftOver(c.buffer)
    BY <2>1 DEF LeftOver, Blank
  <2> QED
    BY <2>1, <2>2, DropKeeps, Zenon
<1>7. CASE Began(f, c, "Stopping")
  <2>1. c.connection = "Connected" /\ c.batch.operation = "Stopping"
    BY <1>7, Zenon DEF Began, Working
  <2>2. Traffic' /\ KeepsAsked
    BY <1>3, <1>7, <2>1, BeganKeeps, Zenon
  <2>3. client' = c
    BY <2>1, StaysForm, Zenon
  <2>4. "Stopping" # "Starting"
    OBVIOUS
  <2> QED
    BY <2>1, <2>2, <2>3, <2>4, Zenon DEF Named
<1>8. CASE Settled(f, c, f.recording)
  <2>1. /\ c.batch = NoBatch /\ c.buffer = <<>> /\ c.connection = "Connected"
    BY <1>3, <1>8, Zenon DEF Settled, Rested
  <2>2. c.buffer \in Seq(Tokens) /\ c.buffer \o rest = rest
    BY <2>1, EmptyFront
  <2>3. Traffic' /\ KeepsAsked
    BY <2>1, <2>2, StaysKeeps, Zenon
  <2>4. client' = c
    BY <2>1, StaysForm, Zenon
  <2>5. NoBatch.operation # "Starting"
    BY DEF NoBatch
  <2> QED
    BY <2>1, <2>3, <2>4, <2>5, Zenon DEF Named
<1> QED
  BY <1>5, <1>6, <1>7, <1>8

(* onReadyRead. *)
LEMMA ReadKeeps ==
  ASSUME Inv, Traffic, Named, onReadyRead
  PROVE  Traffic' /\ Named' /\ KeepsAsked
<1>1. /\ client.connection = "Connected" /\ client \in Clients
      /\ asked' = asked
      /\ client.buffer \in Seq(Tokens) /\ replies \in Seq(Tokens)
  BY Zenon DEF onReadyRead, isConnected, Inv, Typed, Clients
<1>2. PICK n \in 1..Len(replies) :
        LET rest == SubSeq(replies, n + 1, Len(replies))
            all == client.buffer \o SubSeq(replies, 1, n)
            text == Stripped(all)
        IN  IF client.batch = NoBatch \/ client.unsent # "none"
            THEN Becomes([client EXCEPT !.buffer = all], rest)
            ELSE IF Len(text) < 2
            THEN Becomes([client EXCEPT !.buffer = text], rest)
            ELSE IF SubSeq(text, 1, 2) # <<"O", "K">>
            THEN Becomes(failActiveConnection(client), rest)
            ELSE \E c \in writeNextCommand(
                            [client EXCEPT !.commandTimer = FALSE,
                                           !.buffer = SubSeq(text, 3, Len(text)),
                                           !.batch.next = @ + 1]) :
                   Becomes(c, rest)
  BY Zenon DEF onReadyRead
<1> DEFINE rest == SubSeq(replies, n + 1, Len(replies))
           all == client.buffer \o SubSeq(replies, 1, n)
           text == Stripped(all)
           behind == SubSeq(text, 3, Len(text))
           e == [client EXCEPT !.commandTimer = FALSE, !.buffer = behind,
                               !.batch.next = @ + 1]
           stream == client.buffer \o replies
<1>3. /\ all \in Seq(Tokens) /\ rest \in Seq(Tokens)
      /\ Single(all)
      /\ Silent(all) \/ Silent(rest)
      /\ Quiet => Silent(all) /\ Silent(rest)
      /\ all \o rest = stream
  BY <1>1, ReadForm, StreamRead, Zenon
<1>4. stream \in Seq(Tokens)
  BY <1>1, ConcatForm, Zenon
<1> HIDE DEF rest, all, stream
<1>5. /\ text \in Seq(Tokens) /\ Single(text)
      /\ Silent(all) => Silent(text)
      /\ Ends(text \o rest, stream)
  BY <1>3, StrippedForm, StrippedEnds, Zenon
<1> HIDE DEF text
<1>6. CASE /\ client.batch = NoBatch \/ client.unsent # "none"
           /\ Becomes([client EXCEPT !.buffer = all], rest)
  <2>1. ~Answered
    BY <1>6, Zenon DEF Answered
  <2>2. Ends(all \o rest, client.buffer \o replies)
    <3>1. <<>> \o stream = stream /\ <<>> \in Seq(Tokens)
      BY <1>4, SilentEmpty, EmptyFront, Zenon
    <3>2. Ends(stream, <<>> \o stream)
      BY <1>4, <3>1, BackIsEnd, Zenon
    <3> QED
      BY <1>3, <3>1, <3>2, Zenon DEF stream
  <2> QED
    BY <1>1, <1>3, <1>6, <2>1, <2>2, KeepReadingKeeps, Zenon
<1>7. CASE Len(text) < 2 /\ Becomes([client EXCEPT !.buffer = text], rest)
  <2>1. Len(text) <= 1
    BY <1>5, <1>7
  <2>2. Ends(text \o rest, client.buffer \o replies)
    BY <1>5, Zenon DEF stream
  <2> QED
    BY <1>1, <1>3, <1>5, <1>7, <2>1, <2>2, KeepReadingKeeps, Zenon
<1>8. CASE Becomes(failActiveConnection(client), rest)
  <2>1. Lost(client, failActiveConnection(client), "Error")
    BY <1>1, LoseForm, Zenon DEF failActiveConnection
  <2> QED
    BY <1>8, <2>1, LostKeeps
<1>9. CASE /\ Len(text) >= 2 /\ SubSeq(text, 1, 2) = <<"O", "K">>
           /\ \E c \in writeNextCommand(e) : Becomes(c, rest)
  <2>1. ~Silent(text) /\ behind \in Seq(Tokens) /\ Silent(behind)
    BY <1>5, <1>9, BehindForm
  <2>2. Silent(rest) /\ Answered /\ ~Quiet
    BY <1>3, <1>5, <2>1, Zenon DEF Inv, AnswersOK
  <2>3. OneReply(text \o rest)
    <3>1. OneReply(stream)
      BY <2>2, Zenon DEF Traffic, stream
    <3>2. text \o rest \in Seq(Tokens)
      BY <1>3, <1>5, ConcatForm, Zenon
    <3> QED
      BY <1>4, <1>5, <3>1, <3>2, EndsForm, Zenon
  <2>4. LeftOver(behind \o rest)
    BY <1>3, <1>5, <1>9, <2>3, BehindLeft
  <2>5. PICK c \in writeNextCommand(e) : Becomes(c, rest)
    BY <1>9, Zenon
  <2> HIDE DEF behind
  <2>6. LeftOver(rest)
    <3>1. Ends(rest, behind \o rest) /\ behind \o rest \in Seq(Tokens)
      BY <1>3, <2>1, BackIsEnd, ConcatForm
    <3> QED
      BY <1>3, <2>4, <3>1, EndsForm, Zenon
  <2>7. CASE Finished(e.batch)
    <3>1. c \in finishActiveBatch(e, TRUE)
      BY <2>5, <2>7, Zenon DEF writeNextCommand
    <3> QED
      BY <1>1, <1>3, <2>1, <2>2, <2>5, <2>6, <3>1, ConfirmKeeps, Zenon
  <2>8. CASE ~Finished(e.batch)
    <3>1. c \in Write(e)
      BY <2>5, <2>8, Zenon DEF writeNextCommand
    <3> QED
      BY <1>1, <1>3, <2>1, <2>2, <2>4, <2>5, <2>8, <3>1, NextCommandKeeps, Zenon
  <2> QED
    BY <2>7, <2>8, Zenon
<1>10. \/ /\ client.batch = NoBatch \/ client.unsent # "none"
          /\ Becomes([client EXCEPT !.buffer = all], rest)
       \/ Len(text) < 2 /\ Becomes([client EXCEPT !.buffer = text], rest)
       \/ Becomes(failActiveConnection(client), rest)
       \/ /\ ~(Len(text) < 2) /\ SubSeq(text, 1, 2) = <<"O", "K">>
          /\ \E c \in writeNextCommand(e) : Becomes(c, rest)
  BY <1>2, Zenon DEF rest, all, text, behind, e
<1>11. ~(Len(text) < 2) => Len(text) >= 2
  BY <1>5
<1> QED
  BY <1>6, <1>7, <1>8, <1>9, <1>10, <1>11, Zenon

(* Every step keeps what is known of the traffic and of the file. *)
LEMMA NextKeeps ==
  ASSUME Inv, Traffic, Named, [Next]_vars
  PROVE  Traffic' /\ Named' /\ KeepsAsked
<1>1. CASE UNCHANGED vars
  BY <1>1, SameKeeps, Zenon DEF vars, KeepsAsked
<1>2. CASE Next
  BY <1>2, ConnectKeeps, DetachKeeps, OperationKeeps, ShutdownKeeps,
     OpenedKeeps, FailureKeeps, BytesKeep, ReadKeeps, AnswersKeep, GoneKeeps,
     Zenon DEF Next, Operations, Slots
<1> QED
  BY <1>1, <1>2

(* At the start nothing travels and nothing is asked for. *)
LEMMA InitKeeps == Init => Traffic /\ Named
<1> SUFFICES ASSUME Init PROVE Traffic /\ Named
  OBVIOUS
<1>1. /\ client.batch = NoBatch /\ client.buffer = <<>> /\ replies = <<>>
  BY DEF Init
<1>2. LeftOver(<<>>) /\ Len(<<>>) <= 1 /\ <<>> \o <<>> = <<>>
  BY EmptyFront DEF LeftOver, Blank
<1>3. NoBatch.operation # "Starting"
  BY DEF NoBatch
<1> QED
  BY <1>1, <1>2, <1>3, Zenon DEF Traffic, Named, Answered

LEMMA TrafficKept == Spec => [](Inv /\ Traffic /\ Named)
<1> DEFINE All == Inv /\ Traffic /\ Named
<1>1. Init => All
  BY InitForm, InitKeeps
<1>2. All /\ [Next]_vars => All'
  BY NextStep, NextKeeps, Zenon
<1> QED
  BY <1>1, <1>2, PTL DEF Spec

(***************************************************************************)
(* What holds of the connection at any moment: the batch, the line on the  *)
(* way and the buffers have their shape, and no answer can be mistaken.    *)
(***************************************************************************)
THEOREM ConnectionStaysSafe == Spec => []ConnectionSafe
<1>1. Inv /\ Traffic => ConnectionSafe
  <2> SUFFICES ASSUME Inv, Traffic PROVE ConnectionSafe
    OBVIOUS
  <2> DEFINE b == client.buffer
             s == b \o replies
  <2>1. /\ Typed /\ b \in Seq(Tokens) /\ replies \in Seq(Tokens)
    BY Zenon DEF Inv, Typed, Clients
  <2>2. /\ Len(s) = Len(b) + Len(replies) /\ Len(b) \in Nat
        /\ Len(replies) \in Nat
    BY <2>1, ConcatForm, Zenon
  <2>3. Len(b) <= 1 /\ Len(s) <= 4
    <3>1. Len(b) <= 1 /\ (OneReply(s) \/ LeftOver(s))
      BY Zenon DEF Traffic
    <3> HIDE DEF s, b
    <3> QED
      BY <2>2, <3>1 DEF OneReply, LeftOver
  <2>4. Len(b) <= 3 /\ Len(replies) <= 4
    <3> HIDE DEF s, b
    <3> QED
      BY <2>2, <2>3
  <2>5. client.batch = NoBatch
          \/ client.batch.next \in 1..Len(client.batch.commands)
    BY Zenon DEF Inv, Rested, Working, Shape
  <2>6. Len(client.sent) <= 1
    <3>1. CASE client.sent = <<>>
      BY <3>1
    <3>2. CASE client.sent = <<client.batch.commands[client.batch.next]>>
      <4> DEFINE command == client.batch.commands[client.batch.next]
      <4> HIDE DEF command
      <4>1. client.sent = <<command>>
        BY <3>2 DEF command
      <4> QED
        BY <4>1
    <3> QED
      BY <3>1, <3>2, Zenon DEF Inv, SentOK
  <2>7. OneUnansweredCommand
    <3>1. ASSUME client.sent # <<>>
          PROVE  ~Contains(replies, "K") /\ ~Contains(replies, "E")
      <4>1. LeftOver(replies)
        BY <3>1, LittleLeft, Zenon DEF Answered
      <4> QED
        BY <4>1 DEF LeftOver, Blank, Contains
    <3> QED
      BY <3>1, Zenon DEF OneUnansweredCommand
  <2> QED
    BY <2>1, <2>4, <2>5, <2>6, <2>7, Zenon DEF ConnectionSafe, TypeOK
<1> QED
  BY <1>1, TrafficKept, PTL

(***************************************************************************)
(* The recorder never starts to record to another file than the last Start *)
(* asked for, although name and Start are separate commands that each may  *)
(* fail, time out or be cut off with the connection.                       *)
(***************************************************************************)
THEOREM AskedFileIsRecorded == Spec => RecordsAskedFile
<1>1. Inv /\ Traffic /\ Named /\ [Next]_vars =>
        [~recorder.recording /\ recorder'.recording
           => recorder'.file = asked]_vars
  BY NextKeeps, Zenon DEF KeepsAsked
<1> QED
  BY <1>1, TrafficKept, PTL DEF Spec, RecordsAskedFile
=============================================================================
