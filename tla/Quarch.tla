-------------------------------- MODULE Quarch --------------------------------
(***************************************************************************)
(* The quarch plugin: a power meter that is asked over TCP, through a      *)
(* service (QIS) that the plugin starts.  An answer comes in one or        *)
(* several packets, and only the last one ends with the prompt; a read     *)
(* may return several packets that are there.  The device, the network and *)
(* the service may be slower than the timeout of the plugin.               *)
(***************************************************************************)
EXTENDS Integers, Sequences, SequencesExt, FiniteSets

CONSTANTS
    MaxQuestions,    \* bounds: questions asked on a connection
    MaxPackets       \* packets of an answer

VARIABLES
    quarch,     \* "new", "refused", "idle", "asking" (in a poll) or "stopped"
    qis,        \* the service: "none", "foreign" or "own"
    stream,     \* the connection: "none", "open" or "closed" (by the other side)
    questions,  \* commands of the configuration not answered yet, and the last question asked
    device,     \* questions that the device has not answered whole: [question, sent]
    wire,       \* packets that have come and are not read: [question, last]
    answer,     \* packets read since the last question
    late,       \* history: a timeout has cut an answer of this connection after its start
    measure     \* history: the last measure, [question, packets, late]

quarchVars == <<quarch, qis, stream, questions, device, wire, answer, late, measure>>

\* connect_and_configure: these commands, then Measure:OUTputs? at each poll.
Configuration == <<"DEFault", "MANUAL", "AVEraging", "RUN">>

NoQuestions == [todo |-> <<>>, asked |-> 0]
NoMeasure == [question |-> 0, packets |-> {}, late |-> FALSE]

QuarchInit ==
    /\ quarch = "new" /\ qis \in {"none", "foreign"} /\ stream = "none"
    /\ questions = NoQuestions /\ device = <<>> /\ wire = <<>> /\ answer = <<>>
    /\ late = FALSE /\ measure = NoMeasure

\* QuarchPlugin::start: a service that runs already is killed.  If the new one does not
\* listen in time, the start fails and leaves it running.
StartQuarch(launched, listens) ==
    /\ quarch = "new"
    /\ qis' = IF launched THEN "own" ELSE "none"
    /\ quarch' = IF launched /\ listens THEN "idle" ELSE "refused"
    /\ UNCHANGED <<stream, questions, device, wire, answer, late, measure>>

\* send_quarch_command, up to its first read.
Ask(todo, pending, asked) ==
    /\ questions' = [todo |-> todo, asked |-> asked + 1]
    /\ device' = Append(pending, [question |-> asked + 1, sent |-> 0])
    /\ answer' = <<>>
    /\ quarch' = "asking"

\* Mutant of AfterError: the connection is kept.
AfterErrorKept == stream

\* The source forgets its connection after an error, and the next poll makes another one.
AfterError == "none"

\* PollError::CanRetry.
PollFails ==
    /\ quarch' = "idle"
    /\ stream' = AfterError
    /\ questions' = [questions EXCEPT !.todo = <<>>]
    /\ answer' = <<>>
    /\ IF stream' = "none"
       THEN device' = <<>> /\ wire' = <<>> /\ late' = FALSE
       ELSE UNCHANGED <<device, wire, late>>
    /\ UNCHANGED <<qis, measure>>

\* A poll without a connection makes one, and configures the device.
PollConnects ==
    /\ quarch = "idle" /\ stream = "none"
    /\ Ask(Configuration, <<>>, 0)
    /\ stream' = "open" /\ wire' = <<>> /\ late' = FALSE
    /\ UNCHANGED <<qis, measure>>

PollCannotConnect == quarch = "idle" /\ stream = "none" /\ PollFails

PollMeasures ==
    /\ quarch = "idle" /\ stream = "open" /\ questions.asked < MaxQuestions
    /\ Ask(<<>>, device, questions.asked)
    /\ UNCHANGED <<qis, stream, wire, late, measure>>

\* A write to a connection closed by the other side fails.
PollCannotWrite == quarch = "idle" /\ stream = "closed" /\ PollFails

\* Mutant of Whole: the first packet is taken for the answer.
WholeAtFirst(packets) == packets # <<>>

\* buffer.ends_with("\r\n>").
Whole(packets) == Last(packets).last

\* Its next question is refused by a connection closed by the other side.
CannotAsk == questions.todo # <<>> /\ stream = "closed"

\* The answer is taken as it is: the next question is asked, or the power is computed.
TakeAnswer(packets) ==
    /\ UNCHANGED <<qis, stream>>
    /\ IF questions.todo # <<>>
       THEN Ask(Tail(questions.todo), device, questions.asked) /\ UNCHANGED measure
       ELSE /\ quarch' = "idle" /\ answer' = <<>>
            /\ measure' = [question |-> questions.asked,
                           packets |-> {p.question : p \in Range(packets)}, late |-> late]
            /\ UNCHANGED <<questions, device>>

ReadPackets(n) ==
    LET packets == answer \o SubSeq(wire, 1, n) IN
    /\ quarch = "asking" /\ n \in 1..Len(wire)
    /\ IF Whole(packets) /\ CannotAsk THEN PollFails
       ELSE /\ wire' = SubSeq(wire, n + 1, Len(wire))
            /\ UNCHANGED late
            /\ IF Whole(packets) THEN TakeAnswer(packets)
               ELSE answer' = packets /\ UNCHANGED <<quarch, qis, stream, questions, device, measure>>

\* Five seconds without any packet, or the end of the stream: what has come is taken for the
\* answer, if there is any.
ReadTimeout ==
    /\ quarch = "asking" /\ wire = <<>>
    /\ IF answer = <<>> \/ CannotAsk THEN PollFails
       ELSE TakeAnswer(answer) /\ late' = TRUE /\ UNCHANGED wire

ReadError == quarch = "asking" /\ PollFails

\* The device answers the questions in their order.
DeviceAnswers(last) ==
    LET head == Head(device) IN
    /\ stream = "open" /\ device # <<>>
    /\ last \/ head.sent + 1 < MaxPackets
    /\ wire' = Append(wire, [question |-> head.question, last |-> last])
    /\ device' = IF last THEN Tail(device) ELSE <<[head EXCEPT !.sent = @ + 1]>> \o Tail(device)
    /\ UNCHANGED <<quarch, qis, stream, questions, answer, late, measure>>

DeviceCloses ==
    /\ stream = "open"
    /\ stream' = "closed" /\ device' = <<>>
    /\ UNCHANGED <<quarch, qis, questions, wire, answer, late, measure>>

\* QuarchPlugin::stop.  stop_measurement takes the connection first, so that RECord:STOP
\* and $shutdown are never sent: the device goes on recording.
StopQuarch ==
    /\ quarch = "idle"
    /\ quarch' = "stopped" /\ qis' = "none" /\ stream' = "none"
    /\ questions' = NoQuestions /\ device' = <<>> /\ wire' = <<>> /\ late' = FALSE
    /\ UNCHANGED <<answer, measure>>

QuarchNext ==
    \/ \E launched, listens \in BOOLEAN : StartQuarch(launched, listens)
    \/ PollConnects \/ PollCannotConnect \/ PollMeasures \/ PollCannotWrite
    \/ \E n \in 1..(MaxQuestions * MaxPackets) : ReadPackets(n)
    \/ ReadTimeout \/ ReadError
    \/ \E last \in BOOLEAN : DeviceAnswers(last)
    \/ DeviceCloses \/ StopQuarch

QuarchSpec == QuarchInit /\ [][QuarchNext]_quarchVars

(* A power is computed from the answer to its own question, whatever answers the  *)
(* device has been late with before: only after a timeout in the middle of an     *)
(* answer, which is then taken as it is, can the rest of it be taken for another. *)
MeasureIsOwn == measure.late \/ measure.packets \subseteq {measure.question}

===============================================================================
