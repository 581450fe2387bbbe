--------------------------------- MODULE Relay ---------------------------------
(***************************************************************************)
(* The relay plugins: an asynchronous output (TcpOutput::send_loop) sends  *)
(* the definitions of the metrics and the measurements of one agent to a   *)
(* server, whose source (TcpSource::receive_loop, one task per connection) *)
(* injects them in another pipeline.  The output buffers measurements,     *)
(* retries and reconnects; the server reads a byte stream in chunks of any *)
(* size and keeps what it read in a buffer.                                *)
(*                                                                         *)
(* A measurement is its rank, with the metric its source used.             *)
(* Every message has HeaderSize + BodySize units of the byte stream.  The  *)
(* greeting is part of the connection, because the client sends nothing    *)
(* else before the answer.                                                 *)
(***************************************************************************)
EXTENDS Naturals, Sequences, SequencesExt

CONSTANTS
    HeaderSize, BodySize,  \* units of a message (4 bytes, and the length they hold)
    MaxLength,             \* buffer_max_length: points buffered before a send
    MaxRetries,            \* max_times of the retry policy
    InitialMetrics,        \* number of metrics registered before the start
    MaxMetrics,            \* bound: metrics
    MaxPoints,             \* bound: measurements
    MaxConnections         \* bound: successful connections

ASSUME RelayAssumption ==
    /\ {HeaderSize, BodySize, MaxConnections} \subseteq Nat \ {0}
    /\ {MaxLength, MaxRetries, InitialMetrics, MaxMetrics, MaxPoints} \subseteq Nat
    /\ InitialMetrics <= MaxMetrics

VARIABLES
    \* the agent of the client: its metrics are numbered in order of publication
    published, heard, usable,  \* in the registry, told to the listener, given to the sources
    inMetrics, inPoints,       \* the two inputs of the output
    made,                      \* number of measurements made
    closing,                   \* the stream of the points has been told to stop
    \* the output
    out,          \* "connect", "select", "poll", "write", "reconnect", "ended" or "failed"
    polled,       \* at "poll": metrics told when in_metrics was polled, and found empty
    buffer,       \* points not sent yet
    rest,         \* points received with a full buffer, to be buffered after the send
    message,      \* the message being written
    retries,
    \* the connections, oldest first, with the server task of each
    conn,
    \* history: measurements injected by the server; has any I/O operation failed?  the metrics
    \* whose points were sent in the very turn in which the metric was told
    delivered, faulty, raced

agent == <<published, heard, usable, inMetrics, inPoints, made, closing>>
output == <<out, polled, buffer, rest, message, retries>>
relayVars == <<agent, output, conn, delivered, faulty, raced>>

MessageSize == HeaderSize + BodySize

NoMessage == [register |-> {}, points |-> <<>>]
Definitions(ms) == [register |-> ms, points |-> <<>>]
Measurements(ps) == [register |-> {}, points |-> ps]

\* A connection: the messages written, how many units of them were written and
\* read, and the state of the server task that reads them.
Connection(first) ==
    [messages |-> <<first>>, written |-> MessageSize, open |-> TRUE, reset |-> FALSE,
     read |-> 0, fresh |-> 0, taken |-> 0, reader |-> "header", known |-> {}]

RelayInit ==
    /\ published = InitialMetrics /\ heard = InitialMetrics /\ usable = InitialMetrics
    /\ inMetrics = <<1..InitialMetrics>>
    /\ inPoints = <<>> /\ made = 0 /\ closing = FALSE
    /\ out = "connect" /\ polled = 0 /\ buffer = <<>> /\ rest = <<>> /\ message = NoMessage
    /\ retries = 0
    /\ conn = <<>>
    /\ delivered = <<>> /\ faulty = FALSE /\ raced = {}

-------------------------------------------------------------------------------
(* The agent around the output.  A metric is published, then told to the   *)
(* listener that feeds in_metrics, then used by the sources.               *)

PublishMetric ==
    /\ published < MaxMetrics
    /\ published' = published + 1
    /\ UNCHANGED <<heard, usable, inMetrics, inPoints, made, closing, output, conn, delivered, faulty, raced>>

LateMetricsHook ==
    /\ heard < published
    /\ heard' = heard + 1
    /\ inMetrics' = Append(inMetrics, {heard + 1})
    /\ UNCHANGED <<published, usable, inPoints, made, closing, output, conn, delivered, faulty, raced>>

\* Mutant of AnswerSource: the source gets the id as soon as it is published.
AnswerSourceEarly ==
    /\ usable < published
    /\ usable' = usable + 1
    /\ UNCHANGED <<published, heard, inMetrics, inPoints, made, closing, output, conn, delivered, faulty, raced>>

AnswerSource ==
    /\ usable < heard
    /\ usable' = usable + 1
    /\ UNCHANGED <<published, heard, inMetrics, inPoints, made, closing, output, conn, delivered, faulty, raced>>

Measure ==
    /\ made < MaxPoints /\ usable > 0
    /\ made' = made + 1
    /\ inPoints' = Append(inPoints, [rank |-> made + 1, metric |-> usable])
    /\ UNCHANGED <<published, heard, usable, inMetrics, closing, output, conn, delivered, faulty, raced>>

\* The shutdown, or a command, stops the stream: what is in the channel is not read any more.
StopStream ==
    /\ closing' = TRUE
    /\ UNCHANGED <<published, heard, usable, inMetrics, inPoints, made, output, conn, delivered, faulty, raced>>

-------------------------------------------------------------------------------
(* The output: connections.                                                *)

\* Mutant of Greeting: a new connection does not begin with the definitions.
GreetingEmpty == Definitions({})

\* The first message: every metric that is in the registry at this moment.
Greeting == Definitions(1..published)

CurrentConn == Len(conn)
CloseOne(c) == [c EXCEPT !.open = FALSE]
AllClosed == [k \in 1..Len(conn) |-> CloseOne(conn[k])]

\* connect_to_server; the previous connection, if any, is dropped.
Reconnected ==
    /\ Len(conn) < MaxConnections
    /\ conn' = Append(AllClosed, Connection(Greeting))

CanRetry == retries <= MaxRetries

Connect ==
    /\ out = "connect"
    /\ \/ /\ Reconnected
          /\ out' = "select"
          /\ UNCHANGED <<retries, faulty>>
       \/ /\ out' \in {"connect", "failed"}
          /\ out' # "failed" => CanRetry
          /\ retries' = retries + 1
          /\ faulty' = TRUE
          /\ UNCHANGED conn
    /\ UNCHANGED <<agent, polled, buffer, rest, message, delivered, raced>>

-------------------------------------------------------------------------------
(* The output: the loop.  The selection is biased: in_metrics is polled    *)
(* first, then the stream of the points, and the agent goes on in between. *)

Begin(m) ==
    /\ message' = m
    /\ retries' = 0
    /\ out' = "write"

UpTo8(n) == IF n < 8 THEN n ELSE 8

SendMetrics ==
    /\ out = "select"
    /\ inMetrics # <<>>
    /\ LET n == UpTo8(Len(inMetrics)) IN
       /\ Begin(Definitions(UNION {inMetrics[i] : i \in 1..n}))
       /\ inMetrics' = SubSeq(inMetrics, n + 1, Len(inMetrics))
    /\ UNCHANGED <<published, heard, usable, inPoints, made, closing, polled, buffer, rest, conn,
                   delivered, faulty, raced>>

\* Mutant of NoMetricsWaiting: the selection is not biased.
Unbiased == TRUE

NoMetricsWaiting == inMetrics = <<>>

PollMetrics ==
    /\ out = "select"
    /\ NoMetricsWaiting
    /\ out' = "poll" /\ polled' = heard
    /\ UNCHANGED <<agent, buffer, rest, message, retries, conn, delivered, faulty, raced>>

\* The metric of p, if it was told after in_metrics has been polled.
ToldMeanwhile(p) == {p.metric} \intersect (polled + 1)..heard

\* send_measurements, up to the first write: the timeout may have expired.
ReceivePoints ==
    /\ out = "poll"
    /\ ~closing /\ inPoints # <<>>
    /\ inPoints' = Tail(inPoints)
    /\ LET limit == Len(buffer) + 1 > MaxLength IN
       \/ /\ limit
          /\ rest' = <<Head(inPoints)>>
          /\ Begin(Measurements(buffer))
          /\ UNCHANGED <<buffer, raced>>
       \/ /\ ~limit
          /\ buffer' = Append(buffer, Head(inPoints))
          /\ \/ /\ Begin(Measurements(buffer'))
                /\ raced' = raced \union ToldMeanwhile(Head(inPoints))
             \/ /\ out' = "select"
                /\ UNCHANGED <<message, retries, raced>>
          /\ UNCHANGED rest
    /\ polled' = 0
    /\ UNCHANGED <<published, heard, usable, inMetrics, made, closing, conn, delivered, faulty>>

\* Both are pending: they are polled again when one of them wakes the task.
NothingReady ==
    /\ out = "poll"
    /\ ~closing /\ inPoints = <<>>
    /\ out' = "select" /\ polled' = 0
    /\ UNCHANGED <<agent, buffer, rest, message, retries, conn, delivered, faulty, raced>>

\* A slow output loses the oldest measurements of its input.
Lagged ==
    /\ out = "poll"
    /\ ~closing /\ Len(inPoints) > 1
    /\ inPoints' = Tail(inPoints)
    /\ faulty' = TRUE
    /\ out' = "select" /\ polled' = 0
    /\ UNCHANGED <<published, heard, usable, inMetrics, made, closing, buffer, rest, message, retries,
                   conn, delivered, raced>>

\* The stream has been stopped, with points in its channel or not: the loop ends, the
\* connection is dropped, and the buffer with it.
EndOutput ==
    /\ out = "poll"
    /\ closing
    /\ out' = "ended" /\ polled' = 0
    /\ conn' = AllClosed
    /\ UNCHANGED <<agent, buffer, rest, message, retries, delivered, faulty, raced>>

-------------------------------------------------------------------------------
(* The output: writing a message.                                          *)

\* n units of the message reach the socket.
WriteUnits(n) ==
    conn' = [conn EXCEPT ![CurrentConn].messages = Append(@, message),
                         ![CurrentConn].written = @ + n]

\* The message holds the points of the buffer, of which there may be none when
\* buffer_max_length is 0; definitions find no points beside the buffer.
SendsBuffer == message.points = buffer

\* Mutant of Clear: the buffer is not cleared after it was sent.
ClearNothing ==
    /\ buffer' = IF SendsBuffer THEN buffer \o rest ELSE buffer
    /\ rest' = <<>>

\* After the points have been sent: buffer.clear(), then merge the last ones.
Clear ==
    /\ buffer' = IF SendsBuffer THEN rest ELSE buffer
    /\ rest' = <<>>

Writable == CurrentConn > 0 /\ ~conn[CurrentConn].reset /\ conn[CurrentConn].written % MessageSize = 0

Written ==
    /\ out = "write"
    /\ Writable
    /\ WriteUnits(MessageSize)
    /\ Clear
    /\ out' = "select"
    /\ message' = NoMessage
    /\ UNCHANGED <<agent, polled, retries, delivered, faulty, raced>>

\* An error, possibly after a part of the message was written: retry_action says
\* to write again, to reconnect or to give up.
WriteError ==
    /\ out = "write"
    /\ \/ /\ Writable
          /\ \E n \in 1..(MessageSize - 1) : WriteUnits(n)
          /\ out' \in {"reconnect", "failed"}
       \/ /\ UNCHANGED conn
          /\ out' \in {"write", "reconnect", "failed"}
          /\ out' = "write" => Writable
    /\ out' # "failed" => CanRetry
    /\ retries' = retries + 1
    /\ faulty' = TRUE
    /\ UNCHANGED <<agent, polled, buffer, rest, message, delivered, raced>>

\* The message is written again as soon as the new connection is established.
Reconnect ==
    /\ out = "reconnect"
    /\ \/ /\ Reconnected
          /\ out' = "write"
          /\ UNCHANGED retries
       \/ /\ out' \in {"reconnect", "failed"}   \* the connection failed
          /\ out' # "failed" => CanRetry
          /\ retries' = retries + 1
          /\ UNCHANGED conn
    /\ UNCHANGED <<agent, polled, buffer, rest, message, delivered, faulty, raced>>

-------------------------------------------------------------------------------
(* The server: one task per connection.                                    *)

SetConn(k, c) == conn' = [conn EXCEPT ![k] = c]
Available(c) == c.written - c.read
Buffered(c) == c.read - c.taken * MessageSize

Ranks(ps) == [i \in DOMAIN ps |-> ps[i].rank]

\* process_message, on a complete message: definitions are registered with the
\* registry of the server, a measurement of an unknown metric ends the task.
Process(k, c) ==
    LET m == c.messages[c.taken + 1]
        accepted == \A i \in DOMAIN m.points : m.points[i].metric \in c.known
    IN /\ SetConn(k, [c EXCEPT !.taken = @ + 1, !.fresh = 0, !.known = @ \union m.register,
                           !.reader = IF accepted THEN "header" ELSE "rejected"])
       /\ delivered' = IF accepted THEN delivered \o Ranks(m.points) ELSE delivered

\* The header loop counts the units that it reads itself.
HeaderRead(c) == c.fresh >= HeaderSize

\* read_message: one read, of the header loop or of the body loop.  The header loop
\* waits for new units even when the buffer holds a message already.
Read(k) ==
    /\ conn[k].reader \in {"header", "body"}
    /\ \E n \in 1..Available(conn[k]) :
          LET c == [conn[k] EXCEPT !.read = @ + n,
                                   !.fresh = IF conn[k].reader = "header" THEN @ + n ELSE @]
          IN \/ /\ HeaderRead(c) /\ Buffered(c) >= MessageSize
                /\ Process(k, c)
             \/ /\ HeaderRead(c) /\ Buffered(c) < MessageSize
                /\ SetConn(k, [c EXCEPT !.reader = "body"])
                /\ UNCHANGED delivered
             \/ /\ ~HeaderRead(c)
                /\ SetConn(k, c)
                /\ UNCHANGED delivered
    /\ UNCHANGED <<agent, output, faulty, raced>>

\* The end of the stream, in the header loop.  The body loop does not see it: it
\* reads zero units again and again, and stays as it is.
ReadEof(k) ==
    LET c == conn[k] IN
    /\ c.reader = "header"
    /\ ~c.open /\ Available(c) = 0
    /\ SetConn(k, [c EXCEPT !.reader = IF c.fresh = 0 THEN "disconnected" ELSE "failed"])
    /\ UNCHANGED <<agent, output, delivered, faulty, raced>>

\* An I/O error, or the shutdown of the server: the task ends, and what it has
\* not processed is never read.
ReadError(k) ==
    /\ conn[k].reader \in {"header", "body"}
    /\ SetConn(k, [Connection(NoMessage) EXCEPT !.reader = "failed", !.reset = TRUE])
    /\ faulty' = TRUE
    /\ UNCHANGED <<agent, output, delivered, raced>>

RelayNext ==
    \/ PublishMetric \/ LateMetricsHook \/ AnswerSource \/ Measure \/ StopStream
    \/ Connect \/ SendMetrics \/ PollMetrics \/ ReceivePoints \/ NothingReady \/ Lagged \/ EndOutput
    \/ Written \/ WriteError \/ Reconnect
    \/ \E k \in DOMAIN conn : Read(k) \/ ReadEof(k) \/ ReadError(k)

RelaySpec == RelayInit /\ [][RelayNext]_relayVars

-------------------------------------------------------------------------------
(* Properties.                                                             *)

\* The server knows the metrics of the measurements that it receives, whatever the chunks, the
\* retries and the reconnections: the definitions of late metrics overtake the measurements on
\* the way to the output, and a new connection begins with all the definitions.  The exception
\* is a metric that was told and measured between the two polls of one turn of the loop, with
\* the timeout expired: a server refuses a message only for a measurement of such a metric.
MetricsKnown ==
    \A k \in DOMAIN conn : LET c == conn[k] IN
        c.reader = "rejected" =>
            \E i \in DOMAIN c.messages[c.taken].points :
                c.messages[c.taken].points[i].metric \in raced \ c.known

\* The measurements that the task of a connection is still to process: none once it has ended,
\* even of the messages that it had read.
StillComes(c) ==
    IF c.reader \in {"header", "body"}
    THEN FlattenSeq([i \in 1..(Len(c.messages) - c.taken) |-> Ranks(c.messages[c.taken + i].points)])
    ELSE <<>>

Arriving == delivered \o (IF conn = <<>> THEN <<>> ELSE StillComes(Last(conn)))

\* Without any I/O error, and without such a metric, every measurement is, once and in order, at
\* the server, in the byte stream, in the buffer of the output or in its input, as long as the
\* output runs.  When it ends, what it has not written is lost, and so is what the server has
\* read and not processed: what has arrived are the first measurements, without a gap.
NothingLost ==
    ~faulty /\ raced = {} =>
        /\ out # "ended" =>
              Arriving \o Ranks(buffer) \o Ranks(rest) \o Ranks(inPoints) = [i \in 1..made |-> i]
        /\ Arriving = [i \in 1..Len(Arriving) |-> i]

===============================================================================
