------------------------------ MODULE AsyncOutput -----------------------------
(***************************************************************************)
(* An asynchronous output: the plugin's future reads a ControlledStream    *)
(* over the broadcast channel of the pipeline, and its controller sets the *)
(* state of the stream.  Where a blocking output waits on a Notify, which  *)
(* remembers a notification, the stream is a Future: it returns Pending    *)
(* and is polled again only if a waker that it has registered is woken.    *)
(***************************************************************************)
EXTENDS OutputChannel

CONSTANTS
    Commands       \* commands that may be sent before the shutdown

ASSUME AsyncAssumption == Commands \subseteq TaskStates

StreamStates == {"Run", "Pause", "Stop"}

VARIABLES
    \* of the controller: the last command
    asked,
    \* who will poll the task: wakers registered, task queued on the executor
    waker, chanWaker, scheduled,
    \* the state seen by the current or last poll of the task
    seen,
    \* history: messages given to the plugin
    delivered

control == <<state, ctl, cmds, asked>>
wakers  == <<waker, chanWaker, scheduled>>
outcome == <<delivered, lagged>>
asyncVars == <<chan, next, control, wakers, pc, seen, outcome>>

AsyncTypeOK ==
    /\ sent \in 0..MaxMessages
    /\ upstream \in BOOLEAN
    /\ next \in 1..(MaxMessages + 1)
    /\ state \in StreamStates
    /\ ctl \in {"idle", "wake", "lastWake", "closed"}
    /\ cmds \in 0..MaxCommands
    /\ asked \in TaskStates
    /\ waker \in BOOLEAN /\ chanWaker \in BOOLEAN /\ scheduled \in BOOLEAN
    /\ pc \in {"idle", "load", "inner", "register", "consume", "done"}
    /\ seen \in StreamStates
    /\ delivered \in Seq(1..MaxMessages)
    /\ lagged \in SUBSET (1..MaxMessages)

\* The task has just been spawned.
AsyncInit ==
    /\ sent = 0 /\ upstream = TRUE /\ next = 1
    /\ state = "Run" /\ ctl = "idle" /\ cmds = 0 /\ asked = "Run"
    /\ waker = FALSE /\ chanWaker = FALSE /\ scheduled = TRUE
    /\ pc = "idle" /\ seen = "Run"
    /\ delivered = <<>> /\ lagged = {}

-------------------------------------------------------------------------------
(* The channel.                                                            *)

\* The ReceiverProvider keeps a sender until the end of the shutdown commands.
StreamClosed == ~upstream /\ ctl = "closed"

\* Wake the task if the stream has registered a waker in the channel.
WakeFromChannel ==
    /\ scheduled' = (scheduled \/ chanWaker)
    /\ chanWaker' = FALSE
    /\ UNCHANGED waker

SendAndWake ==
    /\ upstream
    /\ sent < MaxMessages
    /\ pc # "done"
    /\ sent' = sent + 1
    /\ WakeFromChannel
    /\ UNCHANGED <<upstream, next, control, pc, seen, outcome>>

SendersEnd ==
    /\ upstream
    /\ upstream' = FALSE
    /\ UNCHANGED <<sent, next, control, wakers, pc, seen, outcome>>

-------------------------------------------------------------------------------
(* The controller.                                                         *)

\* SingleOutputController::set_state: StreamState::from(state as u8), between
\* two enumerations that do not number their states in the same way.
Cast(s) ==
    CASE s = "Run" -> "Run"            \* 0
      [] s = "RunDiscard" -> "Pause"   \* 1
      [] OTHER -> "Stop"               \* 2 is Stop, so are 3 and 4 (the default)

\* SharedStreamState::set first stores the state...
SetStream(s) ==
    /\ ctl = "idle"
    /\ cmds < MaxCommands
    /\ state' = Cast(s)
    /\ asked' = s
    /\ cmds' = cmds + 1
    /\ ctl' = "wake"
    /\ UNCHANGED <<chan, next, wakers, pc, seen, outcome>>

\* OutputControl::shutdown, once the sources and the transforms have ended.
ShutdownStream ==
    /\ ctl = "idle"
    /\ ~upstream
    /\ state' = Cast("StopFinish")
    /\ asked' = "StopFinish"
    /\ ctl' = "lastWake"
    /\ UNCHANGED <<chan, next, cmds, wakers, pc, seen, outcome>>

\* Mutant of Wake: the waker is not called.
WakeNobody ==
    /\ ctl = "wake"
    /\ ctl' = "idle"
    /\ UNCHANGED <<chan, next, state, cmds, asked, wakers, pc, seen, outcome>>

\* ... and then takes and wakes the waker, if there is one.
Wake ==
    /\ ctl = "wake"
    /\ ctl' = "idle"
    /\ scheduled' = (scheduled \/ waker)
    /\ waker' = FALSE
    /\ UNCHANGED <<chan, next, state, cmds, asked, chanWaker, pc, seen, outcome>>

\* The shutdown does the same, then drops the last sender of the channel.
LastWake ==
    /\ ctl = "lastWake"
    /\ ctl' = "closed"
    /\ scheduled' = (scheduled \/ waker \/ chanWaker)
    /\ waker' = FALSE
    /\ chanWaker' = FALSE
    /\ UNCHANGED <<chan, next, state, cmds, asked, pc, seen, outcome>>

-------------------------------------------------------------------------------
(* The task.                                                               *)

\* The executor polls the task, which polls the stream.
Poll ==
    /\ pc = "idle"
    /\ scheduled
    /\ scheduled' = FALSE
    /\ pc' = "load"
    /\ UNCHANGED <<chan, next, control, waker, chanWaker, seen, outcome>>

\* ControlledStream::poll_next loads the state first.
LoadState ==
    /\ pc = "load"
    /\ seen' = state
    /\ pc' = CASE state = "Run" -> "inner"
               [] state = "Pause" -> "register"
               [] state = "Stop" -> "done"
    /\ UNCHANGED <<chan, next, control, wakers, outcome>>

\* Mutant of PollItem: the item is returned without moving the cursor.
PollItemAgain ==
    /\ pc = "inner"
    /\ next <= sent /\ next >= Oldest
    /\ delivered' = Append(delivered, next)
    /\ pc' = "consume"
    /\ UNCHANGED <<chan, next, control, wakers, seen, lagged>>

PollItem ==
    /\ pc = "inner"
    /\ next <= sent /\ next >= Oldest
    /\ delivered' = Append(delivered, next)
    /\ next' = next + 1
    /\ pc' = "consume"
    /\ UNCHANGED <<chan, control, wakers, seen, lagged>>

\* StreamRecvError::Lagged is an item too.
PollLagged ==
    /\ pc = "inner"
    /\ next < Oldest
    /\ lagged' = lagged \union next..(Oldest - 1)
    /\ next' = Oldest
    /\ pc' = "consume"
    /\ UNCHANGED <<chan, control, wakers, seen, delivered>>

\* The channel is empty: it keeps the waker of the task.
PollEmpty ==
    /\ pc = "inner"
    /\ next > sent /\ ~StreamClosed
    /\ chanWaker' = TRUE
    /\ pc' = "register"
    /\ UNCHANGED <<chan, next, control, waker, scheduled, seen, outcome>>

PollClosed ==
    /\ pc = "inner"
    /\ next > sent /\ StreamClosed
    /\ pc' = "done"
    /\ UNCHANGED <<chan, next, control, wakers, seen, outcome>>

\* Mutant of Register: only a paused stream registers its waker.
RegisterPausedOnly ==
    /\ pc = "register"
    /\ waker' = (waker \/ seen = "Pause")
    /\ pc' = "idle"
    /\ UNCHANGED <<chan, next, control, chanWaker, scheduled, seen, outcome>>

\* Register the waker and return Pending, without looking at the state again.
Register ==
    /\ pc = "register"
    /\ waker' = TRUE
    /\ pc' = "idle"
    /\ UNCHANGED <<chan, next, control, chanWaker, scheduled, seen, outcome>>

\* The plugin has finished with the item and polls the stream again.
Consume ==
    /\ pc = "consume"
    /\ pc' = "load"
    /\ UNCHANGED <<chan, next, control, wakers, seen, outcome>>

StreamStep ==
    \/ Poll \/ LoadState
    \/ PollItem \/ PollLagged \/ PollEmpty \/ PollClosed
    \/ Register \/ Consume

AsyncNext ==
    \/ SendAndWake \/ SendersEnd
    \/ \E s \in Commands : SetStream(s)
    \/ Wake \/ ShutdownStream \/ LastWake
    \/ StreamStep

AsyncSpec == AsyncInit /\ [][AsyncNext]_asyncVars

\* The executor polls the tasks that are scheduled, the plugin finishes with
\* every item, and the controller finishes its commands.
AsyncFairness == WF_asyncVars(StreamStep) /\ WF_asyncVars(Wake) /\ WF_asyncVars(LastWake)

AsyncFairSpec == AsyncSpec /\ AsyncFairness

-------------------------------------------------------------------------------
(* Properties.                                                             *)

\* The plugin is given the messages in order, each at most once, and is told of
\* each one that it missed: before the cursor, none is skipped silently.
DeliveredOrLagged ==
    LET D == {delivered[k] : k \in 1..Len(delivered)}
    IN  /\ \A j, k \in 1..Len(delivered) : j < k => delivered[j] < delivered[k]
        /\ 1..(next - 1) = D \union lagged
        /\ D \intersect lagged = {}

\* A suspended output always listens to its controller, whatever made it
\* suspend; if it was running when it suspended, it listens to the channel too,
\* and the channel is empty.
SuspendedListens ==
    (pc = "idle" /\ ~scheduled) =>
        /\ waker
        /\ seen = "Run" => chanWaker /\ next > sent

\* A command whose wake-up finds the waker of the output is obeyed: the output
\* sees it, or a newer one.
HeardIsObeyed ==
    \A s \in StreamStates :
        (ctl = "wake" /\ waker /\ state = s) ~> (seen = s \/ state # s \/ pc = "done")

\* A command that comes while the output is between the load of the state and
\* the registration of its waker is obeyed too: "If the output is paused, it
\* needs to be stopped with a command", and the shutdown waits for it to stop.
StreamEnds == ctl = "closed" ~> pc = "done"

\* "Enables the output and discards any pending data."
EnableDiscardEnables ==
    (asked = "RunDiscard" /\ ctl = "idle") ~> (seen = "Run" \/ asked # "RunDiscard")
===============================================================================
