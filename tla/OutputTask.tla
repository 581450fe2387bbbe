------------------------------ MODULE OutputTask ------------------------------
(***************************************************************************)
(* A blocking output: the task run_blocking_output, the configuration it   *)
(* shares with its controller, and the channel it receives from, which is  *)
(* either a broadcast channel (a ring that overwrites its oldest messages) *)
(* or, in a simplified pipeline, the bounded mpsc channel of the sources.  *)
(***************************************************************************)
EXTENDS OutputChannel

CONSTANTS
    Kind           \* "broadcast" or "single"

ASSUME OutputAssumption == Kind \in {"broadcast", "single"}

VARIABLES
    \* of the configuration shared with the controller
    permit,
    \* the task
    receive, current,
    \* history: the fate of the messages that were received or skipped
    written, refused, discarded

config == <<state, permit, ctl, cmds>>
fate   == <<written, refused, lagged, discarded>>
vars   == <<chan, next, config, pc, receive, current, fate>>

Ended == {"done", "stopped", "failed"}
Steps == {"select", "write", "finish", "finishWrite"} \union Ended

TypeOK ==
    /\ sent \in 0..MaxMessages
    /\ upstream \in BOOLEAN
    /\ next \in 1..(MaxMessages + 1)
    /\ state \in TaskStates
    /\ permit \in BOOLEAN
    /\ ctl \in {"idle", "notify", "lastNotify", "closed"}
    /\ cmds \in 0..MaxCommands
    /\ pc \in Steps
    /\ receive \in BOOLEAN
    /\ current \in 0..MaxMessages
    /\ written \in Seq(1..MaxMessages)
    /\ refused \in SUBSET (1..MaxMessages)
    /\ lagged \in SUBSET (1..MaxMessages)
    /\ discarded \in SUBSET (1..MaxMessages)

Init ==
    /\ sent = 0 /\ upstream = TRUE /\ next = 1
    /\ state = "Run" /\ permit = FALSE
    /\ ctl = "idle" /\ cmds = 0
    /\ pc = "select" /\ receive = TRUE /\ current = 0
    /\ written = <<>> /\ refused = {} /\ lagged = {} /\ discarded = {}

-------------------------------------------------------------------------------
(* The channel.                                                            *)

\* The oldest message that the channel still holds; an mpsc channel overwrites nothing.
OldestLeft == IF Kind = "broadcast" THEN Oldest ELSE 1

\* A broadcast channel also has a sender in the ReceiverProvider, dropped by the
\* shutdown of the outputs after the last command.
Closed == ~upstream /\ (Kind = "single" \/ ctl = "closed")

\* A bounded mpsc channel makes its senders wait; a broadcast channel never does.
Send ==
    /\ upstream
    /\ sent < MaxMessages
    /\ pc \notin Ended
    /\ Kind = "single" => sent + 1 - next < Capacity
    /\ sent' = sent + 1
    /\ UNCHANGED <<upstream, next, config, pc, receive, current, fate>>

UpstreamEnds ==
    /\ upstream
    /\ upstream' = FALSE
    /\ UNCHANGED <<sent, next, config, pc, receive, current, fate>>

-------------------------------------------------------------------------------
(* The controller.                                                         *)

\* Mutant of SetState: no notification to resume.
SetStateSilently(s) ==
    /\ ctl = "idle"
    /\ cmds < MaxCommands
    /\ state' = s
    /\ ctl' = IF s = "Run" THEN "idle" ELSE "notify"
    /\ cmds' = cmds + 1
    /\ UNCHANGED <<chan, next, permit, pc, receive, current, fate>>

SetState(s) ==
    /\ ctl = "idle"
    /\ cmds < MaxCommands
    /\ state' = s
    /\ ctl' = "notify"
    /\ cmds' = cmds + 1
    /\ UNCHANGED <<chan, next, permit, pc, receive, current, fate>>

\* Mutant of Shutdown: the channel is closed without a StopFinish.
ShutdownCloseOnly ==
    /\ ctl = "idle"
    /\ ~upstream
    /\ ctl' = "closed"
    /\ UNCHANGED <<chan, next, state, permit, cmds, pc, receive, current, fate>>

\* OutputControl::shutdown: after the sources and the transforms have ended.
Shutdown ==
    /\ ctl = "idle"
    /\ ~upstream
    /\ state' = "StopFinish"
    /\ ctl' = "lastNotify"
    /\ UNCHANGED <<chan, next, permit, cmds, pc, receive, current, fate>>

NotifyOne ==
    /\ ctl \in {"notify", "lastNotify"}
    /\ permit' = TRUE
    /\ ctl' = IF ctl = "notify" THEN "idle" ELSE "closed"
    /\ UNCHANGED <<chan, next, state, cmds, pc, receive, current, fate>>

-------------------------------------------------------------------------------
(* The task.                                                               *)

\* Mutant of Discard: resubscribing forgets one message too many.
DiscardTooMuch ==
    /\ next' = sent + 2
    /\ discarded' = discarded \union next..sent

\* A new subscription starts after the last message sent; an mpsc receiver is
\* emptied with try_recv.
Discard ==
    /\ next' = sent + 1
    /\ discarded' = discarded \union next..sent

\* The branch of the select for a command: the state is loaded when the
\* notification has been received.
Notified ==
    /\ pc = "select"
    /\ permit
    /\ permit' = FALSE
    /\ receive' = CASE state \in {"Run", "RunDiscard"} -> TRUE
                    [] state = "Pause" -> FALSE
                    [] OTHER -> receive
    /\ pc' = CASE state = "StopNow" -> "stopped"
               [] state = "StopFinish" -> "finish"
               [] OTHER -> "select"
    /\ IF state = "RunDiscard" THEN Discard ELSE UNCHANGED <<next, discarded>>
    /\ UNCHANGED <<chan, state, ctl, cmds, current, written, refused, lagged>>

Receiving == (pc = "select" /\ receive) \/ pc = "finish"

Receive ==
    /\ Receiving
    /\ next <= sent
    /\ next >= OldestLeft
    /\ current' = next
    /\ next' = next + 1
    /\ pc' = IF pc = "select" THEN "write" ELSE "finishWrite"
    /\ UNCHANGED <<chan, config, receive, fate>>

\* RecvError::Lagged: the messages that were overwritten are lost; go on.
Lag ==
    /\ Receiving
    /\ next < OldestLeft
    /\ lagged' = lagged \union next..(OldestLeft - 1)
    /\ next' = OldestLeft
    /\ UNCHANGED <<chan, config, pc, receive, current, written, refused, discarded>>

\* Mutant of ReceiveClosed: a paused or finishing output ends when the channel
\* is closed, without looking at what it holds.
CloseEarly ==
    /\ Receiving
    /\ Closed
    /\ pc' = "done"
    /\ UNCHANGED <<chan, next, config, receive, current, fate>>

ReceiveClosed ==
    /\ Receiving
    /\ Closed
    /\ next > sent
    /\ pc' = "done"
    /\ UNCHANGED <<chan, next, config, receive, current, fate>>

\* Mutant of WriteEnds: a message is received again after a write that can be
\* retried, part of which was done.
WriteRetries ==
    /\ pc \in {"write", "finishWrite"}
    /\ \/ written' = Append(written, current) /\ UNCHANGED <<next, refused>>
       \/ written' = Append(written, current) /\ next' = current /\ UNCHANGED refused
    /\ current' = 0
    /\ pc' = IF pc = "write" THEN "select" ELSE "finish"
    /\ UNCHANGED <<chan, config, receive, lagged, discarded>>

\* The end of Output::write, on a blocking thread.  After WriteError::CanRetry
\* the task goes on with the next message: the refused one is not written again.
WriteEnds ==
    /\ pc \in {"write", "finishWrite"}
    /\ \/ written' = Append(written, current) /\ UNCHANGED refused
       \/ refused' = refused \union {current} /\ UNCHANGED written
    /\ current' = 0
    /\ pc' = IF pc = "write" THEN "select" ELSE "finish"
    /\ UNCHANGED <<chan, next, config, receive, lagged, discarded>>

\* WriteError::Fatal, or a panic of Output::write.
WriteFails ==
    /\ pc \in {"write", "finishWrite"}
    /\ pc' = "failed"
    /\ UNCHANGED <<chan, next, config, receive, current, fate>>

TaskStep == Notified \/ Receive \/ Lag \/ ReceiveClosed \/ WriteEnds \/ WriteFails

Next ==
    \/ Send \/ UpstreamEnds
    \/ \E s \in TaskStates : SetState(s)
    \/ Shutdown \/ NotifyOne
    \/ TaskStep

Spec == Init /\ [][Next]_vars

\* The executor runs the task, the controller finishes its commands, and the
\* random choice of select! does not ignore a notification for ever.  Nothing
\* obliges the elements upstream to end.
Fairness ==
    /\ WF_vars(TaskStep)
    /\ SF_vars(Notified)
    /\ WF_vars(NotifyOne)

FairSpec == Spec /\ Fairness

-------------------------------------------------------------------------------
(* Properties.                                                             *)

\* The output sees the messages in the order in which they were sent, each at
\* most once, whatever the lags, the discards and the pauses in between.
WrittenInOrder ==
    \A j, k \in 1..Len(written) : j < k => written[j] < written[k]

\* Every message before the cursor has had exactly one fate: written, refused by
\* the output, lost to a lag, discarded on request, or being written.
Fates ==
    LET W == {written[k] : k \in 1..Len(written)}
        C == IF current = 0 THEN {} ELSE {current}
    IN  /\ 1..(next - 1) = W \union refused \union lagged \union discarded \union C
        /\ W \intersect (refused \union lagged \union discarded) = {}
        /\ refused \intersect (lagged \union discarded) = {}
        /\ C \intersect (W \union refused \union lagged \union discarded) = {}

\* An output that ends without StopNow and without error has received everything
\* ("to ensure that we don't discard any data").
DoneMeansDrained == pc = "done" => next = sent + 1 /\ ~upstream

\* What a lagging output loses is the oldest: it never loses one of the last
\* Capacity messages, so a pause shorter than the ring loses nothing.
LagLosesOldest == \A m \in lagged : m + Capacity <= sent

\* Every output ends after the shutdown command, paused or not.
ShutdownEnds == ctl = "closed" ~> pc \in Ended

\* An output that runs consumes every message, until another command: a Run
\* command is not lost, and resumes a paused output.
RunConsumes ==
    \A m \in 1..MaxMessages :
        (sent >= m /\ state = "Run") ~> (next > m \/ state # "Run" \/ pc \in Ended)
===============================================================================
