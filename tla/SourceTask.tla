------------------------------ MODULE SourceTask ------------------------------
(***************************************************************************)
(* A managed measurement source: the task run_managed, the configuration   *)
(* it shares with its controller (atomic state, trigger slot, Notify), and *)
(* the bounded channel to the transforms.  The control loop and the task   *)
(* run on different threads: a command is a store followed by notify_one,  *)
(* and the task may take any number of steps between the two.              *)
(*                                                                         *)
(* A measurement is its rank.  Time is abstracted: a periodic trigger may  *)
(* tick, and the start-up timeout may expire, at any moment.               *)
(***************************************************************************)
EXTENDS Naturals, Sequences

CONSTANTS
    TriggerSpecs,     \* the trigger specifications in use (already constrained)
    ChannelSize,      \* capacity of the channel [sources -> transforms]
    CounterSize,      \* number of values of the round counter (2^64 in the code)
    MaxCommands,      \* bound: commands sent before the shutdown
    MaxMeasurements   \* bound: measurements produced by the source

States == {"Run", "RunFlush", "Pause", "Stop"}

TriggerSpec ==
    [flush_rounds : Nat \ {0}, update_rounds : Nat \ {0},
     interruptible : BOOLEAN, periodic : BOOLEAN, manual : BOOLEAN]

ASSUME SourceAssumption ==
    /\ TriggerSpecs \subseteq TriggerSpec
    /\ ChannelSize \in Nat \ {0}
    /\ CounterSize \in Nat \ {0, 1}
    /\ MaxCommands \in Nat
    /\ MaxMeasurements \in Nat

VARIABLES
    \* shared between the controller and the task (SharedSourceConfig)
    state,        \* atomic_state
    newTrigger,   \* the slot new_trigger: at most one trigger
    permit,       \* change_notifier holds a notification
    manual,       \* ManualTrigger kept by the controller: "none", "clear", "set"
    \* the controller
    ctl,          \* "idle", "notify", "lastNotify" or "closed"
    cmds,         \* number of commands sent
    \* locals of the task
    pc, trigger, tick, i, buffer, loaded,
    \* the channel to the transforms
    queued, rxOpen,
    \* history: what the source pushed and what the channel accepted
    produced, accepted,
    \* history: a state change not loaded yet, and the polls made since
    unseen, late

shared  == <<state, newTrigger, permit, manual>>
control == <<ctl, cmds>>
channel == <<queued, rxOpen>>
data    == <<produced, accepted>>
history == <<unseen, late>>
vars == <<shared, control, pc, trigger, tick, i, buffer, loaded, channel, data, history>>

\* A trigger built from a specification.  `own` says that it is the one the
\* controller took its ManualTrigger from.
Trigger == [spec : TriggerSpecs, own : BOOLEAN]
NoTrigger == <<>>

Running == {"wait", "poll", "flush", "update", "take", "flushNow", "cas", "paused", "stopping"}
Ended   == {"done", "failed", "panicked"}
Steps   == {"start", "init", "initPaused"} \union Running \union Ended

TypeOK ==
    /\ state \in States
    /\ newTrigger \in Trigger \union {NoTrigger}
    /\ permit \in BOOLEAN
    /\ manual \in {"none", "clear", "set"}
    /\ ctl \in {"idle", "notify", "lastNotify", "closed"}
    /\ cmds \in 0..MaxCommands
    /\ pc \in Steps
    /\ trigger \in Trigger \union {NoTrigger}
    /\ tick \in BOOLEAN
    /\ i \in 0..(CounterSize - 1)
    /\ buffer \in Seq(Nat)
    /\ loaded \in States
    /\ queued \in 0..ChannelSize
    /\ rxOpen \in BOOLEAN
    /\ produced \in Seq(Nat)
    /\ accepted \in Seq(Nat)
    /\ unseen \in BOOLEAN
    /\ late \in Nat

Init ==
    /\ state \in States
    /\ \E s \in TriggerSpecs :
          /\ newTrigger = [spec |-> s, own |-> TRUE]
          /\ manual = IF s.manual THEN "clear" ELSE "none"
    /\ permit = FALSE
    /\ ctl = "idle" /\ cmds = 0
    /\ pc = "start"
    /\ trigger = NoTrigger
    /\ tick = FALSE
    /\ i = 1
    /\ buffer = <<>>
    /\ loaded = state
    /\ queued = 0 /\ rxOpen = TRUE
    /\ produced = <<>> /\ accepted = <<>>
    /\ unseen = FALSE /\ late = 0

-------------------------------------------------------------------------------
(* The controller, called by the control loop.                             *)

\* Bookkeeping of a state change: it is observed by the next load.
Announce ==
    /\ unseen' = TRUE
    /\ late' = IF unseen THEN late ELSE 0

Store(s) == state' = s /\ Announce

\* Mutant of SetState: the controller forgets notify_one.
SetStateSilently(s) ==
    /\ ctl = "idle"
    /\ cmds < MaxCommands
    /\ Store(s)
    /\ cmds' = cmds + 1
    /\ UNCHANGED <<newTrigger, permit, manual, ctl, pc, trigger, tick, i, buffer, loaded, channel, data>>

\* Pause, Resume, Stop or Flush: atomic_state.store, then notify_one.
SetState(s) ==
    /\ ctl = "idle"
    /\ cmds < MaxCommands
    /\ Store(s)
    /\ ctl' = "notify"
    /\ cmds' = cmds + 1
    /\ UNCHANGED <<newTrigger, permit, manual, pc, trigger, tick, i, buffer, loaded, channel, data>>

SetTrigger(s) ==
    /\ ctl = "idle"
    /\ cmds < MaxCommands
    /\ newTrigger' = [spec |-> s, own |-> FALSE]
    /\ ctl' = "notify"
    /\ cmds' = cmds + 1
    /\ UNCHANGED <<state, permit, manual, pc, trigger, tick, i, buffer, loaded, channel, data, history>>

TriggerNow ==
    /\ ctl = "idle"
    /\ cmds < MaxCommands
    /\ manual # "none"
    /\ manual' = "set"
    /\ cmds' = cmds + 1
    /\ UNCHANGED <<state, newTrigger, permit, ctl, pc, trigger, tick, i, buffer, loaded, channel, data, history>>

\* Mutant of Shutdown: the Stop is stored, the source is not notified.
ShutdownSilently ==
    /\ ctl = "idle"
    /\ Store("Stop")
    /\ ctl' = "closed"
    /\ UNCHANGED <<newTrigger, permit, manual, cmds, pc, trigger, tick, i, buffer, loaded, channel, data>>

\* SourceControl::shutdown sends Stop to every source, and is its last command.
Shutdown ==
    /\ ctl = "idle"
    /\ Store("Stop")
    /\ ctl' = "lastNotify"
    /\ UNCHANGED <<newTrigger, permit, manual, cmds, pc, trigger, tick, i, buffer, loaded, channel, data>>

NotifyOne ==
    /\ ctl \in {"notify", "lastNotify"}
    /\ permit' = TRUE
    /\ ctl' = IF ctl = "notify" THEN "idle" ELSE "closed"
    /\ UNCHANGED <<state, newTrigger, manual, cmds, pc, trigger, tick, i, buffer, loaded, channel, data, history>>

-------------------------------------------------------------------------------
(* The environment: the timer of a periodic trigger and the task that      *)
(* receives from the channel, which may fail and drop its receiver.        *)

Tick ==
    /\ trigger # NoTrigger
    /\ trigger.spec.periodic
    /\ ~tick
    /\ pc \notin Ended
    /\ tick' = TRUE
    /\ UNCHANGED <<shared, control, pc, trigger, i, buffer, loaded, channel, data, history>>

Receive ==
    /\ rxOpen /\ queued > 0
    /\ queued' = queued - 1
    /\ UNCHANGED <<shared, control, pc, trigger, tick, i, buffer, loaded, rxOpen, data, history>>

DropReceiver ==
    /\ rxOpen
    /\ rxOpen' = FALSE
    /\ UNCHANGED <<shared, control, pc, trigger, tick, i, buffer, loaded, queued, data, history>>

-------------------------------------------------------------------------------
(* The task: before the main loop.                                         *)

Start ==
    /\ pc = "start"
    /\ trigger' = newTrigger
    /\ newTrigger' = NoTrigger
    /\ pc' = "init"
    /\ UNCHANGED <<state, permit, manual, control, tick, i, buffer, loaded, channel, data, history>>

LoadInitialState ==
    /\ pc = "init"
    /\ loaded' = state
    /\ unseen' = FALSE
    /\ pc' = CASE state \in {"Run", "RunFlush"} -> "wait"
               [] state = "Pause" -> "initPaused"
               [] state = "Stop" -> "done"
    /\ UNCHANGED <<shared, control, trigger, tick, i, buffer, channel, data, late>>

InitialWakeup ==
    /\ pc = "initPaused"
    /\ permit
    /\ permit' = FALSE
    /\ pc' = "init"
    /\ UNCHANGED <<state, newTrigger, manual, control, trigger, tick, i, buffer, loaded, channel, data, history>>

\* tokio::time::timeout polls the notification first: it expires only without one.
InitialTimeout ==
    /\ pc = "initPaused"
    /\ ~permit
    /\ pc' = "done"
    /\ UNCHANGED <<shared, control, trigger, tick, i, buffer, loaded, channel, data, history>>

-------------------------------------------------------------------------------
(* The task: waiting for the trigger.  The selection is biased: mechanism, *)
(* then manual trigger, then interruption.                                 *)

ManualReady == trigger.own /\ trigger.spec.manual /\ manual = "set"

Triggered ==
    /\ pc = "wait"
    /\ \/ /\ tick
          /\ tick' = FALSE
          /\ UNCHANGED manual
       \/ /\ ~tick /\ ManualReady
          /\ manual' = "clear"
          /\ UNCHANGED tick
    /\ pc' = "poll"
    /\ UNCHANGED <<state, newTrigger, permit, control, trigger, i, buffer, loaded, channel, data, history>>

Interrupted ==
    /\ pc = "wait"
    /\ ~tick /\ ~ManualReady
    /\ trigger.spec.interruptible
    /\ permit
    /\ permit' = FALSE
    /\ pc' = "update"
    /\ UNCHANGED <<state, newTrigger, manual, control, trigger, tick, i, buffer, loaded, channel, data, history>>

\* Only the timer of a periodic trigger can return an error.
TriggerError ==
    /\ pc = "wait"
    /\ trigger.spec.periodic
    /\ pc' = "failed"
    /\ UNCHANGED <<shared, control, trigger, tick, i, buffer, loaded, channel, data, history>>

-------------------------------------------------------------------------------
(* The task: a round of the main loop.                                     *)

\* Mutant of EndRound: the update comes a round late.
EndRoundLate ==
    /\ i' = (i + 1) % CounterSize
    /\ pc' = IF i % (trigger.spec.update_rounds + 1) = 0 THEN "update" ELSE "wait"

\* The end of a round: update on some rounds only, and count the round.
EndRound ==
    /\ i' = (i + 1) % CounterSize
    /\ pc' = IF i % trigger.spec.update_rounds = 0 THEN "update" ELSE "wait"

\* Ok and CanRetry continue the round; NormalStop leaves the loop; Fatal ends
\* the task at once, with what the buffer still holds.
Poll ==
    /\ pc = "poll"
    /\ \/ UNCHANGED <<buffer, produced>>
       \/ /\ Len(produced) < MaxMeasurements
          /\ produced' = Append(produced, Len(produced) + 1)
          /\ buffer' = Append(buffer, Len(produced) + 1)
    /\ \/ /\ i % trigger.spec.flush_rounds = 0
          /\ pc' = "flush"
          /\ UNCHANGED i
       \/ /\ i % trigger.spec.flush_rounds # 0
          /\ EndRound
       \/ pc' \in {"stopping", "failed"} /\ UNCHANGED i
    /\ late' = IF unseen THEN late + 1 ELSE late
    /\ UNCHANGED <<shared, control, trigger, tick, loaded, channel, accepted, unseen>>

\* Mutant of Send: a copy of the buffer is sent, and the buffer is not replaced.
SendCopy ==
    /\ rxOpen
    /\ queued < ChannelSize
    /\ queued' = queued + 1
    /\ accepted' = accepted \o buffer
    /\ UNCHANGED <<rxOpen, produced, buffer>>

\* try_send, or send().await while the channel is full: the buffer is accepted
\* as a whole, and replaced by an empty one.
Send ==
    /\ rxOpen
    /\ queued < ChannelSize
    /\ queued' = queued + 1
    /\ accepted' = accepted \o buffer
    /\ buffer' = <<>>
    /\ UNCHANGED <<rxOpen, produced>>

FlushRound ==
    /\ pc = "flush"
    /\ Send
    /\ EndRound
    /\ UNCHANGED <<shared, control, trigger, tick, loaded, history>>

\* "source channel should stay open": a flush finds the receiver dropped.
Panic ==
    /\ pc \in {"flush", "flushNow", "stopping"}
    /\ pc = "stopping" => buffer # <<>>
    /\ ~rxOpen
    /\ pc' = "panicked"
    /\ UNCHANGED <<shared, control, trigger, tick, i, buffer, loaded, channel, data, history>>

-------------------------------------------------------------------------------
(* The task: the update loop.                                              *)

LoadState ==
    /\ pc = "update"
    /\ loaded' = state
    /\ unseen' = FALSE
    /\ pc' = "take"
    /\ UNCHANGED <<shared, control, trigger, tick, i, buffer, channel, data, late>>

\* The state loaded before the trigger slot was emptied decides.
NextStep ==
    CASE loaded = "Run" -> "wait"
      [] loaded = "RunFlush" /\ buffer = <<>> -> "cas"
      [] loaded = "RunFlush" /\ buffer # <<>> -> "flushNow"
      [] loaded = "Pause" -> "paused"
      [] loaded = "Stop" -> "stopping"

\* Mutant of TakeTrigger: a new trigger comes with a new, empty buffer.
TakeTriggerNewBuffer ==
    /\ pc = "take"
    /\ trigger' = IF newTrigger = NoTrigger THEN trigger ELSE newTrigger
    /\ buffer' = IF newTrigger = NoTrigger THEN buffer ELSE <<>>
    /\ tick' = (tick /\ newTrigger = NoTrigger)
    /\ newTrigger' = NoTrigger
    /\ pc' = NextStep
    /\ UNCHANGED <<state, permit, manual, control, i, loaded, channel, data, history>>

\* The trigger slot is emptied after the state has been loaded.
TakeTrigger ==
    /\ pc = "take"
    /\ trigger' = IF newTrigger = NoTrigger THEN trigger ELSE newTrigger
    /\ tick' = (tick /\ newTrigger = NoTrigger)
    /\ newTrigger' = NoTrigger
    /\ pc' = NextStep
    /\ UNCHANGED <<state, permit, manual, control, i, buffer, loaded, channel, data, history>>

FlushNow ==
    /\ pc = "flushNow"
    /\ Send
    /\ pc' = "cas"
    /\ UNCHANGED <<shared, control, trigger, tick, i, loaded, history>>

\* Mutant of AckFlush: a plain store instead of compare_exchange.
AckFlushStore ==
    /\ pc = "cas"
    /\ state' = "Run"
    /\ pc' = "wait"
    /\ UNCHANGED <<newTrigger, permit, manual, control, trigger, tick, i, buffer, loaded, channel, data, history>>

\* compare_exchange(RunFlush, Run): a newer command is not overridden.
AckFlush ==
    /\ pc = "cas"
    /\ state' = IF state = loaded THEN "Run" ELSE state
    /\ pc' = "wait"
    /\ UNCHANGED <<newTrigger, permit, manual, control, trigger, tick, i, buffer, loaded, channel, data, history>>

Wakeup ==
    /\ pc = "paused"
    /\ permit
    /\ permit' = FALSE
    /\ pc' = "update"
    /\ UNCHANGED <<state, newTrigger, manual, control, trigger, tick, i, buffer, loaded, channel, data, history>>

\* Mutant of Finish: the last buffer is dropped.
FinishUnflushed ==
    /\ pc = "stopping"
    /\ pc' = "done"
    /\ UNCHANGED <<shared, control, trigger, tick, i, buffer, loaded, channel, data, history>>

Finish ==
    /\ pc = "stopping"
    /\ \/ buffer # <<>> /\ Send
       \/ buffer = <<>> /\ UNCHANGED <<channel, buffer, data>>
    /\ pc' = "done"
    /\ UNCHANGED <<shared, control, trigger, tick, i, loaded, history>>

-------------------------------------------------------------------------------
TaskStep ==
    \/ Start \/ LoadInitialState \/ InitialWakeup \/ InitialTimeout
    \/ Triggered \/ Interrupted \/ TriggerError
    \/ Poll \/ FlushRound \/ Panic
    \/ LoadState \/ TakeTrigger \/ FlushNow \/ AckFlush \/ Wakeup
    \/ Finish

Next ==
    \/ \E s \in States : SetState(s)
    \/ \E s \in TriggerSpecs : SetTrigger(s)
    \/ TriggerNow \/ Shutdown \/ NotifyOne
    \/ Tick \/ Receive \/ DropReceiver
    \/ TaskStep

Spec == Init /\ [][Next]_vars

\* The executors run every task that can make progress, timers fire, and the
\* receiver of the channel keeps receiving while it lives.
Fairness ==
    /\ WF_vars(TaskStep)
    /\ WF_vars(NotifyOne)
    /\ WF_vars(Tick)
    /\ WF_vars(Receive)

FairSpec == Spec /\ Fairness

-------------------------------------------------------------------------------
(* Properties.                                                             *)

\* No measurement is lost, duplicated or reordered by the buffering: what the
\* channel accepted, followed by the buffer, is what the source pushed.
\* run_managed replaces the buffer on each flush; a flush that forgets to do so,
\* or a trigger change that recreates the buffer, breaks this.
NoLoss == accepted \o buffer = produced

\* A source that ends normally (command, NormalStop, timeout) leaves nothing
\* behind, whichever path led there.
EndsFlushed == pc = "done" => accepted = produced

\* A notification is never lost: once the controller has finished sending a
\* state change that the task has not loaded, either the Notify still holds its
\* permit or the task is about to load the state.
NoLostWakeup ==
    (unseen /\ ctl \in {"idle", "closed"}) =>
        permit \/ pc \in {"start", "init", "update"} \union Ended

\* "maximum amount of time allowed between two command updates": the task polls
\* at most update_rounds times between a state change and the load that sees it,
\* for any trigger, also when the trigger is changed or the counter wraps.
UpdateBound == unseen /\ pc \notin Ended /\ trigger # NoTrigger => late <= trigger.spec.update_rounds

\* The task itself changes the state only to acknowledge a flush, and then
\* everything that the source produced has been accepted.  It never overrides a
\* newer command, and never acknowledges a flush that it has not done.
OnlyAcksCompleteFlush ==
    [][state' # state /\ ctl' = ctl =>
          state = "RunFlush" /\ state' = "Run" /\ accepted = produced]_vars

\* The buffering implements the abstract producer.
phase == CASE pc = "done" -> "done"
           [] pc \in {"failed", "panicked"} -> "failed"
           [] OTHER -> "running"

Producer == INSTANCE BufferedProducer
    WITH produced <- produced, accepted <- accepted, phase <- phase

ImplementsProducer == Producer!Spec

\* After the shutdown command every source ends: no interleaving of the store,
\* the notification, a flush blocked on a full channel and a pause makes it miss
\* the Stop, provided that its trigger is periodic or interruptible.
StopObeyed == ctl \in {"lastNotify", "closed"} ~> pc \in Ended

\* A flush command ends in one of four ways: its measurements are accepted, a
\* newer command replaces it, or the source ends.
FlushObeyed ==
    \A n \in 1..MaxMeasurements :
        (state = "RunFlush" /\ Len(produced) = n) ~>
            (Len(accepted) >= n \/ state # "RunFlush" \/ pc \in Ended)
===============================================================================
