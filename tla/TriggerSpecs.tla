------------------------------ MODULE TriggerSpecs ------------------------------
(***************************************************************************)
(* The specification of a source's trigger, from the calls of its builder  *)
(* (src/core/alumet/src/pipeline/elements/source/trigger/builder.rs) to    *)
(* the constraints of the pipeline (TriggerSpec::constrain), the trigger   *)
(* built from it and the rounds of the task that follows it, in time.      *)
(* Polls take no time here; SourceTask has their interleavings.            *)
(***************************************************************************)
EXTENDS Integers

CONSTANTS
    Intervals,        \* durations given to the builders, 0 included
    Rounds,           \* numbers of rounds given to the builders, 0 included
    Constraints,      \* [max, manual]: max_update_interval, allow_manual_trigger
    RealtimeLimit,    \* poll interval under which the priority is raised (3 ms)
    MaxCalls,         \* bound: calls of one builder
    MaxManual,        \* bound: manual triggers
    MaxCommands,      \* bound: commands for the source
    EndOfTime         \* bound: time of the last step

ASSUME TriggerAssumption ==
    /\ Intervals \union Rounds \union {RealtimeLimit} \subseteq Nat
    /\ \A c \in Constraints : c.max \in Nat /\ c.manual \in BOOLEAN

NoTime == -1

VARIABLES
    spec,          \* the specification that the builder, then the trigger, holds
    lifecycle,     \* "new", "building", "failed", "panicked", "built", "running"
    builderCalls,  \* calls of the builder
    flushAsked,    \* flush interval asked to the builder, NoTime if none
    constraints,   \* constraints of the pipeline
    now,           \* time
    nextTick,      \* next expiration of the timer
    round,         \* i of the polling loop
    oldest,        \* time since when the oldest measurement waits in the buffer
    askedAt,       \* time of the oldest command that the task has not looked at
    newSpec,       \* trigger left by SetTrigger, spec of the next look
    interrupt,     \* permit of config_change
    manualPermit,  \* permit of the manual trigger
    manuals,       \* number of manual triggers
    commands       \* number of commands

triggerSpecVars == <<spec, lifecycle, builderCalls, flushAsked, constraints, now, nextTick,
                     round, oldest,
                     askedAt, newSpec, interrupt, manualPermit, manuals, commands>>

running == <<now, nextTick, round, oldest, askedAt, newSpec, interrupt, manualPermit, manuals,
             commands>>

NoSpec == [mechanism |-> "none"]

\* TriggerSpecBuilder::new
DefaultSpec(mechanism, poll) ==
    [mechanism |-> mechanism, start |-> 0, poll |-> poll, flushRounds |-> 1, updateRounds |-> 1,
     interruptible |-> mechanism = "manual", manual |-> FALSE, realtime |-> FALSE,
     initial |-> TRUE]

TriggerSpecsInit ==
    /\ spec = NoSpec /\ lifecycle = "new" /\ builderCalls = 0 /\ flushAsked = NoTime
    /\ constraints \in Constraints
    /\ now = 0 /\ nextTick = NoTime /\ round = 1 /\ oldest = NoTime /\ askedAt = NoTime
    /\ newSpec = NoSpec /\ interrupt = FALSE /\ manualPermit = FALSE /\ manuals = 0 /\ commands = 0

-------------------------------------------------------------------------------
(* Builders.                                                                   *)

\* time_interval(poll), manual()
NewBuilder(mechanism, poll) ==
    /\ lifecycle = "new" /\ lifecycle' = "building"
    /\ spec' = DefaultSpec(mechanism, poll)
    /\ UNCHANGED <<builderCalls, flushAsked, constraints, running>>

Call ==
    /\ lifecycle = "building" /\ builderCalls < MaxCalls /\ builderCalls' = builderCalls + 1
    /\ UNCHANGED <<constraints, running>>

\* Mutant of RoundsFor: the division is rounded up.
RoundsForRoundedUp(interval, poll) ==
    IF interval < poll THEN 1 ELSE (interval + poll - 1) \div poll

\* (interval / poll_interval).max(1)
RoundsFor(interval, poll) == IF interval < poll THEN 1 ELSE interval \div poll

StartingAt(time) ==
    /\ Call /\ spec.mechanism = "time"
    /\ spec' = [spec EXCEPT !.start = time]
    /\ UNCHANGED <<lifecycle, flushAsked>>

\* 0 rounds panic.
FlushRounds(rounds) ==
    /\ Call
    /\ IF rounds = 0 THEN lifecycle' = "panicked" /\ UNCHANGED <<spec, flushAsked>>
       ELSE /\ spec' = [spec EXCEPT !.flushRounds = rounds]
            /\ flushAsked' = NoTime /\ lifecycle' = lifecycle

UpdateRounds(rounds) ==
    /\ Call
    /\ IF rounds = 0 THEN lifecycle' = "panicked" /\ spec' = spec
       ELSE spec' = [spec EXCEPT !.updateRounds = rounds] /\ lifecycle' = lifecycle
    /\ UNCHANGED flushAsked

\* Nothing is changed for an interval of 0 between polls: build will fail.
FlushInterval(interval) ==
    /\ Call /\ spec.mechanism = "time"
    /\ IF spec.poll = 0 THEN UNCHANGED <<spec, flushAsked>>
       ELSE /\ spec' = [spec EXCEPT !.flushRounds = RoundsFor(interval, spec.poll)]
            /\ flushAsked' = interval
    /\ UNCHANGED lifecycle

UpdateInterval(interval) ==
    /\ Call /\ spec.mechanism = "time"
    /\ spec' = IF spec.poll = 0 THEN spec
               ELSE [spec EXCEPT !.updateRounds = RoundsFor(interval, spec.poll),
                                 !.interruptible = spec.poll > interval]
    /\ UNCHANGED <<lifecycle, flushAsked>>

RealtimePriority ==
    /\ Call /\ spec.mechanism = "time"
    /\ spec' = [spec EXCEPT !.realtime = TRUE]
    /\ UNCHANGED <<lifecycle, flushAsked>>

AllowManualTrigger ==
    /\ Call /\ spec.mechanism = "time"
    /\ spec' = [spec EXCEPT !.manual = TRUE]
    /\ UNCHANGED <<lifecycle, flushAsked>>

SetInterruptible(interruptible) ==
    /\ Call /\ spec.mechanism = "manual"
    /\ spec' = [spec EXCEPT !.interruptible = interruptible]
    /\ UNCHANGED <<lifecycle, flushAsked>>

\* TimeTriggerBuilder::build
BuiltSpec(given) ==
    [given EXCEPT !.realtime = @ \/ (given.mechanism = "time" /\ given.poll =< RealtimeLimit)]

BuildSpec ==
    /\ lifecycle = "building"
    /\ IF spec.mechanism = "time" /\ spec.poll = 0 THEN lifecycle' = "failed" /\ spec' = spec
       ELSE lifecycle' = "built" /\ spec' = BuiltSpec(spec)
    /\ UNCHANGED <<builderCalls, flushAsked, constraints, running>>

-------------------------------------------------------------------------------
(* Constraints.                                                                *)

\* Mutant of Constrain: the rounds are lowered only when the trigger becomes
\* interruptible.
ConstrainPollOnly(given) ==
    [given EXCEPT
        !.manual = @ \/ constraints.manual,
        !.updateRounds = IF given.poll > constraints.max THEN 1 ELSE @,
        !.interruptible = @ \/ (given.mechanism = "time" /\ given.poll > constraints.max)]

\* TriggerSpec::constrain
Constrain(given) ==
    LET free == given.mechanism = "time" /\ ~given.interruptible
    IN [given EXCEPT
           !.manual = @ \/ constraints.manual,
           !.interruptible = @ \/ (free /\ given.poll > constraints.max),
           !.updateRounds = IF free /\ given.poll * @ > constraints.max
                            THEN RoundsFor(constraints.max, given.poll) ELSE @]

\* First expiration of the timer of a trigger built now.
FirstTick(given) ==
    IF given.mechanism = "manual" THEN NoTime
    ELSE IF given.start > now THEN given.start ELSE now

\* TaskManager::create_source
CreateManaged ==
    /\ lifecycle = "built" /\ lifecycle' = "running"
    /\ spec' = Constrain(spec) /\ nextTick' = FirstTick(spec)
    /\ UNCHANGED <<builderCalls, flushAsked, constraints, now, round, oldest, askedAt, newSpec,
                   interrupt,
                   manualPermit, manuals, commands>>

-------------------------------------------------------------------------------
(* The task.                                                                   *)

Ticks == lifecycle = "running" /\ spec.mechanism = "time" /\ now >= nextTick

\* Trigger::new: the mechanism of a "manual" specification, or the second one.  The
\* controller notifies that of the initial trigger only (manual_trigger).
TakesManual ==
    /\ lifecycle = "running" /\ manualPermit /\ spec.initial
    /\ spec.manual \/ spec.mechanism = "manual"

\* Mutant of Interrupts: a trigger with two mechanisms is not interrupted.
InterruptsSingle == lifecycle = "running" /\ interrupt /\ spec.interruptible /\ ~spec.manual

Interrupts == lifecycle = "running" /\ interrupt /\ spec.interruptible

\* What the task does when it looks at its configuration; its timer is due at next.
Look(next) ==
    /\ askedAt' = NoTime /\ newSpec' = NoSpec
    /\ IF newSpec = NoSpec THEN spec' = spec /\ nextTick' = next
       ELSE spec' = newSpec /\ nextTick' = FirstTick(newSpec)

Later(t, u) == IF t > u THEN t ELSE u

\* The measurements polled in this round stay in the buffer.
Keeps == round % spec.flushRounds # 0

\* A poll, the flush, and the look if it is the round for it.  What is polled before the timer
\* has started waits from its start.
PollRound(next) ==
    /\ oldest' = IF ~Keeps THEN NoTime
                 ELSE IF oldest = NoTime THEN Later(now, spec.start) ELSE oldest
    /\ round' = round + 1
    /\ IF round % spec.updateRounds = 0 THEN Look(next)
       ELSE nextTick' = next /\ UNCHANGED <<spec, newSpec, askedAt>>
    /\ UNCHANGED <<lifecycle, builderCalls, flushAsked, constraints, now, interrupt, manuals,
                   commands>>

TimerTick ==
    /\ Ticks /\ PollRound(nextTick + spec.poll)
    /\ UNCHANGED manualPermit

\* The timer is polled first, then the manual trigger, then the interruption.
ManualTick ==
    /\ TakesManual /\ ~Ticks /\ PollRound(nextTick)
    /\ manualPermit' = FALSE

Interruption ==
    /\ Interrupts /\ ~Ticks /\ ~TakesManual
    /\ interrupt' = FALSE /\ Look(nextTick)
    /\ UNCHANGED <<lifecycle, builderCalls, flushAsked, constraints, now, round, oldest,
                   manualPermit, manuals, commands>>

\* Time passes when the task has nothing to do.
Elapse ==
    /\ lifecycle = "running" /\ now < EndOfTime /\ ~Ticks /\ ~TakesManual /\ ~Interrupts
    /\ now' = now + 1
    /\ UNCHANGED <<spec, lifecycle, builderCalls, flushAsked, constraints, nextTick, round,
                   oldest, askedAt,
                   newSpec, interrupt, manualPermit, manuals, commands>>

\* A command that changes the state of the source.
Command ==
    /\ lifecycle = "running" /\ askedAt = NoTime /\ commands < MaxCommands
    /\ askedAt' = now /\ interrupt' = TRUE /\ commands' = commands + 1
    /\ UNCHANGED <<spec, lifecycle, builderCalls, flushAsked, constraints, now, nextTick, round,
                   oldest,
                   newSpec, manualPermit, manuals>>

\* SetTrigger(at_interval(poll)): constrained, then left for the next look.
SetTriggerAt(poll) ==
    /\ lifecycle = "running" /\ askedAt = NoTime /\ poll > 0 /\ commands < MaxCommands
    /\ askedAt' = now /\ interrupt' = TRUE /\ commands' = commands + 1
    /\ newSpec' = Constrain(BuiltSpec([DefaultSpec("time", poll) EXCEPT !.start = now,
                                                                  !.initial = FALSE]))
    /\ UNCHANGED <<spec, lifecycle, builderCalls, flushAsked, constraints, now, nextTick, round,
                   oldest,
                   manualPermit, manuals>>

TriggerManually ==
    /\ lifecycle = "running" /\ manuals < MaxManual
    /\ manuals' = manuals + 1
    /\ manualPermit' = TRUE
    /\ UNCHANGED <<spec, lifecycle, builderCalls, flushAsked, constraints, now, nextTick, round,
                   oldest,
                   askedAt, newSpec, interrupt, commands>>

TriggerSpecsNext ==
    \/ \E poll \in Intervals : NewBuilder("time", poll)
    \/ NewBuilder("manual", 0)
    \/ \E time \in Intervals : StartingAt(time)
    \/ \E rounds \in Rounds : FlushRounds(rounds)
    \/ \E rounds \in Rounds : UpdateRounds(rounds)
    \/ \E interval \in Intervals : FlushInterval(interval)
    \/ \E interval \in Intervals : UpdateInterval(interval)
    \/ RealtimePriority \/ AllowManualTrigger
    \/ \E interruptible \in BOOLEAN : SetInterruptible(interruptible)
    \/ BuildSpec \/ CreateManaged
    \/ TimerTick \/ ManualTick \/ Interruption \/ Elapse
    \/ Command \/ \E poll \in Intervals : SetTriggerAt(poll)
    \/ TriggerManually

TriggerSpecsSpec == TriggerSpecsInit /\ [][TriggerSpecsNext]_triggerSpecVars

-------------------------------------------------------------------------------
(* Properties.                                                                 *)

\* Whatever the calls of the builder, the constraints, the manual triggers and the new
\* triggers, a source with a timer that has started looks at a command within
\* max_update_interval, and its measurements wait in the buffer no longer than the
\* flush interval asked to the builder.
TriggersInTime ==
    lifecycle = "running" /\ spec.mechanism = "time" =>
        /\ askedAt # NoTime => now - Later(askedAt, spec.start) =< constraints.max
        /\ oldest # NoTime /\ flushAsked # NoTime => now - oldest =< flushAsked
================================================================================
