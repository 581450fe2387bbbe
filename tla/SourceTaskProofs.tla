--------------------------- MODULE SourceTaskProofs ---------------------------
(***************************************************************************)
(* Proofs about SourceTask, for every set of triggers, every capacity of   *)
(* the channel and every width of the round counter.                       *)
(***************************************************************************)
EXTENDS SourceTask, SequenceTheorems, TLAPS

-------------------------------------------------------------------------------
(* Sequences: what a push into the buffer and a flush do to the whole.     *)

\* Pushing a measurement into the buffer pushes it at the end of the whole.
LEMMA PushIntoBuffer ==
    ASSUME NEW s \in Seq(Nat), NEW b \in Seq(Nat), NEW m \in Nat
    PROVE  s \o Append(b, m) = Append(s \o b, m)
<1>1. Append(b, m) = b \o <<m>>
  BY AppendIsConcat
<1>2. Append(s \o b, m) = (s \o b) \o <<m>>
  BY AppendIsConcat, ConcatProperties
<1>3. (s \o b) \o <<m>> = s \o (b \o <<m>>)
  BY ConcatAssociative
<1>4. QED
  BY <1>1, <1>2, <1>3

\* Nothing is left in front of, or behind, an empty buffer.
LEMMA EmptyBuffer ==
    ASSUME NEW s \in Seq(Nat)
    PROVE  s \o <<>> = s
BY ConcatEmptySeq

-------------------------------------------------------------------------------
(* Type correctness.                                                       *)

\* What Send does to the variables it touches.
LEMMA SendTypes ==
    ASSUME TypeOK, Send
    PROVE  /\ queued' \in 0..ChannelSize /\ rxOpen' \in BOOLEAN
           /\ buffer' \in Seq(Nat) /\ accepted' \in Seq(Nat) /\ produced' \in Seq(Nat)
<1>1. accepted \o buffer \in Seq(Nat)
  BY ConcatProperties DEF TypeOK
<1>2. QED
  BY <1>1, SourceAssumption DEF TypeOK, Send

\* The round counter wraps: it never leaves its range.
LEMMA CounterTypes ==
    ASSUME TypeOK, EndRound
    PROVE  i' \in 0..(CounterSize - 1) /\ pc' \in {"update", "wait"}
<1>1. CounterSize \in Nat /\ CounterSize > 0 /\ i + 1 \in Nat
  BY SourceAssumption DEF TypeOK
<1>2. (i + 1) % CounterSize \in 0..(CounterSize - 1)
  BY <1>1
<1>3. QED
  BY <1>2 DEF EndRound

\* Every variable keeps its type, whatever the interleaving of the controller
\* and of the task.
THEOREM TypeCorrect == Spec => []TypeOK
<1>1. Init => TypeOK
  <2> SUFFICES ASSUME Init PROVE TypeOK
    OBVIOUS
  <2>1. /\ i \in 0..(CounterSize - 1) /\ queued \in 0..ChannelSize
        /\ cmds \in 0..MaxCommands /\ late \in Nat
    BY SourceAssumption DEF Init
  <2>2. buffer \in Seq(Nat) /\ produced \in Seq(Nat) /\ accepted \in Seq(Nat)
    BY DEF Init
  <2>3. /\ newTrigger \in Trigger \union {NoTrigger} /\ trigger \in Trigger \union {NoTrigger}
        /\ manual \in {"none", "clear", "set"}
    BY DEF Init, Trigger
  <2>4. /\ state \in States /\ loaded \in States /\ pc \in Steps
        /\ permit \in BOOLEAN /\ tick \in BOOLEAN /\ rxOpen \in BOOLEAN /\ unseen \in BOOLEAN
        /\ ctl \in {"idle", "notify", "lastNotify", "closed"}
    BY DEF Init, Steps
  <2>5. QED
    BY <2>1, <2>2, <2>3, <2>4 DEF TypeOK
<1>2. TypeOK /\ [Next]_vars => TypeOK'
  <2> SUFFICES ASSUME TypeOK, [Next]_vars PROVE TypeOK'
    OBVIOUS
  <2> USE DEF shared, control, channel, data, history
  <2>1. ASSUME NEW s \in States, SetState(s) PROVE TypeOK'
    BY <2>1, SourceAssumption DEF TypeOK, SetState, Store, Announce
  <2>2. ASSUME NEW s \in TriggerSpecs, SetTrigger(s) PROVE TypeOK'
    BY <2>2, SourceAssumption DEF TypeOK, SetTrigger, Trigger
  <2>3. CASE TriggerNow
    BY <2>3, SourceAssumption DEF TypeOK, TriggerNow
  <2>4. CASE Shutdown
    BY <2>4 DEF TypeOK, Shutdown, Store, Announce, States
  <2>5. CASE NotifyOne
    BY <2>5 DEF TypeOK, NotifyOne
  <2>6. CASE Tick
    BY <2>6 DEF TypeOK, Tick
  <2>7. CASE Receive
    BY <2>7, SourceAssumption DEF TypeOK, Receive
  <2>8. CASE DropReceiver
    BY <2>8 DEF TypeOK, DropReceiver
  <2>9. CASE Start
    BY <2>9 DEF TypeOK, Start, Steps
  <2>10. CASE LoadInitialState
    <3>1. pc' \in {"wait", "initPaused", "done"}
      BY <2>10 DEF TypeOK, LoadInitialState, States
    <3>2. pc' \in Steps
      BY <3>1 DEF Steps, Running, Ended
    <3> QED
      BY <2>10, <3>2 DEF TypeOK, LoadInitialState
  <2>11. CASE InitialWakeup
    BY <2>11 DEF TypeOK, InitialWakeup, Steps
  <2>12. CASE InitialTimeout
    BY <2>12 DEF TypeOK, InitialTimeout, Steps, Ended
  <2>13. CASE Triggered
    BY <2>13 DEF TypeOK, Triggered, Steps, Running
  <2>14. CASE Interrupted
    BY <2>14 DEF TypeOK, Interrupted, Steps, Running
  <2>15. CASE TriggerError
    BY <2>15 DEF TypeOK, TriggerError, Steps, Ended
  <2>16. CASE Poll
    <3>1. buffer' \in Seq(Nat) /\ produced' \in Seq(Nat)
      <4>1. Len(produced) + 1 \in Nat
        BY LenProperties DEF TypeOK
      <4>2. /\ Append(produced, Len(produced) + 1) \in Seq(Nat)
            /\ Append(buffer, Len(produced) + 1) \in Seq(Nat)
        BY <4>1, AppendProperties DEF TypeOK
      <4>3. QED
        BY <2>16, <4>2 DEF TypeOK, Poll
    <3>2. i' \in 0..(CounterSize - 1) /\ pc' \in Steps
      BY <2>16, CounterTypes DEF TypeOK, Poll, Steps, Running, Ended
    <3>3. late' \in Nat
      BY <2>16 DEF TypeOK, Poll
    <3>4. QED
      BY <2>16, <3>1, <3>2, <3>3 DEF TypeOK, Poll
  <2>17. CASE FlushRound
    BY <2>17, SendTypes, CounterTypes DEF TypeOK, FlushRound, Steps, Running, Ended
  <2>18. CASE FlushNow
    BY <2>18, SendTypes DEF TypeOK, FlushNow, Steps, Running, Ended
  <2>19. CASE Finish
    BY <2>19, SendTypes DEF TypeOK, Finish, Steps, Running, Ended
  <2>20. CASE Panic
    BY <2>20 DEF TypeOK, Panic, Steps, Ended
  <2>21. CASE LoadState
    BY <2>21 DEF TypeOK, LoadState, Steps, Running
  <2>22. CASE TakeTrigger
    BY <2>22 DEF TypeOK, TakeTrigger, NextStep, Steps, Running, States
  <2>23. CASE AckFlush
    BY <2>23 DEF TypeOK, AckFlush, Steps, Running, States
  <2>24. CASE Wakeup
    BY <2>24 DEF TypeOK, Wakeup, Steps, Running
  <2>25. CASE UNCHANGED vars
    BY <2>25 DEF TypeOK, vars
  <2>26. QED
    BY <2>1, <2>2, <2>3, <2>4, <2>5, <2>6, <2>7, <2>8, <2>9, <2>10, <2>11, <2>12,
       <2>13, <2>14, <2>15, <2>16, <2>17, <2>18, <2>19, <2>20, <2>21, <2>22, <2>23, <2>24, <2>25
    DEF Next, TaskStep
<1>3. QED
  BY <1>1, <1>2, PTL DEF Spec
-------------------------------------------------------------------------------
(* Conservation: the buffering loses, duplicates and reorders nothing.     *)

\* Where the task cannot hold anything: before its first poll, after a flush
\* command, and once it has ended normally.
Emptied == {"start", "init", "initPaused", "cas", "done"}

\* The inductive invariant: NoLoss alone says nothing of EndsFlushed, which
\* needs to know where the buffer is empty.
DataInv ==
    /\ NoLoss
    /\ pc \in Emptied => buffer = <<>>
    /\ pc \in {"flushNow", "cas"} => loaded = "RunFlush"

\* A flush moves the whole buffer to the accepted side.
LEMMA SendConserves ==
    ASSUME TypeOK, NoLoss, Send
    PROVE  NoLoss' /\ buffer' = <<>> /\ accepted' = produced
<1>1. accepted' = produced /\ produced' = produced /\ buffer' = <<>>
  BY DEF NoLoss, Send
<1>2. accepted' \o <<>> = accepted'
  BY <1>1, EmptyBuffer DEF TypeOK
<1>3. QED
  BY <1>1, <1>2 DEF NoLoss

\* An empty buffer means that everything produced has been accepted.
LEMMA EmptyMeansAccepted ==
    ASSUME TypeOK, NoLoss, buffer = <<>>
    PROVE  accepted = produced
BY EmptyBuffer DEF TypeOK, NoLoss

\* A step that touches neither the data nor the control of the task.
LEMMA DataFrame ==
    ASSUME DataInv, UNCHANGED <<pc, buffer, loaded, data>>
    PROVE  DataInv'
BY DEF DataInv, NoLoss, Emptied, data

\* The invariant of the measured data holds in every run.
LEMMA DataInvInvariant == Spec => []DataInv
<1>1. Init => DataInv
  BY ConcatEmptySeq, EmptySeq DEF Init, DataInv, NoLoss, Emptied
<1>2. TypeOK /\ DataInv /\ [Next]_vars => DataInv'
  <2> SUFFICES ASSUME TypeOK, DataInv, [Next]_vars PROVE DataInv'
    OBVIOUS
  <2> USE DEF shared, control, channel, data, history
  <2>1. ASSUME NEW s \in States, SetState(s) PROVE DataInv'
    BY <2>1, DataFrame DEF SetState
  <2>2. ASSUME NEW s \in TriggerSpecs, SetTrigger(s) PROVE DataInv'
    BY <2>2, DataFrame DEF SetTrigger
  <2>3. CASE TriggerNow
    BY <2>3, DataFrame DEF TriggerNow
  <2>4. CASE Shutdown
    BY <2>4, DataFrame DEF Shutdown
  <2>5. CASE NotifyOne
    BY <2>5, DataFrame DEF NotifyOne
  <2>6. CASE Tick
    BY <2>6, DataFrame DEF Tick
  <2>7. CASE Receive
    BY <2>7, DataFrame DEF Receive
  <2>8. CASE DropReceiver
    BY <2>8, DataFrame DEF DropReceiver
  <2>9. CASE Start
    BY <2>9 DEF DataInv, NoLoss, Emptied, Start
  <2>10. CASE LoadInitialState
    BY <2>10 DEF DataInv, NoLoss, Emptied, LoadInitialState, States, TypeOK
  <2>11. CASE InitialWakeup
    BY <2>11 DEF DataInv, NoLoss, Emptied, InitialWakeup
  <2>12. CASE InitialTimeout
    BY <2>12 DEF DataInv, NoLoss, Emptied, InitialTimeout
  <2>13. CASE Triggered
    BY <2>13 DEF DataInv, NoLoss, Emptied, Triggered
  <2>14. CASE Interrupted
    BY <2>14 DEF DataInv, NoLoss, Emptied, Interrupted
  <2>15. CASE TriggerError
    BY <2>15 DEF DataInv, NoLoss, Emptied, TriggerError
  <2>16. CASE Panic
    BY <2>16 DEF DataInv, NoLoss, Emptied, Panic
  <2>17. CASE LoadState
    BY <2>17 DEF DataInv, NoLoss, Emptied, LoadState
  <2>18. CASE TakeTrigger
    BY <2>18 DEF DataInv, NoLoss, Emptied, TakeTrigger, NextStep, States, TypeOK
  <2>19. CASE AckFlush
    BY <2>19 DEF DataInv, NoLoss, Emptied, AckFlush
  <2>20. CASE Wakeup
    BY <2>20 DEF DataInv, NoLoss, Emptied, Wakeup
  <2>21. CASE Poll
    <3>1. pc' \notin Emptied \union {"flushNow"}
      BY <2>21 DEF Poll, EndRound, Emptied
    <3>2. CASE UNCHANGED <<buffer, produced>>
      BY <2>21, <3>1, <3>2 DEF DataInv, NoLoss, Emptied, Poll
    <3>3. CASE /\ produced' = Append(produced, Len(produced) + 1)
               /\ buffer' = Append(buffer, Len(produced) + 1)
      <4>1. Len(produced) + 1 \in Nat
        BY LenProperties DEF TypeOK
      <4>2. accepted \o Append(buffer, Len(produced) + 1) = Append(accepted \o buffer, Len(produced) + 1)
        BY <4>1, PushIntoBuffer DEF TypeOK
      <4>3. accepted' = accepted
        BY <2>21 DEF Poll
      <4>4. QED
        BY <3>1, <3>3, <4>2, <4>3 DEF DataInv, NoLoss, Emptied
    <3>4. QED
      BY <2>21, <3>2, <3>3 DEF Poll
  <2>22. CASE FlushRound
    BY <2>22, SendConserves DEF DataInv, Emptied, FlushRound, EndRound
  <2>23. CASE FlushNow
    <3>1. loaded = "RunFlush"
      BY <2>23 DEF DataInv, FlushNow
    <3>2. QED
      BY <2>23, <3>1, SendConserves DEF DataInv, FlushNow
  <2>24. CASE Finish
    <3>1. CASE buffer # <<>> /\ Send
      BY <2>24, <3>1, SendConserves DEF DataInv, Finish
    <3>2. CASE buffer = <<>> /\ UNCHANGED <<channel, buffer, data>>
      BY <2>24, <3>2 DEF DataInv, NoLoss, Finish
    <3>3. QED
      BY <2>24, <3>1, <3>2 DEF Finish
  <2>25. CASE UNCHANGED vars
    BY <2>25, DataFrame DEF vars
  <2>26. QED
    BY <2>1, <2>2, <2>3, <2>4, <2>5, <2>6, <2>7, <2>8, <2>9, <2>10, <2>11, <2>12, <2>13,
       <2>14, <2>15, <2>16, <2>17, <2>18, <2>19, <2>20, <2>21, <2>22, <2>23, <2>24, <2>25
    DEF Next, TaskStep
<1>3. QED
  BY <1>1, <1>2, TypeCorrect, PTL DEF Spec

\* For every trigger, capacity and command sequence, what the channel accepted
\* followed by the buffer is exactly what the source pushed, in order.
THEOREM NothingLost == Spec => []NoLoss
<1>1. DataInv => NoLoss
  BY DEF DataInv
<1>2. QED
  BY <1>1, DataInvInvariant, PTL

\* A source that ends normally has delivered everything it produced.
THEOREM EndsWithEverythingSent == Spec => []EndsFlushed
<1>1. TypeOK /\ DataInv => EndsFlushed
  BY EmptyMeansAccepted DEF DataInv, Emptied, EndsFlushed
<1>2. QED
  BY <1>1, DataInvInvariant, TypeCorrect, PTL
-------------------------------------------------------------------------------
(* Commands: no lost wake-up, no overridden command.                       *)

\* A state change that was fully sent and not loaded yet always finds the
\* notification stored, or the task on its way to the load.
THEOREM WakeupNeverLost == Spec => []NoLostWakeup
<1>1. Init => NoLostWakeup
  BY DEF Init, NoLostWakeup
<1>2. TypeOK /\ NoLostWakeup /\ [Next]_vars => NoLostWakeup'
  <2> SUFFICES ASSUME TypeOK, NoLostWakeup, [Next]_vars PROVE NoLostWakeup'
    OBVIOUS
  <2> USE DEF NoLostWakeup, Ended, shared, control, channel, data, history
  <2>1. ASSUME NEW s \in States, SetState(s) PROVE NoLostWakeup'
    BY <2>1 DEF SetState
  <2>2. ASSUME NEW s \in TriggerSpecs, SetTrigger(s) PROVE NoLostWakeup'
    BY <2>2 DEF SetTrigger
  <2>3. CASE TriggerNow
    BY <2>3 DEF TriggerNow
  <2>4. CASE Shutdown
    BY <2>4 DEF Shutdown
  <2>5. CASE NotifyOne
    BY <2>5 DEF NotifyOne
  <2>6. CASE Tick
    BY <2>6 DEF Tick
  <2>7. CASE Receive
    BY <2>7 DEF Receive
  <2>8. CASE DropReceiver
    BY <2>8 DEF DropReceiver
  <2>9. CASE Start
    BY <2>9 DEF Start
  <2>10. CASE LoadInitialState
    BY <2>10 DEF LoadInitialState
  <2>11. CASE InitialWakeup
    BY <2>11 DEF InitialWakeup
  <2>12. CASE InitialTimeout
    BY <2>12 DEF InitialTimeout
  <2>13. CASE Triggered
    BY <2>13 DEF Triggered
  <2>14. CASE Interrupted
    BY <2>14 DEF Interrupted
  <2>15. CASE TriggerError
    BY <2>15 DEF TriggerError
  <2>16. CASE Poll
    BY <2>16 DEF Poll, EndRound
  <2>17. CASE FlushRound
    BY <2>17 DEF FlushRound, EndRound
  <2>18. CASE Panic
    BY <2>18 DEF Panic
  <2>19. CASE LoadState
    BY <2>19 DEF LoadState
  <2>20. CASE TakeTrigger
    BY <2>20 DEF TakeTrigger
  <2>21. CASE FlushNow
    BY <2>21 DEF FlushNow
  <2>22. CASE AckFlush
    BY <2>22 DEF AckFlush
  <2>23. CASE Wakeup
    BY <2>23 DEF Wakeup
  <2>24. CASE Finish
    BY <2>24 DEF Finish
  <2>25. CASE UNCHANGED vars
    BY <2>25 DEF vars
  <2>26. QED
    BY <2>1, <2>2, <2>3, <2>4, <2>5, <2>6, <2>7, <2>8, <2>9, <2>10, <2>11, <2>12, <2>13,
       <2>14, <2>15, <2>16, <2>17, <2>18, <2>19, <2>20, <2>21, <2>22, <2>23, <2>24, <2>25
    DEF Next, TaskStep
<1>3. QED
  BY <1>1, <1>2, TypeCorrect, PTL DEF Spec

\* The only write of the task to the shared state.
LEMMA TaskStateWrite ==
    ASSUME [Next]_vars, state' # state, ctl' = ctl
    PROVE  AckFlush
BY DEF Next, TaskStep, vars, shared, control, channel, data, history,
       SetState, SetTrigger, TriggerNow, Shutdown, NotifyOne, Tick, Receive, DropReceiver,
       Start, LoadInitialState, InitialWakeup, InitialTimeout, Triggered, Interrupted,
       TriggerError, Poll, FlushRound, Panic, LoadState, TakeTrigger, FlushNow, Wakeup, Finish

\* The task never overrides a command: its only write acknowledges a flush that
\* has delivered everything.
THEOREM FlushAcknowledgedWhenDone == Spec => OnlyAcksCompleteFlush
<1>1. ASSUME TypeOK, DataInv, [Next]_vars
      PROVE  [state' # state /\ ctl' = ctl =>
                  state = "RunFlush" /\ state' = "Run" /\ accepted = produced]_vars
  <2>1. SUFFICES ASSUME state' # state, ctl' = ctl
                 PROVE  state = "RunFlush" /\ state' = "Run" /\ accepted = produced
    OBVIOUS
  <2>2. AckFlush
    BY <1>1, <2>1, TaskStateWrite
  <2>3. state = "RunFlush" /\ state' = "Run"
    BY <1>1, <2>1, <2>2 DEF AckFlush, DataInv
  <2>4. accepted = produced
    BY <1>1, <2>2, EmptyMeansAccepted DEF AckFlush, DataInv, Emptied
  <2>5. QED
    BY <2>3, <2>4
<1>2. QED
  BY <1>1, TypeCorrect, DataInvInvariant, PTL DEF Spec, OnlyAcksCompleteFlush

-------------------------------------------------------------------------------
(* Refinement of the abstract producer.                                    *)

\* A step that keeps the data and does not end the task is a stutter.
LEMMA Stutter ==
    ASSUME UNCHANGED data, pc \notin Ended, pc' \notin Ended
    PROVE  UNCHANGED Producer!vars
BY DEF data, Ended, Producer!vars, phase

\* Every behaviour of the task is one of the abstract producer: a poll, a
\* flush, a normal end and a failure are its actions, all the rest is invisible.
THEOREM SourceImplementsProducer == Spec => ImplementsProducer
<1>1. Init => Producer!Init
  BY DEF Init, Producer!Init, phase
<1>2. TypeOK /\ DataInv /\ [Next]_vars => [Producer!Next]_(Producer!vars)
  <2> SUFFICES ASSUME TypeOK, DataInv, [Next]_vars
               PROVE  Producer!Next \/ UNCHANGED Producer!vars
    OBVIOUS
  <2> USE DEF shared, control, channel
  <2>1. ASSUME NEW s \in States, SetState(s) PROVE UNCHANGED Producer!vars
    BY <2>1 DEF SetState, data, Producer!vars, phase
  <2>2. ASSUME NEW s \in TriggerSpecs, SetTrigger(s) PROVE UNCHANGED Producer!vars
    BY <2>2 DEF SetTrigger, data, Producer!vars, phase
  <2>3. CASE TriggerNow
    BY <2>3 DEF TriggerNow, data, Producer!vars, phase
  <2>4. CASE Shutdown
    BY <2>4 DEF Shutdown, data, Producer!vars, phase
  <2>5. CASE NotifyOne
    BY <2>5 DEF NotifyOne, data, Producer!vars, phase
  <2>6. CASE Tick
    BY <2>6 DEF Tick, data, Producer!vars, phase
  <2>7. CASE Receive
    BY <2>7 DEF Receive, data, Producer!vars, phase
  <2>8. CASE DropReceiver
    BY <2>8 DEF DropReceiver, data, Producer!vars, phase
  <2>9. CASE Start
    BY <2>9, Stutter DEF Start, Ended
  <2>10. CASE InitialWakeup
    BY <2>10, Stutter DEF InitialWakeup, Ended
  <2>11. CASE Triggered
    BY <2>11, Stutter DEF Triggered, Ended
  <2>12. CASE Interrupted
    BY <2>12, Stutter DEF Interrupted, Ended
  <2>13. CASE LoadState
    BY <2>13, Stutter DEF LoadState, Ended
  <2>14. CASE AckFlush
    BY <2>14, Stutter DEF AckFlush, Ended
  <2>15. CASE Wakeup
    BY <2>15, Stutter DEF Wakeup, Ended
  <2>16. CASE TakeTrigger
    BY <2>16, Stutter DEF TakeTrigger, NextStep, Ended, TypeOK, States
  <2>17. CASE LoadInitialState
    <3>1. accepted = produced
      BY <2>17, EmptyMeansAccepted DEF LoadInitialState, DataInv, Emptied
    <3>2. CASE state = "Stop"
      <4>1. Producer!Finish
        BY <2>17, <3>1, <3>2 DEF LoadInitialState, Producer!Finish, phase, data
      <4>2. QED
        BY <4>1 DEF Producer!Next
    <3>3. CASE state # "Stop"
      BY <2>17, <3>3, Stutter DEF LoadInitialState, Ended, TypeOK, States
    <3>4. QED
      BY <3>2, <3>3
  <2>18. CASE InitialTimeout
    <3>1. accepted = produced
      BY <2>18, EmptyMeansAccepted DEF InitialTimeout, DataInv, Emptied
    <3>2. Producer!Finish
      BY <2>18, <3>1 DEF InitialTimeout, Producer!Finish, phase, data
    <3>3. QED
      BY <3>2 DEF Producer!Next
  <2>19. CASE TriggerError \/ Panic
    <3>1. Producer!Fail
      BY <2>19 DEF TriggerError, Panic, Producer!Fail, phase, data
    <3>2. QED
      BY <3>1 DEF Producer!Next
  <2>20. CASE Poll
    <3>1. phase = "running" /\ phase' \in {"running", "failed"}
      BY <2>20 DEF Poll, EndRound, phase
    <3>2. accepted' = accepted /\ produced' \in {produced, Producer!Produce(produced)}
      BY <2>20 DEF Poll, Producer!Produce
    <3>3. Producer!Poll \/ Producer!Fail \/ UNCHANGED Producer!vars
      BY <3>1, <3>2 DEF Producer!Poll, Producer!Fail, Producer!vars
    <3>4. QED
      BY <3>3 DEF Producer!Next
  <2>21. CASE FlushRound \/ FlushNow
    <3>1. accepted' = produced /\ produced' = produced
      BY <2>21, SendConserves DEF FlushRound, FlushNow, DataInv, Send
    <3>2. phase = "running" /\ phase' = "running"
      BY <2>21 DEF FlushRound, FlushNow, EndRound, phase
    <3>3. Producer!Flush
      BY <3>1, <3>2 DEF Producer!Flush
    <3>4. QED
      BY <3>3 DEF Producer!Next
  <2>22. CASE Finish
    <3>1. phase = "running" /\ phase' = "done"
      BY <2>22 DEF Finish, phase
    <3>2. CASE buffer # <<>> /\ Send
      <4>1. Producer!Flush
        BY <3>1, <3>2, SendConserves DEF DataInv, Send, Producer!Flush
      <4>2. QED
        BY <4>1 DEF Producer!Next
    <3>3. CASE buffer = <<>> /\ UNCHANGED <<channel, buffer, data>>
      <4>1. Producer!Finish
        BY <3>1, <3>3, EmptyMeansAccepted DEF DataInv, data, Producer!Finish
      <4>2. QED
        BY <4>1 DEF Producer!Next
    <3>4. QED
      BY <2>22, <3>2, <3>3 DEF Finish
  <2>23. CASE UNCHANGED vars
    BY <2>23 DEF vars, data, Producer!vars, phase
  <2>24. QED
    BY <2>1, <2>2, <2>3, <2>4, <2>5, <2>6, <2>7, <2>8, <2>9, <2>10, <2>11, <2>12, <2>13,
       <2>14, <2>15, <2>16, <2>17, <2>18, <2>19, <2>20, <2>21, <2>22, <2>23
    DEF Next, TaskStep
<1>3. QED
  BY <1>1, <1>2, TypeCorrect, DataInvInvariant, PTL DEF Spec, ImplementsProducer, Producer!Spec

-------------------------------------------------------------------------------
(* Rounds: a command is seen in time.                                      *)

\* The round counter n reaches a round with an update within r more rounds.
Reaches(u, n, r) == r \in Nat /\ (n + r) % u = 0

\* A multiple of u is never farther than u - 1 rounds.
LEMMA UpdateIsNear ==
    ASSUME NEW u \in Nat \ {0}, NEW n \in Nat
    PROVE  \E r \in 0..(u - 1) : Reaches(u, n, r)
<1> DEFINE q == n \div u
           m == n % u
<1>1. q \in Nat /\ m \in 0..(u - 1) /\ n = u * q + m
  OBVIOUS
<1>2. \A k \in Nat : (u * k) % u = 0
  OBVIOUS
<1> HIDE DEF q, m
<1>3. CASE m = 0
  <2>1. n + 0 = u * q
    BY <1>1, <1>3
  <2>2. Reaches(u, n, 0)
    BY <1>1, <1>2, <2>1 DEF Reaches
  <2> QED
    BY <2>2
<1>4. CASE m # 0
  <2>1. u - m \in 0..(u - 1) /\ n + (u - m) = u * (q + 1) /\ q + 1 \in Nat
    BY <1>1, <1>4
  <2>2. (u * (q + 1)) % u = 0
    BY <1>2, <2>1
  <2>3. Reaches(u, n, u - m)
    BY <2>1, <2>2 DEF Reaches
  <2> QED
    BY <2>1, <2>3
<1> QED
  BY <1>3, <1>4

\* Within r rounds after this one, the task updates.
Within(l, r) == r \in Nat /\ (i + r) % trigger.spec.update_rounds = 0 /\ l + r =< trigger.spec.update_rounds

\* The polls made since a command was stored, and those that are left until the next
\* update, make at most update_rounds.  The bound itself is not inductive: nothing in it
\* says that the counter is not just after a multiple of update_rounds.
RoundsInv ==
    /\ pc = "start" => newTrigger # NoTrigger
    /\ pc # "start" => trigger # NoTrigger
    /\ unseen =>
          /\ pc \in {"start", "init", "initPaused", "take", "cas", "flushNow", "paused"} => late = 0
          /\ pc \in {"wait", "poll"} => \E r : Within(late + 1, r)
          /\ pc = "flush" => \E r : Within(late, r)
          /\ pc \in {"update", "stopping"} => late =< trigger.spec.update_rounds

\* An update is never farther than the bound of the trigger.
LEMMA UpdateIsWithin ==
    ASSUME TypeOK, trigger # NoTrigger
    PROVE  /\ trigger.spec.update_rounds \in Nat /\ trigger.spec.update_rounds > 0
           /\ \E r : Within(1, r) /\ Within(0, r)
<1>1. trigger.spec.update_rounds \in Nat \ {0} /\ i \in Nat
  BY SourceAssumption DEF TypeOK, Trigger, TriggerSpec
<1>2. PICK r \in 0..(trigger.spec.update_rounds - 1) : Reaches(trigger.spec.update_rounds, i, r)
  BY <1>1, UpdateIsNear
<1>3. Within(1, r) /\ Within(0, r)
  BY <1>1, <1>2 DEF Within, Reaches
<1> QED
  BY <1>1, <1>3

\* The end of a round takes the update one round nearer, also when the counter wraps.
LEMMA RoundEnds ==
    ASSUME TypeOK, trigger # NoTrigger, NEW l \in Nat, NEW r, Within(l, r), EndRound,
           UNCHANGED trigger
    PROVE  /\ pc' = "update" => l =< trigger.spec.update_rounds
           /\ pc' = "wait" => \E q : Within(l + 1, q)'
           /\ pc' \in {"update", "wait"}
<1> DEFINE u == trigger.spec.update_rounds
<1>1. u \in Nat \ {0} /\ i \in Nat /\ CounterSize \in Nat \ {0, 1} /\ i + 1 =< CounterSize
  BY SourceAssumption DEF TypeOK, Trigger, TriggerSpec
<1>2. r \in Nat /\ (i + r) % u = 0 /\ l + r =< u
  BY DEF Within
<1>3. /\ pc' = IF i % u = 0 THEN "update" ELSE "wait"
      /\ i' = IF i + 1 = CounterSize THEN 0 ELSE i + 1
      /\ trigger'.spec.update_rounds = u
  BY <1>1 DEF EndRound
<1> HIDE DEF u
<1>4. ASSUME i % u # 0 PROVE \E q : q \in Nat /\ (i' + q) % u = 0 /\ (l + 1) + q =< u
  <2>1. r # 0
    BY <1>1, <1>2, <1>4
  <2>2. CASE i + 1 = CounterSize
    <3>1. (i' + 0) % u = 0 /\ (l + 1) + 0 =< u
      BY <1>1, <1>2, <1>3, <2>1, <2>2
    <3> QED
      BY <3>1
  <2>3. CASE i + 1 # CounterSize
    <3>1. i' + (r - 1) = i + r /\ r - 1 \in Nat /\ (l + 1) + (r - 1) =< u
      BY <1>1, <1>2, <1>3, <2>1, <2>3
    <3>2. (i' + (r - 1)) % u = 0
      BY <1>2, <3>1
    <3> QED
      BY <3>1, <3>2
  <2> QED
    BY <2>2, <2>3
<1>5. l =< u
  BY <1>1, <1>2
<1>6. pc' = "wait" => \E q : Within(l + 1, q)'
  <2> SUFFICES ASSUME pc' = "wait" PROVE \E q : Within(l + 1, q)'
    OBVIOUS
  <2>1. i % u # 0
    BY <1>3
  <2>2. PICK q : q \in Nat /\ (i' + q) % u = 0 /\ (l + 1) + q =< u
    BY <1>4, <2>1
  <2>3. Within(l + 1, q)'
    BY <1>3, <2>2 DEF Within
  <2> QED
    BY <2>3
<1> QED
  BY <1>3, <1>5, <1>6 DEF u

\* A command may come at any time.
LEMMA CommandKeepsRounds ==
    ASSUME TypeOK, RoundsInv, Announce, UNCHANGED <<pc, trigger, newTrigger, i>>
    PROVE  RoundsInv'
<1>1. unseen' = TRUE /\ late' = IF unseen THEN late ELSE 0
  BY DEF Announce
<1>2. CASE unseen
  BY <1>1, <1>2 DEF RoundsInv, Within, TypeOK
<1>3. CASE ~unseen
  <2>1. CASE pc = "start"
    BY <1>1, <1>3, <2>1 DEF RoundsInv
  <2>2. CASE pc # "start"
    <3>1. /\ trigger # NoTrigger /\ trigger.spec.update_rounds \in Nat
          /\ \E r : Within(1, r) /\ Within(0, r)
      BY <2>2, UpdateIsWithin DEF RoundsInv
    <3> QED
      BY <1>1, <1>3, <2>2, <3>1 DEF RoundsInv, Within
  <2> QED
    BY <2>1, <2>2
<1> QED
  BY <1>2, <1>3 DEF TypeOK

\* A step that changes nothing of the rounds.
LEMMA RoundsFrame ==
    ASSUME RoundsInv, UNCHANGED <<trigger, i, history>>, newTrigger' = newTrigger \/ pc # "start",
           \/ pc' = pc
           \/ pc # "start" /\ pc' \in Ended
           \/ pc \in {"wait", "poll"} /\ pc' \in {"wait", "poll"}
    PROVE  RoundsInv'
<1>1. CASE pc' = pc
  BY <1>1 DEF RoundsInv, Within, history
<1>2. CASE pc # "start" /\ pc' \in Ended
  BY <1>2 DEF RoundsInv, Ended
<1>3. CASE pc \in {"wait", "poll"} /\ pc' \in {"wait", "poll"}
  BY <1>3 DEF RoundsInv, Within, history
<1> QED
  BY <1>1, <1>2, <1>3

\* The task polls at most update_rounds times between a command and the load that sees it.
THEOREM CommandsAreSeenInTime == Spec => []UpdateBound
<1>1. Init => RoundsInv
  BY DEF Init, RoundsInv, Trigger, NoTrigger
<1>2. TypeOK /\ RoundsInv /\ [Next]_vars => RoundsInv'
  <2> SUFFICES ASSUME TypeOK, RoundsInv, [Next]_vars PROVE RoundsInv'
    OBVIOUS
  <2> USE DEF shared, control, channel, data
  <2>1. ASSUME NEW s \in States, SetState(s) PROVE RoundsInv'
    BY <2>1, CommandKeepsRounds DEF SetState, Store
  <2>2. ASSUME NEW s \in TriggerSpecs, SetTrigger(s) PROVE RoundsInv'
    <3>1. newTrigger' # NoTrigger /\ UNCHANGED <<pc, trigger, i, history>>
      BY <2>2 DEF SetTrigger, NoTrigger
    <3> QED
      BY <3>1 DEF RoundsInv, Within, history
  <2>3. CASE TriggerNow
    BY <2>3, RoundsFrame DEF TriggerNow
  <2>4. CASE Shutdown
    BY <2>4, CommandKeepsRounds DEF Shutdown, Store
  <2>5. CASE NotifyOne
    BY <2>5, RoundsFrame DEF NotifyOne
  <2>6. CASE Tick \/ Receive \/ DropReceiver
    BY <2>6, RoundsFrame DEF Tick, Receive, DropReceiver
  <2>7. CASE Start
    BY <2>7 DEF RoundsInv, Start, history
  <2>8. CASE LoadInitialState
    BY <2>8 DEF RoundsInv, LoadInitialState, TypeOK, States
  <2>9. CASE InitialWakeup
    BY <2>9 DEF RoundsInv, InitialWakeup, history
  <2>10. CASE InitialTimeout \/ TriggerError \/ Panic
    BY <2>10, RoundsFrame DEF InitialTimeout, TriggerError, Panic, Ended
  <2>11. CASE Triggered
    BY <2>11, RoundsFrame DEF Triggered
  <2>12. CASE Interrupted
    <3>1. unseen => late =< trigger.spec.update_rounds
      BY SMTT(30), <2>12, UpdateIsWithin DEF RoundsInv, Interrupted, Within, TypeOK
    <3> QED
      BY <2>12, <3>1 DEF RoundsInv, Interrupted, history
  <2>13. CASE Poll
    <3>1. /\ pc = "poll" /\ unseen' = unseen /\ late' = IF unseen THEN late + 1 ELSE late
          /\ UNCHANGED <<trigger, newTrigger>>
          /\ \/ pc' = "flush" /\ i' = i
             \/ EndRound
             \/ pc' \in {"stopping", "failed"} /\ i' = i
      BY <2>13 DEF Poll
    <3>2. trigger # NoTrigger /\ late \in Nat /\ (unseen => \E r : Within(late + 1, r))
      BY <3>1 DEF RoundsInv, TypeOK
    <3>3. CASE ~unseen
      BY <3>1, <3>2, <3>3 DEF RoundsInv, EndRound
    <3>4. CASE unseen /\ pc' = "flush" /\ i' = i
      BY <3>1, <3>2, <3>4 DEF RoundsInv, Within
    <3>5. CASE unseen /\ EndRound
      <4>0. PICK l \in Nat : l = late + 1
        BY <3>2
      <4>1. PICK r : Within(l, r)
        BY <3>2, <3>5, <4>0
      <4>2. /\ pc' = "update" => l =< trigger.spec.update_rounds
            /\ pc' = "wait" => \E q : Within(l + 1, q)'
            /\ pc' \in {"update", "wait"}
        BY <3>1, <3>2, <3>5, <4>1, RoundEnds
      <4>3. late' = l
        BY <3>1, <3>5, <4>0
      <4> QED
        BY <3>1, <3>2, <3>5, <4>2, <4>3 DEF RoundsInv, Within
    <3>6. CASE unseen /\ pc' \in {"stopping", "failed"} /\ i' = i
      <4>1. late + 1 =< trigger.spec.update_rounds
        BY <3>2, <3>6, UpdateIsWithin DEF Within
      <4> QED
        BY <3>1, <3>2, <3>6, <4>1 DEF RoundsInv
    <3> QED
      BY <3>1, <3>3, <3>4, <3>5, <3>6
  <2>14. CASE FlushRound
    <3>1. pc = "flush" /\ EndRound /\ UNCHANGED <<trigger, newTrigger, history>>
      BY <2>14 DEF FlushRound
    <3>2. trigger # NoTrigger /\ late \in Nat /\ (unseen => \E r : Within(late, r))
      BY <3>1 DEF RoundsInv, TypeOK
    <3>3. CASE ~unseen
      BY <3>1, <3>2, <3>3 DEF RoundsInv, EndRound, history
    <3>4. CASE unseen
      <4>1. PICK l \in Nat : l = late
        BY <3>2
      <4>2. PICK r : Within(l, r)
        BY <3>2, <3>4, <4>1
      <4>3. /\ pc' = "update" => l =< trigger.spec.update_rounds
            /\ pc' = "wait" => \E q : Within(l + 1, q)'
            /\ pc' \in {"update", "wait"}
        BY <3>1, <3>2, <4>2, RoundEnds
      <4>4. late' = l
        BY <3>1, <4>1 DEF history
      <4> QED
        BY <3>1, <3>2, <3>4, <4>3, <4>4 DEF RoundsInv, Within
    <3> QED
      BY <3>3, <3>4
  <2>15. CASE LoadState
    BY <2>15 DEF RoundsInv, LoadState
  <2>16. CASE TakeTrigger
    <3>1. /\ pc = "take" /\ trigger' # NoTrigger /\ i' = i /\ UNCHANGED history
          /\ pc' \in {"wait", "cas", "flushNow", "paused", "stopping"}
      BY <2>16 DEF RoundsInv, TakeTrigger, NextStep, TypeOK, States
    <3>2. trigger'.spec.update_rounds \in Nat \ {0} /\ i \in Nat
      BY <2>16, <3>1, SourceAssumption DEF TypeOK, TakeTrigger, Trigger, TriggerSpec
    <3>3. unseen => late = 0
      BY <3>1 DEF RoundsInv
    <3>4. PICK r \in 0..(trigger'.spec.update_rounds - 1) : Reaches(trigger'.spec.update_rounds, i, r)
      BY <3>2, UpdateIsNear
    <3>5. unseen => Within(late + 1, r)'
      BY <3>1, <3>2, <3>3, <3>4 DEF Within, Reaches, history
    <3> QED
      BY <3>1, <3>2, <3>3, <3>5 DEF RoundsInv, history
  <2>17. CASE FlushNow
    BY <2>17 DEF RoundsInv, FlushNow, history
  <2>18. CASE AckFlush
    <3>1. trigger # NoTrigger /\ pc = "cas" /\ pc' = "wait" /\ UNCHANGED <<trigger, i, history>>
      BY <2>18 DEF RoundsInv, AckFlush
    <3>2. unseen => late = 0
      BY <3>1 DEF RoundsInv
    <3>3. PICK r : Within(1, r)
      BY <3>1, UpdateIsWithin
    <3>4. unseen => Within(late + 1, r)'
      BY <3>1, <3>2, <3>3 DEF Within, history
    <3> QED
      BY <3>1, <3>2, <3>4 DEF RoundsInv, history
  <2>19. CASE Wakeup
    <3>1. trigger # NoTrigger /\ pc = "paused" /\ pc' = "update" /\ UNCHANGED <<trigger, history>>
      BY <2>19 DEF RoundsInv, Wakeup
    <3>2. unseen => late = 0
      BY <3>1 DEF RoundsInv
    <3> QED
      BY <3>1, <3>2, UpdateIsWithin DEF RoundsInv, history
  <2>20. CASE Finish
    BY <2>20, RoundsFrame DEF Finish, Ended
  <2>21. CASE UNCHANGED vars
    BY <2>21, RoundsFrame DEF vars
  <2> QED
    BY <2>1, <2>2, <2>3, <2>4, <2>5, <2>6, <2>7, <2>8, <2>9, <2>10, <2>11, <2>12, <2>13,
       <2>14, <2>15, <2>16, <2>17, <2>18, <2>19, <2>20, <2>21
    DEF Next, TaskStep
<1>3. TypeOK /\ RoundsInv => UpdateBound
  <2> SUFFICES ASSUME TypeOK, RoundsInv, unseen, pc \notin Ended, trigger # NoTrigger
               PROVE  late =< trigger.spec.update_rounds
    BY DEF UpdateBound
  <2>1. pc \in {"start", "init", "initPaused", "take", "cas", "flushNow", "paused", "wait", "poll", "flush",
                "update", "stopping"}
    BY DEF TypeOK, Steps, Running, Ended
  <2>2. trigger.spec.update_rounds \in Nat /\ late \in Nat
    BY UpdateIsWithin DEF TypeOK
  <2> QED
    BY <2>1, <2>2 DEF RoundsInv, Within
<1>4. QED
  BY <1>1, <1>2, <1>3, TypeCorrect, PTL DEF Spec
===============================================================================
