--------------------------- MODULE OutputTaskProofs ---------------------------
(***************************************************************************)
(* Proofs about the two kinds of outputs.  OutputTask: the fate of every   *)
(* message, for both kinds of channel.  AsyncOutput: what a suspended      *)
(* stream listens to, and what it delivers.  For any capacity, commands    *)
(* and traffic.                                                            *)
(***************************************************************************)
EXTENDS OutputTask, AsyncOutput, SequenceTheorems, TLAPS

\* While a message is being written, it is the one just before the cursor;
\* otherwise there is none (an output that fails keeps the one it was writing).
Writing ==
    /\ pc \in {"write", "finishWrite"} => current >= 1 /\ next = current + 1
    /\ pc \in {"select", "finish", "done", "stopped"} => current = 0
    /\ pc = "failed" => current >= 1 /\ next = current + 1

Typed == TypeOK /\ Writing

\* The oldest message kept by the channel is one sent, or the next.
LEMMA OldestBounds ==
    ASSUME TypeOK
    PROVE  OldestLeft \in 1..(MaxMessages + 1) /\ OldestLeft <= sent + 1
BY OutputAssumption, ChannelAssumption DEF TypeOK, OldestLeft, Oldest

\* The type invariant holds in every run.
LEMMA TypedInvariant == Spec => []Typed
<1>1. Init => Typed
  <2> SUFFICES ASSUME Init PROVE Typed
    OBVIOUS
  <2>1. sent \in 0..MaxMessages /\ next \in 1..(MaxMessages + 1) /\ cmds \in 0..MaxCommands /\ current \in 0..MaxMessages
    BY OutputAssumption, ChannelAssumption DEF Init
  <2>2. written \in Seq(1..MaxMessages)
    BY EmptySeq DEF Init
  <2>3. Writing
    BY DEF Init, Writing
  <2>4. QED
    BY <2>1, <2>2, <2>3 DEF Init, Typed, TypeOK, TaskStates, Steps
<1>2. Typed /\ [Next]_vars => Typed'
  <2> SUFFICES ASSUME Typed, [Next]_vars PROVE Typed'
    OBVIOUS
  <2> USE OutputAssumption, ChannelAssumption DEF chan, config, fate, Typed, Writing
  <2>1. CASE Send
    BY <2>1 DEF TypeOK, Send
  <2>2. CASE UpstreamEnds
    BY <2>2 DEF TypeOK, UpstreamEnds
  <2>3. ASSUME NEW s \in TaskStates, SetState(s) PROVE Typed'
    BY <2>3 DEF TypeOK, SetState
  <2>4. CASE Shutdown
    BY <2>4 DEF TypeOK, Shutdown, TaskStates
  <2>5. CASE NotifyOne
    BY <2>5 DEF TypeOK, NotifyOne
  <2>6. CASE Notified
    <3>1. pc' \in {"select", "finish", "stopped"} /\ receive' \in BOOLEAN /\ permit' \in BOOLEAN
      BY <2>6 DEF TypeOK, Notified
    <3>2. next' \in 1..(MaxMessages + 1) /\ discarded' \in SUBSET (1..MaxMessages)
      BY <2>6 DEF TypeOK, Notified, Discard
    <3>3. current = 0 /\ current' = 0
      BY <2>6 DEF Notified
    <3>4. QED
      BY <2>6, <3>1, <3>2, <3>3 DEF TypeOK, Notified, Steps, Ended
  <2>7. CASE Receive
    BY <2>7 DEF TypeOK, Receive, Receiving, Steps
  <2>8. CASE Lag
    <3>0. OldestLeft \in 1..(MaxMessages + 1) /\ OldestLeft <= sent + 1
      BY OldestBounds DEF Typed
    <3>1. next' \in 1..(MaxMessages + 1) /\ lagged' \in SUBSET (1..MaxMessages)
      BY <2>8, <3>0 DEF TypeOK, Lag
    <3>2. current = 0 /\ pc \in {"select", "finish"}
      BY <2>8 DEF Lag, Receiving
    <3>3. QED
      BY <2>8, <3>1, <3>2 DEF TypeOK, Lag
  <2>9. CASE ReceiveClosed
    BY <2>9 DEF TypeOK, ReceiveClosed, Receiving, Steps, Ended
  <2>10. CASE WriteEnds
    <3>1. current \in 1..MaxMessages
      BY <2>10 DEF TypeOK, WriteEnds
    <3>2. written' \in Seq(1..MaxMessages)
      BY SMTT(30), <2>10, <3>1, AppendProperties DEF TypeOK, WriteEnds
    <3>3. refused' \in SUBSET (1..MaxMessages)
      BY <2>10, <3>1 DEF TypeOK, WriteEnds
    <3>4. QED
      BY <2>10, <3>2, <3>3 DEF TypeOK, WriteEnds, Steps
  <2>11. CASE WriteFails
    BY <2>11 DEF TypeOK, WriteFails, Steps, Ended
  <2>12. CASE UNCHANGED vars
    BY <2>12 DEF TypeOK, vars
  <2>13. QED
    BY <2>1, <2>2, <2>3, <2>4, <2>5, <2>6, <2>7, <2>8, <2>9, <2>10, <2>11, <2>12 DEF Next, TaskStep
<1>3. QED
  BY <1>1, <1>2, PTL DEF Spec

\* Every variable keeps its type, whatever the traffic, lags and commands.
THEOREM TypeCorrect == Spec => []TypeOK
<1>1. Typed => TypeOK
  BY DEF Typed
<1>2. QED
  BY <1>1, TypedInvariant, PTL

-------------------------------------------------------------------------------
(* The fate of every message.                                              *)

W == {written[k] : k \in 1..Len(written)}
C == IF current = 0 THEN {} ELSE {current}

\* What a write changes of the set and number of messages written.
LEMMA WrittenAppend ==
    ASSUME Typed, NEW m \in 1..MaxMessages, written' = Append(written, m)
    PROVE  W' = W \union {m} /\ Len(written') = Len(written) + 1
<1>1. /\ Len(written') = Len(written) + 1
      /\ \A k \in 1..Len(written) : written'[k] = written[k]
      /\ written'[Len(written) + 1] = m
      /\ Len(written) \in Nat
  BY AppendProperties, LenProperties DEF Typed, TypeOK
<1>2. 1..Len(written') = 1..Len(written) \union {Len(written) + 1}
  BY <1>1
<1>3. QED
  BY <1>1, <1>2 DEF W

\* The invariant: the fates partition what is before the cursor, the cursor is
\* never ahead of the channel, and an output that is done is behind nothing.
DeliveryInv ==
    /\ Fates
    /\ next <= sent + 1
    /\ DoneMeansDrained
    /\ LagLosesOldest

\* Nothing happens to the messages in a step that moves neither the cursor nor
\* the current message.
LEMMA DeliveryFrame ==
    ASSUME Typed, DeliveryInv, UNCHANGED <<next, current, fate>>,
           NEW m \in Nat, sent' = m, m >= sent,
           pc' = "done" => pc = "done" /\ sent' = sent /\ upstream' = upstream
    PROVE  DeliveryInv'
<1>1. Fates'
  BY DEF DeliveryInv, Fates, fate
<1>2. LagLosesOldest'
  BY OutputAssumption, ChannelAssumption DEF DeliveryInv, LagLosesOldest, fate, Typed, TypeOK
<1>3. next' <= sent' + 1
  <2>1. next \in Nat /\ sent \in Nat /\ next <= sent + 1
    BY OutputAssumption, ChannelAssumption DEF DeliveryInv, Typed, TypeOK
  <2>2. next' = next
    OBVIOUS
  <2>3. QED
    BY <2>1, <2>2
<1>4. DoneMeansDrained'
  BY Zenon DEF DeliveryInv, DoneMeansDrained
<1>5. QED
  BY <1>1, <1>2, <1>3, <1>4 DEF DeliveryInv

\* The inductive invariant of the delivery holds in every run.
LEMMA DeliveryInvariant == Spec => []DeliveryInv
<1>1. Init => DeliveryInv
  <2> SUFFICES ASSUME Init PROVE DeliveryInv
    OBVIOUS
  <2>1. 1..Len(written) = {} /\ 1..(next - 1) = {}
    BY DEF Init
  <2>2. {written[k] : k \in 1..Len(written)} = {}
    BY <2>1
  <2>3. Fates
    BY <2>1, <2>2 DEF Init, Fates
  <2>4. QED
    BY <2>3 DEF Init, DeliveryInv, DoneMeansDrained, LagLosesOldest
<1>2. Typed /\ DeliveryInv /\ [Next]_vars => DeliveryInv'
  <2> SUFFICES ASSUME Typed, DeliveryInv, [Next]_vars PROVE DeliveryInv'
    OBVIOUS
  <2>0. sent \in Nat /\ next \in Nat /\ next >= 1
    BY OutputAssumption, ChannelAssumption DEF Typed, TypeOK
  <2> USE DEF chan, config
  <2>1. CASE Send
    BY <2>0, <2>1, DeliveryFrame DEF Send, Ended
  <2>2. CASE UpstreamEnds
    <3>1. pc # "done"
      BY <2>2 DEF UpstreamEnds, DeliveryInv, DoneMeansDrained
    <3>2. UNCHANGED <<next, current, fate>> /\ sent' = sent /\ pc' # "done"
      BY <2>2, <3>1 DEF UpstreamEnds
    <3>3. QED
      BY <2>0, <3>2, DeliveryFrame
  <2>3. ASSUME NEW s \in TaskStates, SetState(s) PROVE DeliveryInv'
    BY <2>0, <2>3, DeliveryFrame DEF SetState
  <2>4. CASE Shutdown \/ NotifyOne
    BY <2>0, <2>4, DeliveryFrame DEF Shutdown, NotifyOne
  <2>5. CASE Notified
    <3>1. current = 0 /\ current' = 0 /\ pc' # "done"
      BY <2>5 DEF Notified, Typed, Writing
    <3>2. CASE state # "RunDiscard"
      BY <2>0, <2>5, <3>1, <3>2, DeliveryFrame DEF Notified, fate
    <3>3. CASE state = "RunDiscard"
      <4>1. next' = sent + 1 /\ discarded' = discarded \union next..sent
        BY <2>5, <3>3 DEF Notified, Discard
      <4>2. 1..(next' - 1) = 1..(next - 1) \union next..sent
        BY <2>0, <4>1 DEF DeliveryInv
      <4>3. /\ UNCHANGED <<written, refused, lagged, sent>>
        BY <2>5 DEF Notified
      <4>4. next..sent \intersect 1..(next - 1) = {}
        BY <2>0
      <4>5. Fates'
        BY <3>1, <4>1, <4>2, <4>3, <4>4 DEF DeliveryInv, Fates
      <4>6. QED
        BY <2>0, <3>1, <4>1, <4>3, <4>5 DEF DeliveryInv, DoneMeansDrained, LagLosesOldest
    <3>4. QED
      BY <3>2, <3>3
  <2>6. CASE Receive
    <3>1. current = 0 /\ current' = next /\ next' = next + 1 /\ pc' # "done" /\ next <= sent
      BY <2>6 DEF Receive, Receiving, Typed, Writing
    <3>2. 1..(next' - 1) = 1..(next - 1) \union {next}
      BY <2>0, <3>1
    <3>3. UNCHANGED <<written, refused, lagged, discarded, sent>>
      BY <2>6 DEF Receive, fate
    <3>4. next \notin 1..(next - 1) /\ next # 0
      BY <2>0
    <3>5. Fates'
      BY <3>1, <3>2, <3>3, <3>4 DEF DeliveryInv, Fates
    <3>6. QED
      BY <2>0, <3>1, <3>3, <3>5 DEF DeliveryInv, DoneMeansDrained, LagLosesOldest
  <2>7. CASE Lag
    <3>1. current = 0 /\ current' = 0 /\ pc' # "done"
      BY <2>7 DEF Lag, Receiving, Typed, Writing
    <3>2. /\ next' = OldestLeft /\ lagged' = lagged \union next..(OldestLeft - 1)
          /\ next < OldestLeft /\ OldestLeft \in Nat /\ OldestLeft <= sent + 1
      BY <2>7, OldestBounds DEF Lag, Typed
    <3>3. 1..(next' - 1) = 1..(next - 1) \union next..(OldestLeft - 1)
      BY <2>0, <3>2
    <3>4. UNCHANGED <<written, refused, discarded, sent>>
      BY <2>7 DEF Lag
    <3>5. next..(OldestLeft - 1) \intersect 1..(next - 1) = {}
      BY <2>0, <3>2
    <3>6. Fates'
      BY <3>1, <3>2, <3>3, <3>4, <3>5 DEF DeliveryInv, Fates
    <3>7. \A m \in next..(OldestLeft - 1) : m + Capacity <= sent
      BY <2>0, <3>2, OutputAssumption, ChannelAssumption DEF OldestLeft, Oldest
    <3>8. LagLosesOldest'
      BY <3>2, <3>4, <3>7 DEF DeliveryInv, LagLosesOldest
    <3>9. QED
      BY <3>1, <3>2, <3>4, <3>6, <3>8 DEF DeliveryInv, DoneMeansDrained
  <2>8. CASE ReceiveClosed
    <3>1. Fates' /\ LagLosesOldest'
      BY <2>8 DEF ReceiveClosed, DeliveryInv, Fates, LagLosesOldest, fate
    <3>2. next' = sent' + 1 /\ ~upstream'
      BY <2>0, <2>8 DEF ReceiveClosed, Closed, DeliveryInv
    <3>3. QED
      BY <2>0, <3>1, <3>2 DEF DeliveryInv, DoneMeansDrained
  <2>9. CASE WriteEnds
    <3>1. current \in 1..MaxMessages /\ current # 0 /\ current' = 0 /\ next' = next /\ pc' # "done"
      BY <2>0, <2>9 DEF WriteEnds, Typed, TypeOK, Writing
    <3>2. UNCHANGED <<lagged, discarded, sent>>
      BY <2>9 DEF WriteEnds
    <3>3. CASE written' = Append(written, current) /\ UNCHANGED refused
      <4>1. W' = W \union {current}
        BY <3>1, <3>3, WrittenAppend
      <4>2. Fates'
        BY <3>1, <3>2, <3>3, <4>1 DEF DeliveryInv, Fates, W
      <4>3. QED
        BY <3>1, <3>2, <4>2 DEF DeliveryInv, DoneMeansDrained, LagLosesOldest
    <3>4. CASE refused' = refused \union {current} /\ UNCHANGED written
      <4>1. Fates'
        BY <3>1, <3>2, <3>4 DEF DeliveryInv, Fates
      <4>2. QED
        BY <3>1, <3>2, <4>1 DEF DeliveryInv, DoneMeansDrained, LagLosesOldest
    <3>5. QED
      BY <2>9, <3>3, <3>4 DEF WriteEnds
  <2>10. CASE WriteFails
    BY <2>0, <2>10, DeliveryFrame DEF WriteFails
  <2>11. CASE UNCHANGED vars
    BY <2>0, <2>11, DeliveryFrame DEF vars
  <2>12. QED
    BY <2>1, <2>2, <2>3, <2>4, <2>5, <2>6, <2>7, <2>8, <2>9, <2>10, <2>11 DEF Next, TaskStep
<1>3. QED
  BY <1>1, <1>2, TypedInvariant, PTL DEF Spec

\* No message is lost without a reason: every message before the cursor was
\* written, refused, overwritten in the ring, or discarded on request.
THEOREM EveryMessageHasOneFate == Spec => []Fates
<1>1. DeliveryInv => Fates
  BY DEF DeliveryInv
<1>2. QED
  BY <1>1, DeliveryInvariant, PTL

\* An output that is done has emptied its channel, for both kinds of channel.
THEOREM DoneOutputIsDrained == Spec => []DoneMeansDrained
<1>1. DeliveryInv => DoneMeansDrained
  BY DEF DeliveryInv
<1>2. QED
  BY <1>1, DeliveryInvariant, PTL

\* A slow output only loses messages that are at least Capacity messages old.
THEOREM SlowOutputLosesOldest == Spec => []LagLosesOldest
<1>1. DeliveryInv => LagLosesOldest
  BY DEF DeliveryInv
<1>2. QED
  BY <1>1, DeliveryInvariant, PTL

\* The output writes the messages in the order of the channel, without
\* duplicates.
THEOREM OutputInOrder == Spec => []WrittenInOrder
<1>1. Init => WrittenInOrder
  BY DEF Init, WrittenInOrder
<1>2. Typed /\ DeliveryInv /\ WrittenInOrder /\ [Next]_vars => WrittenInOrder'
  <2> SUFFICES ASSUME Typed, DeliveryInv, WrittenInOrder, [Next]_vars PROVE WrittenInOrder'
    OBVIOUS
  <2>1. CASE UNCHANGED written
    BY <2>1 DEF WrittenInOrder
  <2>2. CASE WriteEnds /\ written' = Append(written, current)
    <3>1. current \in 1..MaxMessages /\ next = current + 1
      BY <2>2 DEF WriteEnds, Typed, TypeOK, Writing
    <3>2. \A k \in 1..Len(written) : written[k] \in 1..(next - 1) /\ written[k] # current
      BY <3>1 DEF DeliveryInv, Fates
    <3>3. \A k \in 1..Len(written) : written[k] < current
      BY <3>1, <3>2
    <3>4. /\ Len(written') = Len(written) + 1
          /\ \A k \in 1..Len(written) : written'[k] = written[k]
          /\ written'[Len(written) + 1] = current
          /\ Len(written) \in Nat
      BY <2>2, <3>1, AppendProperties, LenProperties DEF Typed, TypeOK
    <3>5. ASSUME NEW j \in 1..Len(written'), NEW k \in 1..Len(written'), j < k
          PROVE  written'[j] < written'[k]
      <4>1. j \in 1..Len(written)
        BY <3>4, <3>5
      <4>2. CASE k \in 1..Len(written)
        BY <3>4, <3>5, <4>1, <4>2 DEF WrittenInOrder
      <4>3. CASE k = Len(written) + 1
        BY <3>3, <3>4, <4>1, <4>3
      <4>4. QED
        BY <3>4, <4>2, <4>3
    <3>6. QED
      BY <3>5 DEF WrittenInOrder
  <2>3. QED
    BY <2>1, <2>2
    DEF Next, TaskStep, vars, chan, config, fate, Send, UpstreamEnds, SetState, Shutdown, NotifyOne,
        Notified, Receive, Lag, ReceiveClosed, WriteEnds, WriteFails
<1>3. QED
  BY <1>1, <1>2, TypedInvariant, DeliveryInvariant, PTL DEF Spec

-------------------------------------------------------------------------------
(* Asynchronous outputs: types.                                            *)

\* No message is delivered before it is sent.
AsyncTyped == AsyncTypeOK /\ next <= sent + 1

\* The oldest message kept by the channel is one sent, or the next.
LEMMA OldestIsSent ==
    ASSUME AsyncTypeOK
    PROVE  Oldest \in 1..(MaxMessages + 1) /\ Oldest <= sent + 1 /\ sent \in Nat /\ next \in Nat
BY AsyncAssumption, ChannelAssumption DEF AsyncTypeOK, Oldest

\* The type invariant holds in every run.
LEMMA AsyncTypedInvariant == AsyncSpec => []AsyncTyped
<1>1. AsyncInit => AsyncTyped
  <2> SUFFICES ASSUME AsyncInit PROVE AsyncTyped
    OBVIOUS
  <2>1. 0 \in 0..MaxMessages /\ 1 \in 1..(MaxMessages + 1) /\ 0 \in 0..MaxCommands
    BY AsyncAssumption, ChannelAssumption
  <2>2. delivered \in Seq(1..MaxMessages)
    BY EmptySeq DEF AsyncInit
  <2>3. AsyncTypeOK
    BY <2>1, <2>2 DEF AsyncInit, AsyncTypeOK, StreamStates, TaskStates
  <2>4. QED
    BY <2>3 DEF AsyncInit, AsyncTyped
<1>2. AsyncTyped /\ [AsyncNext]_asyncVars => AsyncTyped'
  <2> SUFFICES ASSUME AsyncTyped, [AsyncNext]_asyncVars PROVE AsyncTyped'
    OBVIOUS
  <2>0. sent \in Nat /\ next \in Nat /\ sent \in 0..MaxMessages /\ MaxMessages \in Nat /\ next <= sent + 1
    BY AsyncAssumption, ChannelAssumption DEF AsyncTyped, AsyncTypeOK
  <2> USE AsyncAssumption, ChannelAssumption DEF AsyncTyped, control, wakers, outcome, chan
  <2>1. CASE SendAndWake
    <3>1. sent' = sent + 1 /\ sent + 1 \in 0..MaxMessages /\ next' = next /\ next <= (sent + 1) + 1
      BY <2>0, <2>1 DEF SendAndWake
    <3>2. AsyncTypeOK'
      BY <2>1, <3>1 DEF AsyncTypeOK, SendAndWake, WakeFromChannel
    <3>3. QED
      BY <3>1, <3>2
  <2>2. CASE SendersEnd
    BY <2>2 DEF AsyncTypeOK, SendersEnd
  <2>3. ASSUME NEW s \in Commands, SetStream(s) PROVE AsyncTyped'
    <3>1. Cast(s) \in StreamStates /\ s \in TaskStates
      BY DEF Cast, StreamStates
    <3>2. QED
      BY <2>3, <3>1 DEF AsyncTypeOK, SetStream
  <2>4. CASE ShutdownStream
    <3>1. Cast("StopFinish") \in StreamStates /\ "StopFinish" \in TaskStates
      BY DEF Cast, StreamStates, TaskStates
    <3>2. QED
      BY <2>4, <3>1 DEF AsyncTypeOK, ShutdownStream
  <2>5. CASE Wake \/ LastWake
    <3>1. ctl' \in {"idle", "closed"}
      BY <2>5 DEF Wake, LastWake
    <3>2. waker' \in BOOLEAN /\ chanWaker' \in BOOLEAN /\ scheduled' \in BOOLEAN
      BY <2>5, Zenon DEF Wake, LastWake, AsyncTypeOK
    <3>3. UNCHANGED <<sent, upstream, next, state, cmds, asked, pc, seen, delivered, lagged>>
      BY <2>5 DEF Wake, LastWake
    <3>4. QED
      BY <3>1, <3>2, <3>3 DEF AsyncTypeOK
  <2>6. CASE Poll \/ LoadState \/ Register \/ Consume
    <3>1. state \in StreamStates /\ seen \in StreamStates
      BY DEF AsyncTypeOK
    <3>2. pc' \in {"idle", "load", "inner", "register", "consume", "done"} /\ seen' \in StreamStates
      BY <2>6, <3>1 DEF Poll, LoadState, Register, Consume, StreamStates
    <3>3. waker' \in BOOLEAN /\ chanWaker' \in BOOLEAN /\ scheduled' \in BOOLEAN
      BY <2>6, Zenon DEF Poll, LoadState, Register, Consume, AsyncTypeOK
    <3>4. UNCHANGED <<sent, upstream, next, state, ctl, cmds, asked, delivered, lagged>>
      BY <2>6 DEF Poll, LoadState, Register, Consume
    <3>5. QED
      BY <3>2, <3>3, <3>4 DEF AsyncTypeOK
  <2>7. CASE PollItem
    <3>1. next \in 1..MaxMessages /\ next' = next + 1 /\ next + 1 \in 1..(MaxMessages + 1)
          /\ sent' = sent /\ next + 1 <= sent + 1
      BY <2>0, <2>7 DEF PollItem, AsyncTypeOK
    <3>2. delivered' \in Seq(1..MaxMessages)
      BY <2>7, <3>1, AppendProperties DEF PollItem, AsyncTypeOK
    <3>3. AsyncTypeOK'
      BY <2>7, <3>1, <3>2 DEF PollItem, AsyncTypeOK
    <3>4. QED
      BY <3>1, <3>3
  <2>8. CASE PollLagged
    <3>1. Oldest \in 1..(MaxMessages + 1) /\ Oldest <= sent + 1 /\ next..(Oldest - 1) \subseteq 1..MaxMessages
      BY <2>0, OldestIsSent DEF AsyncTypeOK
    <3>2. AsyncTypeOK'
      BY <2>8, <3>1 DEF PollLagged, AsyncTypeOK
    <3>3. next' = Oldest /\ sent' = sent
      BY <2>8 DEF PollLagged
    <3>4. QED
      BY <3>1, <3>2, <3>3
  <2>9. CASE PollEmpty \/ PollClosed
    BY <2>9 DEF AsyncTypeOK, PollEmpty, PollClosed
  <2>10. CASE UNCHANGED asyncVars
    BY <2>10 DEF AsyncTypeOK, asyncVars
  <2>11. QED
    BY <2>1, <2>2, <2>3, <2>4, <2>5, <2>6, <2>7, <2>8, <2>9, <2>10 DEF AsyncNext, StreamStep
<1>3. QED
  BY <1>1, <1>2, PTL DEF AsyncSpec

\* Every variable keeps its type, for any interleaving of polls and wake-ups.
THEOREM AsyncTypeCorrect == AsyncSpec => []AsyncTypeOK
<1>1. AsyncTyped => AsyncTypeOK
  BY DEF AsyncTyped
<1>2. QED
  BY <1>1, AsyncTypedInvariant, PTL

-------------------------------------------------------------------------------
(* Who wakes a suspended stream.                                           *)

\* Between PollEmpty and Register, a message that comes takes the waker that
\* the channel holds and leaves the task scheduled.
Listening ==
    /\ pc \in {"idle", "register"} /\ seen = "Run" => scheduled \/ (chanWaker /\ next > sent)
    /\ pc = "idle" => scheduled \/ waker

\* What is known of the listening output holds in every run.
LEMMA ListeningInvariant == AsyncSpec => []Listening
<1>1. AsyncInit => Listening
  BY DEF AsyncInit, Listening
<1>2. AsyncTyped /\ Listening /\ [AsyncNext]_asyncVars => Listening'
  <2> SUFFICES ASSUME AsyncTyped, Listening, [AsyncNext]_asyncVars PROVE Listening'
    OBVIOUS
  <2> USE DEF control, wakers, outcome, chan
  <2>1. CASE SendAndWake
    <3>1. pc' = pc /\ seen' = seen /\ waker' = waker /\ scheduled' = (scheduled \/ chanWaker)
      BY <2>1 DEF SendAndWake, WakeFromChannel
    <3>2. (pc \in {"idle", "register"} /\ seen = "Run") => scheduled'
      BY <3>1, Zenon DEF Listening
    <3>3. pc = "idle" => scheduled' \/ waker'
      BY <3>1, Zenon DEF Listening
    <3>4. QED
      BY <3>1, <3>2, <3>3, Zenon DEF Listening
  <2>2. ASSUME UNCHANGED <<sent, next, wakers, pc, seen>> PROVE Listening'
    BY <2>2 DEF Listening
  <2>3. CASE SendersEnd \/ ShutdownStream \/ \E s \in Commands : SetStream(s)
    BY <2>2, <2>3 DEF SendersEnd, ShutdownStream, SetStream
  <2>4. CASE Wake
    BY <2>4, Zenon DEF Wake, Listening
  <2>5. CASE LastWake
    BY <2>5, Zenon DEF LastWake, Listening
  <2>6. CASE pc' \notin {"idle", "register"}
    BY <2>6 DEF Listening
  <2>7. CASE LoadState
    <3>1. state \in {"Run", "Pause", "Stop"}
      BY DEF AsyncTyped, AsyncTypeOK, StreamStates
    <3>2. pc' # "idle" /\ (pc' = "register" => seen' = "Pause")
      BY <2>7, <3>1 DEF LoadState
    <3>3. QED
      BY <3>2 DEF Listening
  <2>8. CASE PollEmpty
    BY <2>8, Zenon DEF PollEmpty, Listening
  <2>9. CASE Register
    BY <2>9, Zenon DEF Register, Listening
  <2>10. CASE UNCHANGED asyncVars
    BY <2>2, <2>10 DEF asyncVars
  <2>11. QED
    BY <2>1, <2>3, <2>4, <2>5, <2>6, <2>7, <2>8, <2>9, <2>10
    DEF AsyncNext, StreamStep, Poll, PollItem, PollLagged, PollClosed, Consume
<1>3. QED
  BY <1>1, <1>2, AsyncTypedInvariant, PTL DEF AsyncSpec

\* Whatever the interleaving, a suspended output waits for its controller, and
\* one that was running has nothing to read and waits for its channel.
THEOREM SuspendedIsAwakable == AsyncSpec => []SuspendedListens
<1>1. Listening => SuspendedListens
  BY DEF Listening, SuspendedListens
<1>2. QED
  BY <1>1, ListeningInvariant, PTL

-------------------------------------------------------------------------------
(* What the plugin is given.                                               *)

Given == {delivered[k] : k \in 1..Len(delivered)}

\* What a delivery changes of the set and number of messages delivered.
LEMMA DeliveredAppend ==
    ASSUME AsyncTypeOK, NEW m \in 1..MaxMessages, delivered' = Append(delivered, m)
    PROVE  /\ Given' = Given \union {m}
           /\ Len(delivered') = Len(delivered) + 1 /\ Len(delivered) \in Nat
           /\ delivered'[Len(delivered) + 1] = m
           /\ \A k \in 1..Len(delivered) : delivered'[k] = delivered[k]
<1>1. /\ Len(delivered') = Len(delivered) + 1
      /\ \A k \in 1..Len(delivered) : delivered'[k] = delivered[k]
      /\ delivered'[Len(delivered) + 1] = m
      /\ Len(delivered) \in Nat
  BY AppendProperties, LenProperties DEF AsyncTypeOK
<1>2. 1..Len(delivered') = 1..Len(delivered) \union {Len(delivered) + 1}
  BY <1>1
<1>3. QED
  BY <1>1, <1>2 DEF Given

\* No message is skipped without the plugin being told.
THEOREM NothingSkippedSilently == AsyncSpec => []DeliveredOrLagged
<1>1. AsyncInit => DeliveredOrLagged
  <2> SUFFICES ASSUME AsyncInit PROVE DeliveredOrLagged
    OBVIOUS
  <2>1. 1..Len(delivered) = {} /\ 1..(next - 1) = {} /\ lagged = {}
    BY DEF AsyncInit
  <2>2. {delivered[k] : k \in 1..Len(delivered)} = {}
    BY <2>1
  <2>3. QED
    BY <2>1, <2>2 DEF DeliveredOrLagged
<1>2. AsyncTyped /\ DeliveredOrLagged /\ [AsyncNext]_asyncVars => DeliveredOrLagged'
  <2> SUFFICES ASSUME AsyncTyped, DeliveredOrLagged, [AsyncNext]_asyncVars PROVE DeliveredOrLagged'
    OBVIOUS
  <2>0. sent \in Nat /\ next \in Nat /\ next >= 1
    BY AsyncAssumption, ChannelAssumption DEF AsyncTyped, AsyncTypeOK
  <2>1. CASE UNCHANGED <<next, delivered, lagged>>
    BY <2>1 DEF DeliveredOrLagged
  <2>2. CASE PollItem
    <3>1. next \in 1..MaxMessages /\ next' = next + 1 /\ delivered' = Append(delivered, next) /\ lagged' = lagged
      BY <2>0, <2>2, AsyncAssumption, ChannelAssumption DEF PollItem, AsyncTyped, AsyncTypeOK
    <3>2. /\ Given' = Given \union {next}
          /\ Len(delivered') = Len(delivered) + 1 /\ Len(delivered) \in Nat
          /\ delivered'[Len(delivered) + 1] = next
          /\ \A k \in 1..Len(delivered) : delivered'[k] = delivered[k]
      BY <3>1, DeliveredAppend DEF AsyncTyped
    <3>3. 1..(next' - 1) = 1..(next - 1) \union {next} /\ next \notin 1..(next - 1)
      BY <2>0, <3>1
    <3>4. 1..(next' - 1) = Given' \union lagged' /\ Given' \intersect lagged' = {}
      BY <3>1, <3>2, <3>3 DEF DeliveredOrLagged, Given
    <3>5. \A k \in 1..Len(delivered) : delivered[k] < next
      <4>1. \A k \in 1..Len(delivered) : delivered[k] \in 1..(next - 1)
        BY DEF DeliveredOrLagged
      <4>2. QED
        BY <2>0, <4>1
    <3>6. ASSUME NEW j \in 1..Len(delivered'), NEW k \in 1..Len(delivered'), j < k
          PROVE  delivered'[j] < delivered'[k]
      <4>1. j \in 1..Len(delivered)
        BY <3>2, <3>6
      <4>2. CASE k \in 1..Len(delivered)
        BY <3>2, <3>6, <4>1, <4>2 DEF DeliveredOrLagged
      <4>3. CASE k = Len(delivered) + 1
        BY <3>2, <3>5, <4>1, <4>3
      <4>4. QED
        BY <3>2, <4>2, <4>3
    <3>7. QED
      BY <3>4, <3>6 DEF DeliveredOrLagged, Given
  <2>3. CASE PollLagged
    <3>1. /\ next' = Oldest /\ lagged' = lagged \union next..(Oldest - 1) /\ delivered' = delivered
          /\ next < Oldest /\ Oldest \in Nat
      BY <2>3, OldestIsSent DEF PollLagged, AsyncTyped
    <3>2. 1..(next' - 1) = 1..(next - 1) \union next..(Oldest - 1)
      BY <2>0, <3>1
    <3>3. next..(Oldest - 1) \intersect 1..(next - 1) = {}
      BY <2>0, <3>1
    <3>4. QED
      BY <3>1, <3>2, <3>3 DEF DeliveredOrLagged
  <2>4. QED
    BY <2>1, <2>2, <2>3 DEF AsyncNext, StreamStep, asyncVars, control, wakers, outcome, chan, SendAndWake, SendersEnd, SetStream,
       Wake, ShutdownStream, LastWake, Poll, LoadState, PollEmpty, PollClosed, Register, Consume
<1>3. QED
  BY <1>1, <1>2, AsyncTypedInvariant, PTL DEF AsyncSpec
===============================================================================
