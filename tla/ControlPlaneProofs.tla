-------------------------- MODULE ControlPlaneProofs --------------------------
(***************************************************************************)
(* What a call on a control handle returns is true, for any clients and    *)
(* any capacity of the channel.  A request is in one place at a time: with *)
(* its client, with a background task, in the channel, or in the hands of  *)
(* the control loop.                                                       *)
(***************************************************************************)
EXTENDS ControlPlane, TLAPS

Queued(r) == \E k \in 1..Len(queue) : queue[k] = r
Waiting(r) == r \in background \/ Queued(r)
Pending(r) == Waiting(r) \/ current = r

\* A request that is on its way has had no outcome, and is untouched until the
\* control loop takes it.
PendingOK ==
    \A r \in Requests : Pending(r) =>
        /\ Id(r) \in Ids /\ r.call <= calls[r.client]
        /\ result[Id(r)] \in {"none", "sent", "cancelled"}
        /\ r.call = calls[r.client] =>
              /\ r = request[r.client] /\ pc[r.client] # "send"
              /\ r.reply => answer[r.client] = "none"
        /\ Waiting(r) => applied[Id(r)] = 0 /\ Id(r) \notin failed

\* No request is in two places.
Unique ==
    /\ \A j, k \in 1..Len(queue) : Id(queue[j]) = Id(queue[k]) => j = k
    /\ \A r \in background :
         /\ \A s \in background : Id(r) = Id(s) => r = s
         /\ \A k \in 1..Len(queue) : Id(queue[k]) # Id(r)
    /\ current # None =>
         /\ \A k \in 1..Len(queue) : Id(queue[k]) # Id(current)
         /\ \A r \in background : Id(r) # Id(current)

\* The parts of the current request that have been applied.
CurrentOK ==
    current # None =>
        IF Id(current) \in failed THEN left = 0
        ELSE applied[Id(current)] + left = current.parts

\* The last request of each client, and what it waits for.
ClientOK ==
    \A c \in Clients :
        /\ calls[c] > 0 => request[c] \in Requests /\ Id(request[c]) = <<c, calls[c]>>
        /\ pc[c] \in {"send", "wait"} =>
              calls[c] > 0 /\ result[<<c, calls[c]>>] = "none"
        /\ pc[c] = "send" =>
              applied[<<c, calls[c]>>] = 0 /\ <<c, calls[c]>> \notin failed /\ answer[c] = "none"
        /\ pc[c] = "wait" => request[c].reply
        /\ pc[c] = "wait" /\ answer[c] = "dropped" =>
              applied[<<c, calls[c]>>] < request[c].parts

\* The calls to come.
FreshOK ==
    \A i \in Ids : i[2] > calls[i[1]] =>
        result[i] = "none" /\ applied[i] = 0 /\ i \notin failed

IInv ==
    /\ TypeOK
    /\ PendingOK /\ Unique /\ CurrentOK
    /\ ClientOK /\ FreshOK
    /\ OutcomeIsTrue /\ NoErrorLost

\* All but the types.
Rest ==
    PendingOK /\ Unique /\ CurrentOK /\ ClientOK /\ FreshOK /\ OutcomeIsTrue /\ NoErrorLost

\* The parts of TypeOK.
ClientTypes ==
    /\ pc \in [Clients -> {"idle", "send", "wait", "ended"}]
    /\ calls \in [Clients -> Nat] /\ \A c \in Clients : calls[c] <= CallsOf(c)
    /\ request \in [Clients -> Requests \union {None}]
    /\ answer \in [Clients -> {"none", "ok", "error", "dropped"}]

ChannelTypes ==
    background \subseteq Requests /\ queue \in Seq(Requests) /\ Len(queue) <= Capacity

LoopTypes ==
    /\ current \in Requests \union {None}
    /\ left \in 0..2
    /\ token \in BOOLEAN /\ ctl \in {"loop", "stopping", "ended"} /\ lastError \in BOOLEAN

Results == {"none", "sent", "ok", "error", "timeout", "unavailable", "cancelled"}

HistoryTypes ==
    /\ result \in [Ids -> Results]
    /\ applied \in [Ids -> 0..2]
    /\ failed \subseteq Ids /\ faults \in 0..MaxFaults

-------------------------------------------------------------------------------
(* Requests and identifiers.                                               *)

LEMMA CallBounds == \A c \in Clients : CallsOf(c) \in Nat
BY ControlAssumption DEF CallsOf

LEMMA Identifiers ==
    /\ \A i \in Ids : i \in Clients \X Nat /\ i = <<i[1], i[2]>> /\ i[2] \in 1..CallsOf(i[1])
    /\ \A c \in Clients, n \in Nat : (1 <= n /\ n <= CallsOf(c)) => <<c, n>> \in Ids
BY CallBounds DEF Ids

\* The type invariant, by the part of the control plane it is about.
LEMMA Types ==
    /\ TypeOK <=> ClientTypes /\ ChannelTypes /\ LoopTypes /\ HistoryTypes
    /\ TypeOK' <=> ClientTypes' /\ ChannelTypes' /\ LoopTypes' /\ HistoryTypes'
BY DEF TypeOK, ClientTypes, ChannelTypes, LoopTypes, HistoryTypes, Results

\* A new request, and the last one of a client.
LEMMA NewRequest ==
    ASSUME ClientTypes, NEW c \in Clients, NEW parts \in 1..2, NEW reply \in BOOLEAN,
           calls[c] < CallsOf(c)
    PROVE  /\ New(c, parts, reply) \in Requests
           /\ Id(New(c, parts, reply)) = <<c, calls[c] + 1>>
           /\ <<c, calls[c] + 1>> \in Ids
<1>1. calls[c] \in Nat /\ CallsOf(c) \in Nat
    BY CallBounds DEF ClientTypes
<1>2. calls[c] + 1 \in Nat /\ 1 <= calls[c] + 1 /\ calls[c] + 1 <= CallsOf(c)
    BY <1>1
<1>3. <<c, calls[c] + 1>> \in Ids
    BY <1>2, Identifiers
<1> QED
    BY <1>1, <1>3 DEF New, Requests, Id

\* The request under way of a client is its last, and has no result yet.
LEMMA LastRequest ==
    ASSUME ClientTypes, ClientOK, NEW c \in Clients, pc[c] \in {"send", "wait"}
    PROVE  /\ request[c] \in Requests /\ request[c] # None
           /\ Id(request[c]) = <<c, calls[c]>>
           /\ request[c].client = c /\ request[c].call = calls[c]
           /\ <<c, calls[c]>> \in Ids
           /\ result[<<c, calls[c]>>] = "none"
<1>1. calls[c] > 0 /\ request[c] \in Requests /\ Id(request[c]) = <<c, calls[c]>>
      /\ result[<<c, calls[c]>>] = "none"
    BY DEF ClientOK
<1>2. calls[c] \in Nat /\ calls[c] <= CallsOf(c)
    BY DEF ClientTypes
<1>3. <<c, calls[c]>> \in Ids
    BY <1>1, <1>2, Identifiers
<1>4. request[c] # None
    BY <1>1, ControlAssumption DEF Requests
<1>5. request[c].client = c /\ request[c].call = calls[c]
    BY <1>1 DEF Id
<1> QED
    BY <1>1, <1>3, <1>4, <1>5

\* A new request keeps the types of the client.
LEMMA CallTypes ==
    ASSUME ClientTypes, NEW c \in Clients, NEW r \in Requests, calls[c] < CallsOf(c),
           calls' = [calls EXCEPT ![c] = @ + 1],
           request' = [request EXCEPT ![c] = r],
           pc' \in [Clients -> {"idle", "send", "wait", "ended"}],
           answer' \in [Clients -> {"none", "ok", "error", "dropped"}]
    PROVE  ClientTypes'
<1>1. calls[c] \in Nat /\ CallsOf(c) \in Nat
    BY CallBounds DEF ClientTypes
<1>2. calls[c] + 1 \in Nat /\ calls[c] + 1 <= CallsOf(c)
    BY <1>1
<1>3. calls' \in [Clients -> Nat] /\ \A d \in Clients : calls'[d] <= CallsOf(d)
    BY <1>2 DEF ClientTypes
<1>4. request' \in [Clients -> Requests \union {None}]
    BY DEF ClientTypes
<1> QED
    BY <1>3, <1>4 DEF ClientTypes

\* The invariant holds initially.
LEMMA InitIInv == Init => IInv
<1> SUFFICES ASSUME Init PROVE IInv
    OBVIOUS
<1> USE ControlAssumption DEF Init
<1>1. TypeOK
    <2>1. ClientTypes
        <3>1. \A c \in Clients : CallsOf(c) \in Nat
            BY CallBounds
        <3> QED
            BY <3>1 DEF ClientTypes
    <2>2. ChannelTypes
        BY DEF ChannelTypes
    <2>3. LoopTypes
        <3>1. token \in BOOLEAN /\ lastError \in BOOLEAN
            BY Zenon
        <3>2. left \in 0..2
            OBVIOUS
        <3> QED
            BY <3>1, <3>2, Zenon DEF LoopTypes
    <2>4. HistoryTypes
        BY DEF HistoryTypes, Results
    <2> QED
        BY <2>1, <2>2, <2>3, <2>4, Types
<1>2. PendingOK /\ Unique /\ CurrentOK
    BY DEF PendingOK, Unique, CurrentOK, Pending, Waiting, Queued, Requests
<1>3. ClientOK /\ FreshOK
    BY DEF ClientOK, FreshOK
<1>4. OutcomeIsTrue
    <2>1. \A i \in Ids : result[i] = "none" /\ i[1] \in Clients /\ pc[i[1]] = "idle"
        BY Identifiers
    <2> QED
        BY <2>1 DEF OutcomeIsTrue, Told
<1>5. NoErrorLost
    BY DEF NoErrorLost
<1> QED
    BY <1>1, <1>2, <1>3, <1>4, <1>5 DEF IInv

-------------------------------------------------------------------------------
(* Type correctness.                                                       *)

\* The current request is one of a client.
LEMMA CurrentRequest ==
    ASSUME LoopTypes, PendingOK, current # None
    PROVE  current \in Requests /\ Id(current) \in Ids
BY DEF LoopTypes, PendingOK, Pending

\* Every step keeps the types.
LEMMA TypeStep == IInv /\ [Next]_vars => TypeOK'
<1> SUFFICES ASSUME IInv, [Next]_vars PROVE TypeOK'
    OBVIOUS
<1>a. /\ ClientTypes /\ ChannelTypes /\ LoopTypes /\ HistoryTypes
      /\ PendingOK /\ CurrentOK /\ ClientOK
    BY Types DEF IInv
<1>b. ASSUME UNCHANGED client PROVE ClientTypes'
    BY <1>a, <1>b DEF ClientTypes, client
<1>c. ASSUME UNCHANGED channel PROVE ChannelTypes'
    BY <1>a, <1>c DEF ChannelTypes, channel
<1>d. ASSUME UNCHANGED <<current, left, shutdown, lastError>> PROVE LoopTypes'
    BY <1>a, <1>d DEF LoopTypes, shutdown
<1>e. ASSUME UNCHANGED <<result, done>> PROVE HistoryTypes'
    BY <1>a, <1>e DEF HistoryTypes, done
<1>1. ASSUME NEW c \in Clients, NEW parts \in 1..2, NEW reply \in BOOLEAN, Call(c, parts, reply)
      PROVE  TypeOK'
    <2>1. New(c, parts, reply) \in Requests
        BY <1>a, <1>1, NewRequest DEF Call
    <2>2. ClientTypes'
        <3>1. /\ pc' \in [Clients -> {"idle", "send", "wait", "ended"}]
              /\ answer' \in [Clients -> {"none", "ok", "error", "dropped"}]
            BY <1>a, <1>1 DEF ClientTypes, Call
        <3> QED
            BY <1>a, <1>1, <2>1, <3>1, CallTypes DEF Call
    <2> QED
        BY <1>c, <1>d, <1>e, <1>1, <2>2, Types DEF Call
<1>2. ASSUME NEW c \in Clients, NEW parts \in 1..2, DispatchNow(c, parts)
      PROVE  TypeOK'
    <2> DEFINE r == New(c, parts, FALSE)
    <2>1. r \in Requests /\ Id(r) \in Ids
        BY <1>a, <1>2, NewRequest DEF DispatchNow
    <2>2. ClientTypes'
        <3>1. /\ pc' \in [Clients -> {"idle", "send", "wait", "ended"}]
              /\ answer' \in [Clients -> {"none", "ok", "error", "dropped"}]
            BY <1>a, <1>2 DEF ClientTypes, DispatchNow
        <3> QED
            BY <1>a, <1>2, <2>1, <3>1, CallTypes DEF DispatchNow
    <2>3. ChannelTypes'
        <3>1. \/ UNCHANGED channel
              \/ queue' = Append(queue, r) /\ Len(queue) < Capacity /\ UNCHANGED background
              \/ background' = background \union {r} /\ UNCHANGED queue
            BY <1>2 DEF DispatchNow
        <3>2. CASE UNCHANGED channel
            BY <1>c, <3>2
        <3>3. CASE queue' = Append(queue, r) /\ Len(queue) < Capacity /\ UNCHANGED background
            <4> HIDE DEF r
            <4> QED
                BY <1>a, <2>1, <3>3, ControlAssumption DEF ChannelTypes
        <3>4. CASE background' = background \union {r} /\ UNCHANGED queue
            BY <1>a, <2>1, <3>4 DEF ChannelTypes
        <3> QED
            BY <3>1, <3>2, <3>3, <3>4
    <2>4. HistoryTypes'
        <3>1. \E how \in Results : result' = [result EXCEPT ![Id(r)] = how]
            BY <1>2 DEF DispatchNow, Results
        <3>2. UNCHANGED done
            BY <1>2 DEF DispatchNow
        <3> QED
            BY <1>a, <2>1, <3>1, <3>2 DEF HistoryTypes, done
    <2> QED
        BY <1>d, <1>2, <2>2, <2>3, <2>4, Types DEF DispatchNow
<1>3. ASSUME NEW c \in Clients, ClientStep(c) \/ Cancel(c)
      PROVE  TypeOK'
    <2>1. pc[c] \in {"send", "wait"}
        BY <1>3, Zenon DEF ClientStep, Sent, TimesOut, Unavailable, Answer, Cancel
    <2>2. request[c] \in Requests /\ Id(request[c]) \in Ids
        BY <1>a, <2>1, LastRequest
    <2>3. UNCHANGED <<calls, request, answer, current, left, shutdown, lastError, done>>
        BY <1>3 DEF ClientStep, Sent, TimesOut, Unavailable, Answer, Cancel, channel
    <2>4. /\ \/ \E how \in Results : Ends(c, how)
             \/ pc' = [pc EXCEPT ![c] = "wait"] /\ UNCHANGED result
        <3>1. CASE Answer(c)
            BY <1>a, <3>1 DEF Answer, ClientTypes, Results
        <3>2. CASE ~Answer(c)
            BY <1>3, <3>2 DEF ClientStep, Sent, TimesOut, Unavailable, Cancel, Results
        <3> QED
            BY <3>1, <3>2
    <2>5. ClientTypes'
        BY <1>a, <2>3, <2>4 DEF ClientTypes, Ends
    <2>6. HistoryTypes'
        BY <1>a, <2>2, <2>3, <2>4 DEF HistoryTypes, Ends, done
    <2>7. ChannelTypes'
        <3>1. \/ UNCHANGED channel
              \/ queue' = Append(queue, request[c]) /\ Len(queue) < Capacity /\ UNCHANGED background
            BY <1>3 DEF ClientStep, Sent, TimesOut, Unavailable, Answer, Cancel
        <3> QED
            BY SMTT(30), <1>a, <1>c, <2>2, <3>1, ControlAssumption DEF ChannelTypes
    <2> QED
        BY <1>d, <2>3, <2>5, <2>6, <2>7, Types
<1>4. ASSUME NEW r \in background, BackgroundSends(r) \/ BackgroundGivesUp(r)
      PROVE  TypeOK'
    <2>1. ChannelTypes'
        <3>1. /\ background' = background \ {r}
              /\ \/ UNCHANGED queue
                 \/ queue' = Append(queue, r) /\ Len(queue) < Capacity
            BY <1>4 DEF BackgroundSends, BackgroundGivesUp
        <3> QED
            BY <1>a, <3>1, ControlAssumption DEF ChannelTypes
    <2> QED
        BY <1>b, <1>d, <1>e, <1>4, <2>1, Types DEF BackgroundSends, BackgroundGivesUp
<1>5. CASE Take
    <2>1. Head(queue) \in Requests /\ Tail(queue) \in Seq(Requests) /\ Len(Tail(queue)) <= Capacity
        BY <1>a, <1>5, ControlAssumption DEF ChannelTypes, Take
    <2>2. ChannelTypes' /\ LoopTypes'
        BY <1>a, <1>5, <2>1 DEF ChannelTypes, LoopTypes, Take, Requests, shutdown
    <2> QED
        BY <1>b, <1>e, <1>5, <2>2, Types DEF Take
<1>6. CASE ApplyPart
    <2>1. current \in Requests /\ Id(current) \in Ids
        BY <1>a, <1>6, CurrentRequest DEF ApplyPart
    <2>2. applied[Id(current)] + left = current.parts
        BY <1>a, <1>6 DEF ApplyPart, CurrentOK
    <2>3. HistoryTypes'
        <3>1. applied[Id(current)] \in 0..2 /\ left \in 0..2 /\ left > 0 /\ current.parts \in 1..2
            BY <1>a, <1>6, <2>1 DEF ApplyPart, HistoryTypes, LoopTypes, Requests
        <3>2. applied[Id(current)] + 1 \in 0..2
            BY <2>2, <3>1
        <3> QED
            BY <1>a, <1>6, <3>2 DEF ApplyPart, HistoryTypes
    <2>4. LoopTypes'
        BY <1>a, <1>6 DEF ApplyPart, LoopTypes, shutdown
    <2> QED
        BY <1>b, <1>c, <1>6, <2>3, <2>4, Types DEF ApplyPart
<1>7. CASE SingleFails \/ MixedFails
    <2>1. Id(current) \in Ids
        BY <1>a, <1>7, CurrentRequest DEF SingleFails, MixedFails, CanFail
    <2>2. HistoryTypes'
        <3>1. /\ faults < MaxFaults /\ faults' = faults + 1
              /\ failed' = failed \union {Id(current)} /\ UNCHANGED <<result, applied>>
            BY <1>7 DEF SingleFails, MixedFails, CanFail
        <3> QED
            BY <1>a, <2>1, <3>1, ControlAssumption DEF HistoryTypes
    <2>3. LoopTypes'
        <3>1. current' \in {current, None} /\ left' = 0 /\ UNCHANGED shutdown
            BY <1>7 DEF SingleFails, MixedFails, Frees
        <3>2. lastError' \in BOOLEAN
            BY <1>a, <1>7 DEF SingleFails, MixedFails, LoopTypes
        <3> QED
            BY <1>a, <3>1, <3>2 DEF LoopTypes, shutdown
    <2>4. ClientTypes'
        BY <1>a, <1>7 DEF SingleFails, MixedFails, ClientTypes, Tells, client
    <2> QED
        BY <1>c, <1>7, <2>2, <2>3, <2>4, Types DEF SingleFails, MixedFails
<1>8. CASE NoReply \/ Respond
    <2>1. LoopTypes'
        <3>1. current' = None /\ left' = 0 /\ UNCHANGED shutdown
            BY <1>8 DEF NoReply, Respond, Frees
        <3>2. lastError' \in BOOLEAN
            BY <1>a, <1>8, Zenon DEF NoReply, Respond, LoopTypes
        <3> QED
            BY <1>a, <3>1, <3>2 DEF LoopTypes, shutdown
    <2>2. ClientTypes'
        BY <1>a, <1>8 DEF NoReply, Respond, ClientTypes, Tells, client
    <2> QED
        BY <1>c, <1>e, <1>8, <2>1, <2>2, Types DEF NoReply, Respond
<1>9. CASE Shutdown \/ Break
    <2>1. LoopTypes'
        BY <1>a, <1>9 DEF LoopTypes, Shutdown, Break
    <2> QED
        BY <1>b, <1>c, <1>e, <1>9, <2>1, Types DEF Shutdown, Break
<1>10. ASSUME NEW c \in Clients, ElementEnds(c) PROVE TypeOK'
    <2>1. ClientTypes'
        BY <1>a, <1>10 DEF ClientTypes, ElementEnds
    <2> QED
        BY <1>c, <1>d, <1>e, <1>10, <2>1, Types DEF ElementEnds
<1>11. CASE EndRun
    <2>1. ClientTypes'
        BY <1>a, <1>11 DEF ClientTypes, EndRun
    <2>2. ChannelTypes'
        BY <1>a, <1>11, ControlAssumption DEF ChannelTypes, EndRun
    <2>3. LoopTypes'
        BY <1>a, <1>11 DEF LoopTypes, EndRun
    <2> QED
        BY <1>e, <1>11, <2>1, <2>2, <2>3, Types DEF EndRun
<1>12. CASE UNCHANGED vars
    BY <1>b, <1>c, <1>d, <1>e, <1>12, Types DEF vars
<1> QED
    BY <1>1, <1>2, <1>3, <1>4, <1>5, <1>6, <1>7, <1>8, <1>9, <1>10, <1>11, <1>12
    DEF Next, Handles, Stops, Ended

-------------------------------------------------------------------------------
(* Requests on their way.                                                  *)

\* What is known of a request that is on its way.
LEMMA PendingFacts ==
    ASSUME IInv, NEW r \in Requests, Pending(r)
    PROVE  /\ r.client \in Clients /\ Id(r) = <<r.client, r.call>> /\ Id(r) \in Ids
           /\ r.call <= calls[r.client]
           /\ result[Id(r)] \in {"none", "sent", "cancelled"}
           /\ \A how \in {"ok", "error"} : ~Told(Id(r), how)
           /\ r.call = calls[r.client] =>
                 /\ r = request[r.client] /\ pc[r.client] # "send"
                 /\ pc[r.client] = "wait" => r.reply /\ answer[r.client] = "none"
           /\ Waiting(r) => applied[Id(r)] = 0 /\ Id(r) \notin failed
<1>1. r.client \in Clients /\ Id(r) = <<r.client, r.call>>
    BY DEF Requests, Id
<1>2. /\ Id(r) \in Ids /\ r.call <= calls[r.client]
      /\ result[Id(r)] \in {"none", "sent", "cancelled"}
      /\ r.call = calls[r.client] =>
            /\ r = request[r.client] /\ pc[r.client] # "send"
            /\ r.reply => answer[r.client] = "none"
      /\ Waiting(r) => applied[Id(r)] = 0 /\ Id(r) \notin failed
    BY DEF IInv, PendingOK
<1>3. r.call = calls[r.client] /\ pc[r.client] = "wait" => r.reply /\ answer[r.client] = "none"
    BY <1>1, <1>2 DEF IInv, ClientOK
<1>4. \A how \in {"ok", "error"} : ~Told(Id(r), how)
    BY <1>1, <1>2, <1>3 DEF Told
<1> QED
    BY <1>1, <1>2, <1>3, <1>4

\* The current request is on its way, and no other one has its identifier.
LEMMA CurrentFacts ==
    ASSUME IInv, current # None
    PROVE  /\ current \in Requests /\ Pending(current)
           /\ \A r \in Requests : Waiting(r) => Id(r) # Id(current)
           /\ left \in 0..2 /\ current.parts \in 1..2 /\ applied[Id(current)] \in 0..2
<1>1. current \in Requests /\ left \in 0..2 /\ current.parts \in 1..2
    BY DEF IInv, TypeOK, Requests
<1>2. Pending(current)
    BY DEF Pending
<1>3. \A r \in Requests : Waiting(r) => Id(r) # Id(current)
    BY DEF IInv, Unique, Waiting, Queued
<1>4. applied[Id(current)] \in 0..2
    BY <1>1, <1>2, PendingFacts DEF IInv, TypeOK
<1> QED
    BY <1>1, <1>2, <1>3, <1>4

\* The elements of the channel.
LEMMA QueueFacts ==
    ASSUME IInv
    PROVE  /\ \A k \in 1..Len(queue) : queue[k] \in Requests /\ Pending(queue[k])
           /\ background \subseteq Requests /\ \A r \in background : Pending(r)
           /\ queue \in Seq(Requests) /\ Len(queue) \in Nat
BY DEF IInv, TypeOK, Pending, Waiting, Queued

\* The elements of a queue after one was added.
LEMMA AppendFacts ==
    ASSUME NEW S, NEW q \in Seq(S), NEW x \in S, NEW p, p = Append(q, x)
    PROVE  /\ Len(p) = Len(q) + 1 /\ p[Len(p)] = x
           /\ \A k \in 1..Len(p) : k = Len(p) \/ (k \in 1..Len(q) /\ p[k] = q[k])
           /\ \A k \in 1..Len(q) : k \in 1..Len(p) /\ p[k] = q[k]
OBVIOUS

\* The elements of a queue after the first was taken.
LEMMA TailFacts ==
    ASSUME NEW S, NEW q \in Seq(S), q # <<>>, NEW p, p = Tail(q)
    PROVE  /\ Head(q) = q[1] /\ 1 \in 1..Len(q)
           /\ \A k \in 1..Len(p) : k + 1 \in 2..Len(q) /\ p[k] = q[k + 1]
OBVIOUS

\* A call that has not been sent is nowhere else.
LEMMA NotSentFacts ==
    ASSUME IInv, NEW c \in Clients, pc[c] = "send"
    PROVE  \A r \in Requests : Pending(r) => Id(r) # <<c, calls[c]>>
<1> SUFFICES ASSUME NEW r \in Requests, Pending(r), Id(r) = <<c, calls[c]>> PROVE FALSE
    OBVIOUS
<1> QED
    BY PendingFacts

\* The call that a client will make is nowhere yet.
LEMMA FreshFacts ==
    ASSUME IInv, NEW c \in Clients, calls[c] < CallsOf(c)
    PROVE  /\ calls[c] \in Nat /\ calls[c] + 1 > calls[c] /\ calls[c] + 1 # calls[c]
           /\ <<c, calls[c] + 1>> \in Ids
           /\ result[<<c, calls[c] + 1>>] = "none"
           /\ applied[<<c, calls[c] + 1>>] = 0 /\ <<c, calls[c] + 1>> \notin failed
           /\ \A r \in Requests : Pending(r) => Id(r) # <<c, calls[c] + 1>>
<1>1. calls[c] \in Nat /\ CallsOf(c) \in Nat
    BY CallBounds DEF IInv, TypeOK
<1>2. <<c, calls[c] + 1>> \in Ids
    BY <1>1, Identifiers
<1>3. calls[c] + 1 > calls[c] /\ calls[c] + 1 # calls[c]
    BY <1>1
<1>4. result[<<c, calls[c] + 1>>] = "none" /\ applied[<<c, calls[c] + 1>>] = 0
      /\ <<c, calls[c] + 1>> \notin failed
    BY <1>2, <1>3 DEF IInv, FreshOK
<1>5. ASSUME NEW r \in Requests, Pending(r), Id(r) = <<c, calls[c] + 1>> PROVE FALSE
    <2>1. r.client = c /\ r.call = calls[c] + 1 /\ r.call <= calls[c]
        BY <1>5, PendingFacts
    <2> QED
        BY <1>1, <2>1
<1> QED
    BY <1>1, <1>2, <1>3, <1>4, <1>5

-------------------------------------------------------------------------------
(* The clients.                                                            *)

\* A call returns, with an outcome that is true.
LEMMA EndsStep ==
    ASSUME IInv, NEW c \in Clients, pc[c] \in {"send", "wait"},
           NEW how, Ends(c, how),
           UNCHANGED <<calls, request, answer, channel, current, left, shutdown, lastError, done>>,
           how = "cancelled" \/ \A r \in Requests : Pending(r) => Id(r) # <<c, calls[c]>>,
           how \in {"ok", "error"} => pc[c] = "wait" /\ answer[c] = how,
           how = "timeout" => applied[<<c, calls[c]>>] = 0 /\ <<c, calls[c]>> \notin failed,
           how = "unavailable" => applied[<<c, calls[c]>>] < request[c].parts,
           pc[c] = "wait" /\ answer[c] = "error" => how \in {"error", "cancelled"}
    PROVE  Rest'
<1> DEFINE id == <<c, calls[c]>>
<1>1. /\ id \in Ids /\ Id(request[c]) = id
      /\ pc' = [pc EXCEPT ![c] = "idle"]
      /\ result' = [result EXCEPT ![id] = how]
      /\ result'[id] = how /\ pc'[c] = "idle"
      /\ \A i \in Ids : i # id => result'[i] = result[i]
      /\ \A d \in Clients : d # c => pc'[d] = pc[d]
    <2>1. ClientTypes /\ ClientOK /\ result \in [Ids -> Results] /\ pc \in [Clients -> {"idle", "send", "wait", "ended"}]
        BY DEF IInv, TypeOK, ClientTypes, Results
    <2>2. id \in Ids /\ Id(request[c]) = id
        BY <2>1, LastRequest
    <2> QED
        BY <2>1, <2>2 DEF Ends
<1>2. /\ UNCHANGED <<calls, request, answer, queue, background, current, left, lastError>>
      /\ UNCHANGED <<applied, failed>>
    BY DEF channel, done
<1>3. \A r \in Requests : (Pending(r)' <=> Pending(r)) /\ (Waiting(r)' <=> Waiting(r))
    BY <1>2 DEF Pending, Waiting, Queued
<1>4. PendingOK'
    <2> SUFFICES ASSUME NEW r \in Requests, Pending(r)
        PROVE  /\ Id(r) \in Ids /\ r.call <= calls[r.client]
               /\ result'[Id(r)] \in {"none", "sent", "cancelled"}
               /\ r.call = calls[r.client] =>
                     /\ r = request[r.client] /\ pc'[r.client] # "send"
                     /\ r.reply => answer[r.client] = "none"
               /\ Waiting(r) => applied[Id(r)] = 0 /\ Id(r) \notin failed
        BY <1>2, <1>3 DEF PendingOK
    <2>1. result'[Id(r)] \in {"none", "sent", "cancelled"}
        BY <1>1, PendingFacts
    <2> QED
        BY <1>1, <2>1, PendingFacts DEF IInv, PendingOK
<1>5. Unique' /\ CurrentOK'
    BY <1>2 DEF IInv, Unique, CurrentOK
<1>6. ClientOK'
    <2> SUFFICES ASSUME NEW d \in Clients
        PROVE  /\ calls[d] > 0 => request[d] \in Requests /\ Id(request[d]) = <<d, calls[d]>>
               /\ pc'[d] \in {"send", "wait"} =>
                     calls[d] > 0 /\ result'[<<d, calls[d]>>] = "none"
               /\ pc'[d] = "send" =>
                     applied[<<d, calls[d]>>] = 0 /\ <<d, calls[d]>> \notin failed /\ answer[d] = "none"
               /\ pc'[d] = "wait" => request[d].reply
               /\ pc'[d] = "wait" /\ answer[d] = "dropped" =>
                     applied[<<d, calls[d]>>] < request[d].parts
        BY <1>2 DEF ClientOK
    <2>1. CASE d = c
        BY <1>1, <2>1 DEF IInv, ClientOK
    <2>2. CASE d # c
        <3>1. pc'[d] = pc[d]
            BY <1>1, <2>2
        <3>2. pc[d] \in {"send", "wait"} => result'[<<d, calls[d]>>] = result[<<d, calls[d]>>]
            BY <1>1, <2>2, LastRequest DEF IInv, TypeOK, ClientTypes
        <3> QED
            BY <3>1, <3>2 DEF IInv, ClientOK
    <2> QED
        BY <2>1, <2>2
<1>7. FreshOK'
    <2>1. ~(id[2] > calls[id[1]])
        BY DEF IInv, TypeOK
    <2> QED
        BY <1>1, <1>2, <2>1 DEF IInv, FreshOK
<1>8. \A i \in Ids : i # id =>
        \A h \in {"ok", "error"} : Told(i, h)' <=> Told(i, h)
    <2> SUFFICES ASSUME NEW i \in Ids, i # id, NEW h \in {"ok", "error"}
        PROVE  Told(i, h)' <=> Told(i, h)
        OBVIOUS
    <2>1. i[1] \in Clients /\ i = <<i[1], i[2]>>
        BY Identifiers
    <2>2. i[1] = c => calls[c] # i[2]
        BY <2>1
    <2> QED
        BY <1>1, <1>2, <2>1, <2>2 DEF Told
<1>9. \A h \in {"ok", "error"} : Told(id, h)' => Told(id, h)
    BY <1>1, <1>2 DEF Told
<1>10. OutcomeIsTrue'
    BY <1>1, <1>2, <1>8, <1>9 DEF IInv, OutcomeIsTrue
<1>11. NoErrorLost'
    <2> SUFFICES ASSUME NEW i \in failed
        PROVE  \/ lastError
               \/ Told(i, "error")' \/ result'[i] = "cancelled"
               \/ current # None /\ Id(current) = i
        BY <1>2 DEF NoErrorLost
    <2>1. \/ lastError
          \/ Told(i, "error") \/ result[i] = "cancelled"
          \/ current # None /\ Id(current) = i
        BY DEF IInv, NoErrorLost
    <2>2. i \in Ids
        BY DEF IInv, TypeOK
    <2>3. CASE i # id
        BY <1>1, <1>8, <2>1, <2>2, <2>3
    <2>4. CASE i = id
        <3>1. result[id] = "none"
            BY DEF IInv, ClientOK
        <3>2. Told(id, "error") => how \in {"error", "cancelled"}
            BY <3>1 DEF Told
        <3> QED
            BY <1>1, <2>1, <2>4, <3>1, <3>2 DEF Told
    <2> QED
        BY <2>3, <2>4
<1> QED
    BY <1>4, <1>5, <1>6, <1>7, <1>10, <1>11 DEF Rest

\* The end of a call, however it ends, keeps the rest of the invariant.
LEMMA ReturnStep ==
    ASSUME IInv, NEW c \in Clients,
           TimesOut(c) \/ Unavailable(c) \/ Answer(c) \/ Cancel(c)
    PROVE  Rest'
<1>1. ClientTypes /\ ClientOK
    BY DEF IInv, TypeOK, ClientTypes
<1>2. CASE TimesOut(c)
    <2>1. applied[<<c, calls[c]>>] = 0 /\ <<c, calls[c]>> \notin failed
        BY <1>1, <1>2 DEF TimesOut, ClientOK
    <2> QED
        BY <1>2, <2>1, NotSentFacts, EndsStep DEF TimesOut
<1>3. CASE Unavailable(c)
    <2>1. applied[<<c, calls[c]>>] = 0
        BY <1>1, <1>3 DEF Unavailable, ClientOK
    <2>2. request[c] \in Requests
        BY <1>1, <1>3, LastRequest DEF Unavailable
    <2>3. applied[<<c, calls[c]>>] < request[c].parts
        BY <2>1, <2>2 DEF Requests
    <2> QED
        BY <1>3, <2>3, NotSentFacts, EndsStep DEF Unavailable
<1>4. CASE Answer(c)
    <2>1. \A r \in Requests : Pending(r) => Id(r) # <<c, calls[c]>>
        <3> SUFFICES ASSUME NEW r \in Requests, Pending(r), Id(r) = <<c, calls[c]>> PROVE FALSE
            OBVIOUS
        <3> QED
            BY <1>4, PendingFacts DEF Answer
    <2>2. answer[c] = "dropped" => applied[<<c, calls[c]>>] < request[c].parts
        BY <1>1, <1>4 DEF Answer, ClientOK
    <2>3. answer[c] \in {"ok", "error", "dropped"}
        BY <1>1, <1>4 DEF Answer, ClientTypes
    <2>4. CASE answer[c] = "dropped"
        BY <1>4, <2>1, <2>2, <2>4, EndsStep DEF Answer
    <2>5. CASE answer[c] # "dropped"
        BY <1>4, <2>1, <2>3, <2>5, EndsStep DEF Answer
    <2> QED
        BY <2>4, <2>5
<1>5. CASE Cancel(c)
    BY <1>5, EndsStep DEF Cancel
<1> QED
    BY <1>2, <1>3, <1>4, <1>5

\* A new call keeps the rest of the invariant.
LEMMA CallStep ==
    ASSUME IInv, NEW c \in Clients, NEW parts \in 1..2, NEW reply \in BOOLEAN,
           Call(c, parts, reply)
    PROVE  Rest'
<1> DEFINE id == <<c, calls[c] + 1>>
<1>1. New(c, parts, reply) \in Requests /\ Id(New(c, parts, reply)) = id
    BY NewRequest DEF IInv, TypeOK, ClientTypes, Call
<1>2. /\ UNCHANGED <<queue, background, current, left, lastError, result, applied, failed>>
      /\ pc[c] = "idle" /\ pc'[c] = "send" /\ answer'[c] = "none" /\ request'[c] = New(c, parts, reply)
      /\ calls'[c] = calls[c] + 1
      /\ \A d \in Clients : d # c => /\ pc'[d] = pc[d] /\ answer'[d] = answer[d]
                                     /\ request'[d] = request[d] /\ calls'[d] = calls[d]
    BY DEF Call, channel, done, IInv, TypeOK
<1>3. /\ calls[c] \in Nat /\ calls[c] + 1 > calls[c] /\ calls[c] + 1 # calls[c]
      /\ id \in Ids /\ result[id] = "none" /\ applied[id] = 0 /\ id \notin failed
      /\ \A r \in Requests : Pending(r) => Id(r) # id
    BY FreshFacts DEF Call
<1>4. \A r \in Requests : (Pending(r)' <=> Pending(r)) /\ (Waiting(r)' <=> Waiting(r))
    BY <1>2 DEF Pending, Waiting, Queued
<1>5. PendingOK'
    <2> SUFFICES ASSUME NEW r \in Requests, Pending(r)
        PROVE  /\ Id(r) \in Ids /\ r.call <= calls'[r.client]
               /\ result[Id(r)] \in {"none", "sent", "cancelled"}
               /\ r.call = calls'[r.client] =>
                     /\ r = request'[r.client] /\ pc'[r.client] # "send"
                     /\ r.reply => answer'[r.client] = "none"
               /\ Waiting(r) => applied[Id(r)] = 0 /\ Id(r) \notin failed
        BY <1>2, <1>4 DEF PendingOK
    <2>1. r.client \in Clients /\ r.call \in Nat /\ Id(r) = <<r.client, r.call>> /\ Id(r) # id
          /\ r.call <= calls[r.client]
        BY <1>3, PendingFacts DEF Requests
    <2>2. CASE r.client = c
        <3>1. r.call <= calls[c] + 1 /\ r.call # calls[c] + 1
            BY <1>3, <2>1, <2>2
        <3> QED
            BY <1>2, <2>2, <3>1, PendingFacts
    <2>3. CASE r.client # c
        BY <1>2, <2>1, <2>3 DEF IInv, PendingOK
    <2> QED
        BY <2>2, <2>3
<1>6. Unique' /\ CurrentOK'
    BY <1>2 DEF IInv, Unique, CurrentOK
<1>7. ClientOK'
    <2> SUFFICES ASSUME NEW d \in Clients
        PROVE  /\ calls'[d] > 0 => request'[d] \in Requests /\ Id(request'[d]) = <<d, calls'[d]>>
               /\ pc'[d] \in {"send", "wait"} =>
                     calls'[d] > 0 /\ result[<<d, calls'[d]>>] = "none"
               /\ pc'[d] = "send" =>
                     applied[<<d, calls'[d]>>] = 0 /\ <<d, calls'[d]>> \notin failed /\ answer'[d] = "none"
               /\ pc'[d] = "wait" => request'[d].reply
               /\ pc'[d] = "wait" /\ answer'[d] = "dropped" =>
                     applied[<<d, calls'[d]>>] < request'[d].parts
        BY <1>2 DEF ClientOK, Id
    <2>1. CASE d = c
        <3>1. calls[c] + 1 > 0
            BY <1>3
        <3> QED
            BY <1>1, <1>2, <1>3, <2>1, <3>1
    <2>2. CASE d # c
        BY <1>2, <2>2 DEF IInv, ClientOK
    <2> QED
        BY <2>1, <2>2
<1>8. FreshOK'
    <2> SUFFICES ASSUME NEW i \in Ids, i[2] > calls'[i[1]]
        PROVE  result[i] = "none" /\ applied[i] = 0 /\ i \notin failed
        BY <1>2 DEF FreshOK
    <2>1. i[1] \in Clients /\ i[2] \in Nat
        BY Identifiers
    <2>2. i[2] > calls[i[1]]
        <3>1. CASE i[1] = c
            <4>1. i[2] > calls[c] + 1
                BY <1>2, <3>1
            <4> QED
                BY <1>3, <2>1, <3>1, <4>1
        <3>2. CASE i[1] # c
            BY <1>2, <2>1, <3>2
        <3> QED
            BY <3>1, <3>2
    <2> QED
        BY <2>2 DEF IInv, FreshOK
<1>9. \A i \in Ids : \A h \in {"ok", "error"} : Told(i, h)' <=> Told(i, h)
    <2> SUFFICES ASSUME NEW i \in Ids, NEW h \in {"ok", "error"}
        PROVE  Told(i, h)' <=> Told(i, h)
        OBVIOUS
    <2>1. i[1] \in Clients
        BY Identifiers
    <2> QED
        BY <1>2, <2>1 DEF Told
<1>10. OutcomeIsTrue'
    <2> SUFFICES ASSUME NEW i \in Ids
        PROVE  /\ Told(i, "ok")' => i \notin failed /\ applied[i] > 0
                             /\ (calls'[i[1]] = i[2] => applied[i] = request'[i[1]].parts)
               /\ Told(i, "error")' => i \in failed
               /\ result[i] = "timeout" => applied[i] = 0 /\ i \notin failed
               /\ result[i] = "unavailable" /\ calls'[i[1]] = i[2] =>
                     applied[i] < request'[i[1]].parts
        BY <1>2 DEF OutcomeIsTrue
    <2>1. i[1] \in Clients /\ i = <<i[1], i[2]>>
        BY Identifiers
    <2>2. CASE i = id
        BY <1>2, <1>3, <1>9, <2>1, <2>2 DEF Told
    <2>3. CASE i # id
        <3>1. calls'[i[1]] = i[2] => calls[i[1]] = i[2] /\ request'[i[1]] = request[i[1]]
            BY <1>2, <2>1, <2>3
        <3> QED
            BY <1>9, <3>1 DEF IInv, OutcomeIsTrue
    <2> QED
        BY <2>2, <2>3
<1>11. NoErrorLost'
    <2>1. failed \subseteq Ids
        BY DEF IInv, TypeOK
    <2> QED
        BY <1>2, <1>9, <2>1 DEF IInv, NoErrorLost
<1> QED
    BY <1>5, <1>6, <1>7, <1>8, <1>10, <1>11 DEF Rest

-------------------------------------------------------------------------------
(* Sending.                                                                *)

\* A request enters the channel.
LEMMA EnterStep ==
    ASSUME IInv, NEW r \in Requests, queue' = Append(queue, r), UNCHANGED current,
           \/ UNCHANGED background /\ \A s \in Requests : Pending(s) => Id(s) # Id(r)
           \/ r \in background /\ background' = background \ {r}
    PROVE  /\ Unique'
           /\ \A s \in Requests : Pending(s)' => Pending(s) \/ s = r
           /\ \A s \in Requests : Waiting(s)' => Waiting(s) \/ s = r
<1>1. queue \in Seq(Requests)
    BY QueueFacts
<1>2. /\ Len(queue') = Len(queue) + 1 /\ queue'[Len(queue')] = r
      /\ \A k \in 1..Len(queue') :
            k = Len(queue') \/ (k \in 1..Len(queue) /\ queue'[k] = queue[k])
    BY <1>1, AppendFacts
<1>3. \A k \in 1..Len(queue) : Id(queue[k]) # Id(r)
    BY QueueFacts DEF IInv, Unique
<1>4. \A s \in background' : s \in background /\ Id(s) # Id(r)
    BY QueueFacts DEF IInv, Unique
<1>5. current # None => Id(current) # Id(r)
    BY CurrentFacts DEF IInv, Unique
<1>6. \A s \in Requests : Queued(s)' => Queued(s) \/ s = r
    BY <1>2 DEF Queued
<1>7. /\ \A s \in Requests : Pending(s)' => Pending(s) \/ s = r
      /\ \A s \in Requests : Waiting(s)' => Waiting(s) \/ s = r
    BY <1>4, <1>6 DEF Pending, Waiting
<1>8. Unique'
    <2>1. \A j, k \in 1..Len(queue') : Id(queue'[j]) = Id(queue'[k]) => j = k
        <3> SUFFICES ASSUME NEW j \in 1..Len(queue'), NEW k \in 1..Len(queue'),
                            Id(queue'[j]) = Id(queue'[k])
            PROVE  j = k
            OBVIOUS
        <3>1. \/ j \in 1..Len(queue) /\ queue'[j] = queue[j]
              \/ j = Len(queue') /\ queue'[j] = r
            BY <1>2
        <3>2. \/ k \in 1..Len(queue) /\ queue'[k] = queue[k]
              \/ k = Len(queue') /\ queue'[k] = r
            BY <1>2
        <3>3. \A a, b \in 1..Len(queue) : Id(queue[a]) = Id(queue[b]) => a = b
            BY DEF IInv, Unique
        <3>4. CASE j \in 1..Len(queue) /\ queue'[j] = queue[j]
            BY <1>3, <3>2, <3>3, <3>4
        <3>5. CASE j = Len(queue') /\ queue'[j] = r
            BY <1>3, <3>2, <3>5
        <3> QED
            BY <3>1, <3>4, <3>5
    <2>2. \A s \in background' : \A t \in background' : Id(s) = Id(t) => s = t
        BY <1>4 DEF IInv, Unique
    <2>3. \A s \in background' : \A k \in 1..Len(queue') : Id(queue'[k]) # Id(s)
        BY <1>2, <1>4 DEF IInv, Unique
    <2>4. current # None =>
            /\ \A k \in 1..Len(queue') : Id(queue'[k]) # Id(current)
            /\ \A s \in background' : Id(s) # Id(current)
        BY <1>2, <1>4, <1>5 DEF IInv, Unique
    <2> QED
        BY <2>1, <2>2, <2>3, <2>4 DEF Unique, Id
<1> QED
    BY <1>7, <1>8

\* A request is left to a background task.
LEMMA LeaveStep ==
    ASSUME IInv, NEW r \in Requests, background' = background \union {r},
           UNCHANGED <<queue, current>>,
           \A s \in Requests : Pending(s) => Id(s) # Id(r)
    PROVE  /\ Unique'
           /\ \A s \in Requests : Pending(s)' => Pending(s) \/ s = r
           /\ \A s \in Requests : Waiting(s)' => Waiting(s) \/ s = r
<1>1. \A k \in 1..Len(queue) : Id(queue[k]) # Id(r)
    BY QueueFacts
<1>2. \A s \in background : Id(s) # Id(r)
    BY QueueFacts
<1>3. current # None => Id(current) # Id(r)
    BY CurrentFacts
<1>4. Unique'
    BY <1>1, <1>2, <1>3 DEF IInv, Unique
<1> QED
    BY <1>4 DEF Pending, Waiting, Queued

\* A request that is dispatched without waiting keeps the rest of the invariant.
LEMMA DispatchStep ==
    ASSUME IInv, NEW c \in Clients, NEW parts \in 1..2, DispatchNow(c, parts)
    PROVE  Rest'
<1> DEFINE id == <<c, calls[c] + 1>>
           r == New(c, parts, FALSE)
<1>1. r \in Requests /\ Id(r) = id /\ r.client = c /\ r.call = calls[c] + 1
      /\ r.parts = parts /\ r.reply = FALSE
    BY NewRequest DEF IInv, TypeOK, ClientTypes, DispatchNow, New
<1>2. /\ UNCHANGED <<pc, answer, current, left, lastError, applied, failed>>
      /\ pc[c] = "idle" /\ request'[c] = r
      /\ calls'[c] = calls[c] + 1
      /\ \A d \in Clients : d # c => request'[d] = request[d] /\ calls'[d] = calls[d]
    BY DEF DispatchNow, done, IInv, TypeOK
<1>3. /\ calls[c] \in Nat /\ calls[c] + 1 > calls[c] /\ calls[c] + 1 # calls[c]
      /\ id \in Ids /\ result[id] = "none" /\ applied[id] = 0 /\ id \notin failed
      /\ \A s \in Requests : Pending(s) => Id(s) # id
    BY FreshFacts DEF DispatchNow
<1>4. /\ result'[id] = IF ctl = "ended" THEN "unavailable" ELSE "sent"
      /\ \A i \in Ids : i # id => result'[i] = result[i]
    BY <1>1, <1>3 DEF DispatchNow, IInv, TypeOK
<1>5. /\ Unique'
      /\ \A s \in Requests : Pending(s)' => Pending(s) \/ (s = r /\ ctl # "ended")
      /\ \A s \in Requests : Waiting(s)' => Waiting(s) \/ (s = r /\ ctl # "ended")
    <2>1. CASE ctl = "ended" /\ UNCHANGED channel
        <3>1. UNCHANGED <<queue, background>>
            BY <2>1 DEF channel
        <3> QED
            BY <1>2, <3>1 DEF IInv, Unique, Pending, Waiting, Queued
    <2>2. CASE ctl # "ended" /\ queue' = Append(queue, r) /\ UNCHANGED background
        <3> HIDE DEF r
        <3> QED
            BY <1>1, <1>2, <1>3, <2>2, EnterStep
    <2>3. CASE ctl # "ended" /\ background' = background \union {r} /\ UNCHANGED queue
        <3> HIDE DEF r
        <3> QED
            BY <1>1, <1>2, <1>3, <2>3, LeaveStep
    <2> QED
        BY <2>1, <2>2, <2>3 DEF DispatchNow
<1> HIDE DEF r
<1>6. PendingOK'
    <2> SUFFICES ASSUME NEW s \in Requests, Pending(s)'
        PROVE  /\ Id(s) \in Ids /\ s.call <= calls'[s.client]
               /\ result'[Id(s)] \in {"none", "sent", "cancelled"}
               /\ s.call = calls'[s.client] =>
                     /\ s = request'[s.client] /\ pc[s.client] # "send"
                     /\ s.reply => answer[s.client] = "none"
               /\ Waiting(s)' => applied[Id(s)] = 0 /\ Id(s) \notin failed
        BY <1>2 DEF PendingOK
    <2>1. CASE s = r /\ ctl # "ended"
        <3>1. s.call <= calls'[s.client]
            BY <1>1, <1>2, <1>3, <2>1
        <3> QED
            BY <1>1, <1>2, <1>3, <1>4, <2>1, <3>1
    <2>2. CASE s # r \/ ctl = "ended"
        <3>1. Pending(s) /\ (Waiting(s)' => Waiting(s))
            BY <1>5, <2>2
        <3>2. s.client \in Clients /\ s.call \in Nat /\ Id(s) = <<s.client, s.call>> /\ Id(s) # id
              /\ s.call <= calls[s.client] /\ Id(s) \in Ids /\ result'[Id(s)] = result[Id(s)]
            BY <1>3, <1>4, <3>1, PendingFacts DEF Requests
        <3>3. CASE s.client = c
            <4>1. s.call <= calls[c] + 1 /\ s.call # calls[c] + 1
                BY <1>3, <3>2, <3>3
            <4> QED
                BY <1>2, <3>1, <3>2, <3>3, <4>1, PendingFacts
        <3>4. CASE s.client # c
            BY <1>2, <3>1, <3>2, <3>4 DEF IInv, PendingOK
        <3> QED
            BY <3>3, <3>4
    <2> QED
        BY <2>1, <2>2
<1>7. CurrentOK'
    BY <1>2 DEF IInv, CurrentOK
<1>8. ClientOK'
    <2> SUFFICES ASSUME NEW d \in Clients
        PROVE  /\ calls'[d] > 0 => request'[d] \in Requests /\ Id(request'[d]) = <<d, calls'[d]>>
               /\ pc[d] \in {"send", "wait"} =>
                     calls'[d] > 0 /\ result'[<<d, calls'[d]>>] = "none"
               /\ pc[d] = "send" =>
                     applied[<<d, calls'[d]>>] = 0 /\ <<d, calls'[d]>> \notin failed /\ answer[d] = "none"
               /\ pc[d] = "wait" => request'[d].reply
               /\ pc[d] = "wait" /\ answer[d] = "dropped" =>
                     applied[<<d, calls'[d]>>] < request'[d].parts
        BY <1>2 DEF ClientOK, Id
    <2>1. CASE d = c
        BY <1>1, <1>2, <2>1
    <2>2. CASE d # c
        <3>1. pc[d] \in {"send", "wait"} => result'[<<d, calls[d]>>] = result[<<d, calls[d]>>]
            BY <1>4, <2>2, LastRequest DEF IInv, TypeOK, ClientTypes
        <3> QED
            BY <1>2, <2>2, <3>1 DEF IInv, ClientOK
    <2> QED
        BY <2>1, <2>2
<1>9. FreshOK'
    <2> SUFFICES ASSUME NEW i \in Ids, i[2] > calls'[i[1]]
        PROVE  result'[i] = "none" /\ applied[i] = 0 /\ i \notin failed
        BY <1>2 DEF FreshOK
    <2>1. i[1] \in Clients /\ i[2] \in Nat
        BY Identifiers
    <2>2. i[2] > calls[i[1]] /\ i # id
        <3>1. CASE i[1] = c
            <4>1. i[2] > calls[c] + 1
                BY <1>2, <3>1
            <4> QED
                BY <1>3, <2>1, <3>1, <4>1
        <3>2. CASE i[1] # c
            BY <1>2, <2>1, <3>2
        <3> QED
            BY <3>1, <3>2
    <2> QED
        BY <1>4, <2>2 DEF IInv, FreshOK
<1>10. \A i \in Ids : \A h \in {"ok", "error"} : Told(i, h)' <=> Told(i, h)
    <2> SUFFICES ASSUME NEW i \in Ids, NEW h \in {"ok", "error"}
        PROVE  Told(i, h)' <=> Told(i, h)
        OBVIOUS
    <2>1. i[1] \in Clients
        BY Identifiers
    <2>2. result'[i] = h <=> result[i] = h
        BY <1>3, <1>4
    <2>3. (calls'[i[1]] = i[2] /\ pc[i[1]] = "wait") <=> (calls[i[1]] = i[2] /\ pc[i[1]] = "wait")
        BY <1>2, <2>1
    <2> QED
        BY <1>2, <2>2, <2>3 DEF Told
<1>11. OutcomeIsTrue'
    <2> SUFFICES ASSUME NEW i \in Ids
        PROVE  /\ Told(i, "ok")' => i \notin failed /\ applied[i] > 0
                             /\ (calls'[i[1]] = i[2] => applied[i] = request'[i[1]].parts)
               /\ Told(i, "error")' => i \in failed
               /\ result'[i] = "timeout" => applied[i] = 0 /\ i \notin failed
               /\ result'[i] = "unavailable" /\ calls'[i[1]] = i[2] =>
                     applied[i] < request'[i[1]].parts
        BY <1>2 DEF OutcomeIsTrue
    <2>1. i[1] \in Clients /\ i = <<i[1], i[2]>>
        BY Identifiers
    <2>2. CASE i = id
        <3>1. ~Told(i, "ok") /\ ~Told(i, "error")
            BY <1>2, <1>3, <2>2 DEF Told
        <3>2. applied[i] < request'[i[1]].parts
            BY <1>1, <1>2, <1>3, <2>2
        <3> QED
            BY <1>3, <1>4, <1>10, <2>2, <3>1, <3>2
    <2>3. CASE i # id
        <3>1. calls'[i[1]] = i[2] => calls[i[1]] = i[2] /\ request'[i[1]] = request[i[1]]
            BY <1>2, <2>1, <2>3
        <3> QED
            BY <1>4, <1>10, <2>3, <3>1 DEF IInv, OutcomeIsTrue
    <2> QED
        BY <2>2, <2>3
<1>12. NoErrorLost'
    <2>1. failed \subseteq Ids
        BY DEF IInv, TypeOK
    <2>2. \A i \in failed : result'[i] = result[i]
        BY <1>3, <1>4, <2>1
    <2> QED
        BY <1>2, <1>10, <2>1, <2>2 DEF IInv, NoErrorLost
<1> QED
    BY <1>5, <1>6, <1>7, <1>8, <1>9, <1>11, <1>12 DEF Rest

\* A request that enters the channel keeps the rest of the invariant.
LEMMA SentStep ==
    ASSUME IInv, NEW c \in Clients, Sent(c)
    PROVE  Rest'
<1> DEFINE id == <<c, calls[c]>>
           r == request[c]
           how == IF r.reply THEN "none" ELSE "sent"
<1>1. /\ r \in Requests /\ Id(r) = id /\ id \in Ids /\ result[id] = "none"
      /\ r.client = c /\ r.call = calls[c]
    BY LastRequest DEF IInv, TypeOK, ClientTypes, Sent
<1>2. /\ UNCHANGED <<calls, request, answer, background, current, left, lastError, applied, failed>>
      /\ pc[c] = "send" /\ queue' = Append(queue, r)
      /\ pc'[c] = IF r.reply THEN "wait" ELSE "idle"
      /\ \A d \in Clients : d # c => pc'[d] = pc[d]
      /\ result'[id] = how
      /\ \A i \in Ids : i # id => result'[i] = result[i]
    BY <1>1 DEF Sent, Ends, done, IInv, TypeOK
<1>3. applied[id] = 0 /\ id \notin failed /\ answer[c] = "none" /\ calls[c] > 0
    BY <1>2 DEF IInv, ClientOK
<1> HIDE DEF r
<1>4. \A s \in Requests : Pending(s) => Id(s) # id
    BY <1>2, NotSentFacts
<1>5. /\ Unique'
      /\ \A s \in Requests : Pending(s)' => Pending(s) \/ s = r
      /\ \A s \in Requests : Waiting(s)' => Waiting(s) \/ s = r
    BY <1>1, <1>2, <1>4, EnterStep
<1>6. PendingOK'
    <2> SUFFICES ASSUME NEW s \in Requests, Pending(s)'
        PROVE  /\ Id(s) \in Ids /\ s.call <= calls[s.client]
               /\ result'[Id(s)] \in {"none", "sent", "cancelled"}
               /\ s.call = calls[s.client] =>
                     /\ s = request[s.client] /\ pc'[s.client] # "send"
                     /\ s.reply => answer[s.client] = "none"
               /\ Waiting(s)' => applied[Id(s)] = 0 /\ Id(s) \notin failed
        BY <1>2 DEF PendingOK
    <2>1. CASE s = r
        <3>1. s.call <= calls[s.client]
            BY <1>1, <2>1 DEF IInv, TypeOK
        <3> QED
            BY <1>1, <1>2, <1>3, <2>1, <3>1 DEF r
    <2>2. CASE s # r
        <3>1. Pending(s) /\ (Waiting(s)' => Waiting(s))
            BY <1>5, <2>2
        <3>2. /\ s.client \in Clients /\ Id(s) = <<s.client, s.call>> /\ Id(s) # id
              /\ Id(s) \in Ids /\ result'[Id(s)] = result[Id(s)]
            BY <1>2, <1>4, <3>1, PendingFacts
        <3>3. s.call = calls[s.client] => pc'[s.client] = pc[s.client]
            BY <1>2, <3>2
        <3> QED
            BY <1>2, <3>1, <3>2, <3>3, PendingFacts DEF IInv, PendingOK
    <2> QED
        BY <2>1, <2>2
<1>7. CurrentOK'
    BY <1>2 DEF IInv, CurrentOK
<1>8. ClientOK'
    <2> SUFFICES ASSUME NEW d \in Clients
        PROVE  /\ calls[d] > 0 => request[d] \in Requests /\ Id(request[d]) = <<d, calls[d]>>
               /\ pc'[d] \in {"send", "wait"} =>
                     calls[d] > 0 /\ result'[<<d, calls[d]>>] = "none"
               /\ pc'[d] = "send" =>
                     applied[<<d, calls[d]>>] = 0 /\ <<d, calls[d]>> \notin failed /\ answer[d] = "none"
               /\ pc'[d] = "wait" => request[d].reply
               /\ pc'[d] = "wait" /\ answer[d] = "dropped" =>
                     applied[<<d, calls[d]>>] < request[d].parts
        BY <1>2 DEF ClientOK
    <2>1. CASE d = c
        BY <1>1, <1>2, <1>3, <2>1 DEF r
    <2>2. CASE d # c
        <3>1. pc[d] \in {"send", "wait"} => result'[<<d, calls[d]>>] = result[<<d, calls[d]>>]
            BY <1>2, <2>2, LastRequest DEF IInv, TypeOK, ClientTypes
        <3> QED
            BY <1>2, <2>2, <3>1 DEF IInv, ClientOK
    <2> QED
        BY <2>1, <2>2
<1>9. FreshOK'
    <2>1. ~(id[2] > calls[id[1]])
        BY DEF IInv, TypeOK
    <2> QED
        BY <1>1, <1>2, <2>1 DEF IInv, FreshOK
<1>10. \A i \in Ids : \A h \in {"ok", "error"} : Told(i, h)' <=> Told(i, h)
    <2> SUFFICES ASSUME NEW i \in Ids, NEW h \in {"ok", "error"}
        PROVE  Told(i, h)' <=> Told(i, h)
        OBVIOUS
    <2>1. i[1] \in Clients /\ i = <<i[1], i[2]>>
        BY Identifiers
    <2>2. CASE i = id
        BY <1>1, <1>2, <1>3, <2>1, <2>2 DEF Told
    <2>3. CASE i # id
        <3>1. i[1] = c => calls[c] # i[2]
            BY <2>1, <2>3
        <3> QED
            BY <1>2, <2>1, <2>3, <3>1 DEF Told
    <2> QED
        BY <2>2, <2>3
<1>11. OutcomeIsTrue'
    <2>1. \A i \in Ids : result'[i] = result[i] \/ (i = id /\ result'[i] \in {"none", "sent"})
        BY <1>2
    <2> QED
        BY <1>2, <1>10, <2>1 DEF IInv, OutcomeIsTrue
<1>12. NoErrorLost'
    <2>1. failed \subseteq Ids
        BY DEF IInv, TypeOK
    <2>2. \A i \in failed : result'[i] = result[i]
        BY <1>2, <1>3, <2>1
    <2> QED
        BY <1>2, <1>10, <2>1, <2>2 DEF IInv, NoErrorLost
<1> QED
    BY <1>5, <1>6, <1>7, <1>8, <1>9, <1>11, <1>12 DEF Rest

\* A step that touches nothing of the requests but the place where one of
\* them is keeps all that does not depend on that place.
LEMMA MoveStep ==
    ASSUME IInv, UNCHANGED <<calls, request, answer, result, applied, failed>>,
           \/ UNCHANGED pc
           \/ \E c \in Clients : pc[c] = "idle" /\ pc' = [pc EXCEPT ![c] = "ended"],
           \A r \in Requests : Pending(r)' => Pending(r),
           \A r \in Requests : Waiting(r)' => Waiting(r),
           Unique', CurrentOK',
           \A i \in failed : lastError \/ (current # None /\ Id(current) = i) =>
                             lastError' \/ (current' # None /\ Id(current)' = i)
    PROVE  Rest'
<1>1. /\ \A c \in Clients : \A x \in {"send", "wait"} : pc'[c] = x <=> pc[c] = x
    BY DEF IInv, TypeOK
<1>2. PendingOK'
    <2> SUFFICES ASSUME NEW r \in Requests, Pending(r)'
        PROVE  /\ Id(r) \in Ids /\ r.call <= calls[r.client]
               /\ result[Id(r)] \in {"none", "sent", "cancelled"}
               /\ r.call = calls[r.client] =>
                     /\ r = request[r.client] /\ pc'[r.client] # "send"
                     /\ r.reply => answer[r.client] = "none"
               /\ Waiting(r)' => applied[Id(r)] = 0 /\ Id(r) \notin failed
        BY DEF PendingOK
    <2>1. Pending(r) /\ (Waiting(r)' => Waiting(r))
        OBVIOUS
    <2> QED
        BY <1>1, <2>1, PendingFacts DEF IInv, PendingOK
<1>3. ClientOK' /\ FreshOK'
    BY <1>1 DEF IInv, ClientOK, FreshOK, Id
<1>4. \A i \in Ids : \A h \in {"ok", "error"} : Told(i, h)' <=> Told(i, h)
    <2> SUFFICES ASSUME NEW i \in Ids, NEW h \in {"ok", "error"}
        PROVE  Told(i, h)' <=> Told(i, h)
        OBVIOUS
    <2>1. i[1] \in Clients
        BY Identifiers
    <2> QED
        BY <1>1, <2>1 DEF Told
<1>5. OutcomeIsTrue'
    BY <1>4 DEF IInv, OutcomeIsTrue
<1>6. NoErrorLost'
    <2>1. failed \subseteq Ids
        BY DEF IInv, TypeOK
    <2> QED
        BY <1>4, <2>1 DEF IInv, NoErrorLost, Id
<1> QED
    BY <1>2, <1>3, <1>5, <1>6 DEF Rest

\* A background sender that sends or gives up keeps the rest of the invariant.
LEMMA BackgroundStep ==
    ASSUME IInv, NEW r \in background, BackgroundSends(r) \/ BackgroundGivesUp(r)
    PROVE  Rest'
<1>1. UNCHANGED <<pc, calls, request, answer, current, left, lastError, result, applied, failed>>
    BY DEF BackgroundSends, BackgroundGivesUp, client, done
<1>2. r \in Requests /\ Waiting(r) /\ Pending(r)
    BY QueueFacts DEF Waiting, Pending
<1>3. /\ Unique'
      /\ \A s \in Requests : Pending(s)' => Pending(s)
      /\ \A s \in Requests : Waiting(s)' => Waiting(s)
    <2>1. CASE BackgroundSends(r)
        <3>1. queue' = Append(queue, r) /\ background' = background \ {r}
            BY <2>1 DEF BackgroundSends
        <3> QED
            BY <1>1, <1>2, <3>1, EnterStep
    <2>2. CASE BackgroundGivesUp(r)
        <3>1. UNCHANGED queue /\ background' = background \ {r}
            BY <2>2 DEF BackgroundGivesUp
        <3>2. Unique'
            BY <1>1, <3>1 DEF IInv, Unique
        <3> QED
            BY <1>1, <3>1, <3>2 DEF Pending, Waiting, Queued
    <2> QED
        BY <2>1, <2>2
<1>4. CurrentOK'
    BY <1>1 DEF IInv, CurrentOK
<1> QED
    BY <1>1, <1>3, <1>4, MoveStep DEF Id

\* A request taken by the control loop keeps the rest of the invariant.
LEMMA TakeStep == IInv /\ Take => Rest'
<1> SUFFICES ASSUME IInv, Take PROVE Rest'
    OBVIOUS
<1>1. /\ UNCHANGED <<pc, calls, request, answer, background, lastError, result, applied, failed>>
      /\ current = None /\ queue # <<>> /\ queue \in Seq(Requests)
      /\ current' = Head(queue) /\ queue' = Tail(queue) /\ left' = Head(queue).parts
    BY QueueFacts DEF Take, client, done
<1>2. /\ Head(queue) = queue[1] /\ 1 \in 1..Len(queue)
      /\ \A k \in 1..Len(queue') : k + 1 \in 2..Len(queue) /\ queue'[k] = queue[k + 1]
    BY <1>1, TailFacts
<1>3. \A k \in 1..Len(queue') : k + 1 \in 1..Len(queue) /\ k + 1 # 1
    BY <1>1, <1>2
<1>4. current' = queue[1] /\ current' \in Requests /\ Waiting(queue[1])
    BY <1>1, <1>2, QueueFacts DEF Waiting, Queued
<1>5. Unique'
    <2>1. \A j, k \in 1..Len(queue') : Id(queue'[j]) = Id(queue'[k]) => j = k
        <3> SUFFICES ASSUME NEW j \in 1..Len(queue'), NEW k \in 1..Len(queue'),
                            Id(queue'[j]) = Id(queue'[k])
            PROVE  j = k
            OBVIOUS
        <3>1. j + 1 = k + 1
            BY <1>2, <1>3 DEF IInv, Unique
        <3> QED
            BY <3>1
    <2>2. \A r \in background :
            /\ \A s \in background : Id(r) = Id(s) => r = s
            /\ \A k \in 1..Len(queue') : Id(queue'[k]) # Id(r)
        BY <1>2, <1>3 DEF IInv, Unique
    <2>3. \A k \in 1..Len(queue') : Id(queue'[k]) # Id(queue[1])
        BY <1>2, <1>3 DEF IInv, Unique
    <2>4. \A r \in background : Id(r) # Id(queue[1])
        BY <1>2 DEF IInv, Unique
    <2> QED
        BY <1>1, <1>4, <2>1, <2>2, <2>3, <2>4 DEF Unique, Id
<1>6. \A s \in Requests : Queued(s)' => Queued(s)
    BY <1>2, <1>3 DEF Queued
<1>7. /\ \A s \in Requests : Pending(s)' => Pending(s)
      /\ \A s \in Requests : Waiting(s)' => Waiting(s)
    BY <1>1, <1>4, <1>6 DEF Pending, Waiting
<1>8. CurrentOK'
    <2>1. applied[Id(queue[1])] = 0 /\ Id(queue[1]) \notin failed
        BY <1>4, <1>1, <1>2, PendingFacts DEF Pending
    <2>2. left' = queue[1].parts /\ queue[1].parts \in 1..2
        BY <1>1, <1>2, <1>4 DEF Requests
    <2>3. applied'[Id(current')] + left' = queue[1].parts /\ Id(current') \notin failed'
        BY <1>1, <1>4, <2>1, <2>2
    <2> QED
        BY <1>4, <2>3 DEF CurrentOK, Id
<1>9. UNCHANGED pc /\ \A i \in failed : lastError \/ (current # None /\ Id(current) = i) =>
            lastError' \/ (current' # None /\ Id(current)' = i)
    BY <1>1
<1> QED
    BY <1>1, <1>5, <1>7, <1>8, <1>9, MoveStep

\* A request without reply keeps the rest of the invariant.
LEMMA NoReplyStep == IInv /\ NoReply => Rest'
<1> SUFFICES ASSUME IInv, NoReply PROVE Rest'
    OBVIOUS
<1>1. /\ UNCHANGED <<pc, calls, request, answer, queue, background, result, applied, failed>>
      /\ lastError' = (lastError \/ Id(current) \in failed) /\ current # None /\ current' = None
    BY DEF NoReply, Handled, Frees, client, channel, done
<1>2. Unique' /\ CurrentOK'
    BY <1>1 DEF IInv, Unique, CurrentOK, Id
<1>3. None \notin Requests
    BY ControlAssumption DEF Requests
<1>4. /\ \A s \in Requests : Pending(s)' => Pending(s)
      /\ \A s \in Requests : Waiting(s)' => Waiting(s)
    BY <1>1, <1>3 DEF Pending, Waiting, Queued
<1>5. \A i \in failed : lastError \/ (current # None /\ Id(current) = i) => lastError'
    BY <1>1
<1> QED
    BY <1>1, <1>2, <1>4, <1>5, MoveStep

\* A shutdown, its end or the end of an element keeps the rest of the invariant.
LEMMA StopStep ==
    ASSUME IInv, Shutdown \/ Break \/ \E c \in Clients : ElementEnds(c)
    PROVE  Rest'
<1>1. /\ UNCHANGED <<calls, request, answer, queue, background, current, left, lastError>>
      /\ UNCHANGED <<result, applied, failed>>
      /\ \/ UNCHANGED pc
         \/ \E c \in Clients : pc[c] = "idle" /\ pc' = [pc EXCEPT ![c] = "ended"]
    BY DEF Shutdown, Break, ElementEnds, client, channel, done
<1>2. Unique' /\ CurrentOK'
    BY <1>1 DEF IInv, Unique, CurrentOK
<1>3. /\ \A s \in Requests : Pending(s)' => Pending(s)
      /\ \A s \in Requests : Waiting(s)' => Waiting(s)
    BY <1>1 DEF Pending, Waiting, Queued
<1>4. \A i \in failed : lastError \/ (current # None /\ Id(current) = i) =>
            lastError' \/ (current' # None /\ Id(current)' = i)
    BY <1>1 DEF Id
<1> QED
    BY <1>1, <1>2, <1>3, <1>4, MoveStep

-------------------------------------------------------------------------------
(* The control loop.                                                       *)

\* The id of the current request is not that of a call that is not on its way.
LEMMA CurrentIsSent ==
    ASSUME IInv, current # None
    PROVE  /\ Id(current) \in Ids /\ Id(current) = <<current.client, current.call>>
           /\ current.client \in Clients
           /\ \A c \in Clients : pc[c] = "send" => <<c, calls[c]>> # Id(current)
           /\ \A c \in Clients : pc[c] = "wait" /\ answer[c] # "none" =>
                                    <<c, calls[c]>> # Id(current)
           /\ ~(Id(current)[2] > calls[Id(current)[1]])
           /\ \A how \in {"ok", "error"} : ~Told(Id(current), how)
           /\ result[Id(current)] \in {"none", "sent", "cancelled"}
<1>1. current \in Requests /\ Pending(current)
    BY CurrentFacts
<1>2. /\ Id(current) \in Ids /\ Id(current) = <<current.client, current.call>>
      /\ current.client \in Clients /\ current.call <= calls[current.client]
      /\ \A how \in {"ok", "error"} : ~Told(Id(current), how)
      /\ result[Id(current)] \in {"none", "sent", "cancelled"}
      /\ current.call = calls[current.client] =>
             /\ pc[current.client] # "send"
             /\ pc[current.client] = "wait" => answer[current.client] = "none"
    BY <1>1, PendingFacts
<1>3. ~(current.call > calls[current.client])
    BY <1>1, <1>2 DEF IInv, TypeOK, Requests
<1> QED
    BY <1>2, <1>3

\* A part of a request that succeeds keeps the rest of the invariant.
LEMMA ApplyStep == IInv /\ ApplyPart => Rest'
<1> SUFFICES ASSUME IInv, ApplyPart PROVE Rest'
    OBVIOUS
<1> DEFINE id == Id(current)
<1>1. /\ UNCHANGED <<pc, calls, request, answer, queue, background, current, lastError, result, failed>>
      /\ current # None /\ left > 0 /\ left' = left - 1
    BY DEF ApplyPart, client, channel
<1>2. /\ id \in Ids /\ ~(id[2] > calls[id[1]])
      /\ \A c \in Clients : pc[c] = "send" => <<c, calls[c]>> # id
      /\ \A c \in Clients : pc[c] = "wait" /\ answer[c] # "none" => <<c, calls[c]>> # id
      /\ \A how \in {"ok", "error"} : ~Told(id, how)
      /\ result[id] \in {"none", "sent", "cancelled"}
    BY <1>1, CurrentIsSent
<1>3. /\ current \in Requests /\ left \in 0..2 /\ applied[id] \in 0..2 /\ current.parts \in 1..2
      /\ \A r \in Requests : Waiting(r) => Id(r) # id
    BY <1>1, CurrentFacts
<1>4. /\ applied'[id] = applied[id] + 1
      /\ \A i \in Ids : i # id => applied'[i] = applied[i]
    BY <1>2 DEF ApplyPart, IInv, TypeOK
<1>5. id \notin failed /\ applied[id] + left = current.parts
    BY <1>1 DEF IInv, CurrentOK
<1>6. \A r \in Requests : (Pending(r)' <=> Pending(r)) /\ (Waiting(r)' <=> Waiting(r))
    BY <1>1 DEF Pending, Waiting, Queued
<1>7. PendingOK'
    BY <1>1, <1>3, <1>4, <1>6 DEF IInv, PendingOK, Id
<1>8. Unique'
    BY <1>1 DEF IInv, Unique
<1>9. CurrentOK'
    <2>1. (applied[id] + 1) + (left - 1) = current.parts
        BY <1>3, <1>5
    <2>2. applied'[id] + left' = current.parts
        BY <1>1, <1>4, <2>1
    <2> QED
        BY <1>1, <1>5, <2>2 DEF CurrentOK, Id
<1>10. ClientOK'
    <2> SUFFICES ASSUME NEW c \in Clients
        PROVE  /\ pc[c] = "send" => applied'[<<c, calls[c]>>] = 0
               /\ pc[c] = "wait" /\ answer[c] = "dropped" =>
                     applied'[<<c, calls[c]>>] < request[c].parts
        BY <1>1 DEF IInv, ClientOK, Id
    <2>1. pc[c] \in {"send", "wait"} => <<c, calls[c]>> \in Ids
        BY LastRequest DEF IInv, TypeOK, ClientTypes
    <2> QED
        BY <1>2, <1>4, <2>1 DEF IInv, ClientOK
<1>11. FreshOK'
    BY <1>1, <1>2, <1>4 DEF IInv, FreshOK
<1>12. \A i \in Ids : \A h \in {"ok", "error"} : Told(i, h)' <=> Told(i, h)
    BY <1>1 DEF Told
<1>13. OutcomeIsTrue'
    <2> SUFFICES ASSUME NEW i \in Ids
        PROVE  /\ Told(i, "ok")' => i \notin failed /\ applied'[i] > 0
                             /\ (calls[i[1]] = i[2] => applied'[i] = request[i[1]].parts)
               /\ Told(i, "error")' => i \in failed
               /\ result[i] = "timeout" => applied'[i] = 0 /\ i \notin failed
               /\ result[i] = "unavailable" /\ calls[i[1]] = i[2] =>
                     applied'[i] < request[i[1]].parts
        BY <1>1 DEF OutcomeIsTrue
    <2>1. CASE i = id
        BY <1>2, <1>12, <2>1
    <2>2. CASE i # id
        BY <1>4, <1>12, <2>2 DEF IInv, OutcomeIsTrue
    <2> QED
        BY <2>1, <2>2
<1>14. NoErrorLost'
    <2>1. failed \subseteq Ids
        BY DEF IInv, TypeOK
    <2> QED
        BY <1>1, <1>12, <2>1 DEF IInv, NoErrorLost, Id
<1> QED
    BY <1>7, <1>8, <1>9, <1>10, <1>11, <1>13, <1>14 DEF Rest

\* A request of one part that fails keeps the rest of the invariant.
LEMMA SingleFailsStep == IInv /\ SingleFails => Rest'
<1> SUFFICES ASSUME IInv, SingleFails PROVE Rest'
    OBVIOUS
<1> DEFINE id == Id(current)
<1>1. /\ UNCHANGED <<pc, calls, request, answer, queue, background, current, lastError>>
      /\ UNCHANGED <<result, applied>>
      /\ current # None /\ left' = 0 /\ failed' = failed \union {id}
    BY DEF SingleFails, CanFail, client, channel
<1>2. /\ id \in Ids /\ ~(id[2] > calls[id[1]])
      /\ \A c \in Clients : pc[c] = "send" => <<c, calls[c]>> # id
      /\ \A how \in {"ok", "error"} : ~Told(id, how)
      /\ result[id] \in {"none", "sent", "cancelled"}
    BY <1>1, CurrentIsSent
<1>3. \A r \in Requests : Waiting(r) => Id(r) # id
    BY <1>1, CurrentFacts
<1>4. \A r \in Requests : (Pending(r)' <=> Pending(r)) /\ (Waiting(r)' <=> Waiting(r))
    BY <1>1 DEF Pending, Waiting, Queued
<1>5. PendingOK'
    BY <1>1, <1>3, <1>4 DEF IInv, PendingOK, Id
<1>6. Unique' /\ CurrentOK'
    BY <1>1 DEF IInv, Unique, CurrentOK, Id
<1>7. ClientOK'
    BY <1>1, <1>2 DEF IInv, ClientOK, Id
<1>8. FreshOK'
    BY <1>1, <1>2 DEF IInv, FreshOK
<1>9. \A i \in Ids : \A h \in {"ok", "error"} : Told(i, h)' <=> Told(i, h)
    BY <1>1 DEF Told
<1>10. OutcomeIsTrue'
    BY <1>1, <1>2, <1>9 DEF IInv, OutcomeIsTrue
<1>11. NoErrorLost'
    <2>1. failed \subseteq Ids
        BY DEF IInv, TypeOK
    <2> QED
        BY <1>1, <1>9, <2>1 DEF IInv, NoErrorLost, Id
<1> QED
    BY <1>5, <1>6, <1>7, <1>8, <1>10, <1>11 DEF Rest

\* A client that listens waits for the answer to the request, its last one.
LEMMA ListensFacts ==
    ASSUME IInv, current # None
    PROVE  \/ ~Listens(current)
           \/ /\ current.client \in Clients /\ pc[current.client] = "wait"
              /\ Id(current) = <<current.client, calls[current.client]>>
              /\ current = request[current.client] /\ answer[current.client] = "none"
<1>1. current \in Requests /\ Pending(current)
    BY CurrentFacts
<1> QED
    BY <1>1, PendingFacts DEF Listens

\* The request is no longer in the hands of the control loop, and its client,
\* if it listens, has been told how it ended.
LEMMA TellsStep ==
    ASSUME IInv, current # None, NEW how \in {"ok", "error", "dropped"}, Tells(current, how),
           UNCHANGED <<pc, calls, request, queue, background, result, applied>>,
           current' = None, lastError => lastError',
           failed' = failed \union {Id(current)} \/ UNCHANGED failed,
           Listens(current) /\ how = "ok" =>
               Id(current) \notin failed' /\ applied[Id(current)] = current.parts,
           Listens(current) /\ how = "error" => Id(current) \in failed',
           Listens(current) /\ how = "dropped" => applied[Id(current)] < current.parts,
           Id(current) \in failed' => lastError' \/ (Listens(current) /\ how = "error")
    PROVE  Rest'
<1> DEFINE id == Id(current)
           c == current.client
<1>1. /\ id \in Ids /\ ~(id[2] > calls[id[1]]) /\ c \in Clients /\ id = <<c, current.call>>
      /\ \A d \in Clients : pc[d] = "send" => <<d, calls[d]>> # id
      /\ \A h \in {"ok", "error"} : ~Told(id, h)
      /\ result[id] \in {"none", "sent", "cancelled"}
    BY CurrentIsSent
<1>2. \A r \in Requests : Waiting(r) => Id(r) # id
    BY CurrentFacts
<1>3. /\ current.parts > 0
      /\ \A d \in Clients : d # c \/ ~Listens(current) => answer'[d] = answer[d]
      /\ Listens(current) => answer'[c] = how
    <2>1. current.parts > 0
        BY CurrentFacts
    <2>2. answer \in [Clients -> {"none", "ok", "error", "dropped"}]
        BY DEF IInv, TypeOK
    <2> QED
        BY <1>1, <2>1, <2>2 DEF Tells
<1>4. Listens(current) => /\ pc[c] = "wait" /\ id = <<c, calls[c]>>
                          /\ current = request[c] /\ answer[c] = "none"
    BY ListensFacts
<1>5. None \notin Requests
    BY ControlAssumption DEF Requests
<1>6. \A r \in Requests : (Pending(r)' => Waiting(r)) /\ (Waiting(r)' <=> Waiting(r))
    BY <1>5 DEF Pending, Waiting, Queued
<1>7. PendingOK'
    <2> SUFFICES ASSUME NEW r \in Requests, Waiting(r)
        PROVE  /\ Id(r) \in Ids /\ r.call <= calls[r.client]
               /\ result[Id(r)] \in {"none", "sent", "cancelled"}
               /\ r.call = calls[r.client] =>
                     /\ r = request[r.client] /\ pc[r.client] # "send"
                     /\ r.reply => answer'[r.client] = "none"
               /\ applied[Id(r)] = 0 /\ Id(r) \notin failed'
        BY <1>6 DEF PendingOK
    <2>1. /\ Pending(r) /\ r.client \in Clients /\ Id(r) = <<r.client, r.call>> /\ Id(r) # id
        BY <1>2, PendingFacts DEF Pending
    <2>2. r.call = calls[r.client] => answer'[r.client] = answer[r.client]
        BY <1>3, <1>4, <2>1
    <2> QED
        BY <2>1, <2>2, PendingFacts DEF IInv, PendingOK
<1>8. Unique' /\ CurrentOK'
    BY DEF IInv, Unique, CurrentOK, Id
<1>9. ClientOK'
    <2> SUFFICES ASSUME NEW d \in Clients
        PROVE  /\ calls[d] > 0 => request[d] \in Requests /\ Id(request[d]) = <<d, calls[d]>>
               /\ pc[d] \in {"send", "wait"} =>
                     calls[d] > 0 /\ result[<<d, calls[d]>>] = "none"
               /\ pc[d] = "send" =>
                     applied[<<d, calls[d]>>] = 0 /\ <<d, calls[d]>> \notin failed' /\ answer'[d] = "none"
               /\ pc[d] = "wait" => request[d].reply
               /\ pc[d] = "wait" /\ answer'[d] = "dropped" =>
                     applied[<<d, calls[d]>>] < request[d].parts
        BY DEF ClientOK, Id
    <2>1. /\ calls[d] > 0 => request[d] \in Requests /\ Id(request[d]) = <<d, calls[d]>>
          /\ pc[d] \in {"send", "wait"} => calls[d] > 0 /\ result[<<d, calls[d]>>] = "none"
          /\ pc[d] = "wait" => request[d].reply
        BY DEF IInv, ClientOK
    <2>2. pc[d] = "send" =>
             applied[<<d, calls[d]>>] = 0 /\ <<d, calls[d]>> \notin failed' /\ answer'[d] = "none"
        BY <1>1, <1>3, <1>4 DEF IInv, ClientOK
    <2>3. pc[d] = "wait" /\ answer'[d] = "dropped" => applied[<<d, calls[d]>>] < request[d].parts
        BY <1>3, <1>4 DEF IInv, ClientOK
    <2> QED
        BY <2>1, <2>2, <2>3
<1>10. FreshOK'
    BY <1>1 DEF IInv, FreshOK
<1>11. /\ \A i \in Ids : \A h \in {"ok", "error"} : i # id => (Told(i, h)' <=> Told(i, h))
       /\ \A i \in Ids : \A h \in {"ok", "error"} :
             i = id => (Told(i, h)' <=> Listens(current) /\ how = h)
    <2>1. \A i \in Ids : \A h \in {"ok", "error"} : i # id => (Told(i, h)' <=> Told(i, h))
        <3> SUFFICES ASSUME NEW i \in Ids, i # id, NEW h \in {"ok", "error"}
            PROVE  Told(i, h)' <=> Told(i, h)
            OBVIOUS
        <3>1. i[1] \in Clients /\ i = <<i[1], i[2]>>
            BY Identifiers
        <3>2. calls[i[1]] = i[2] => answer'[i[1]] = answer[i[1]]
            BY <1>3, <1>4, <3>1
        <3> QED
            BY <3>2 DEF Told
    <2>2. \A i \in Ids : \A h \in {"ok", "error"} :
             i = id => (Told(i, h)' <=> Listens(current) /\ how = h)
        <3> SUFFICES ASSUME NEW i \in Ids, i = id, NEW h \in {"ok", "error"}
            PROVE  Told(i, h)' <=> Listens(current) /\ how = h
            OBVIOUS
        <3>a. i[1] = c /\ result[i] # h /\ ~Told(i, h)
            BY <1>1
        <3>1. CASE Listens(current)
            BY <1>1, <1>3, <1>4, <3>a, <3>1 DEF Told
        <3>2. CASE ~Listens(current)
            BY <1>1, <1>3, <3>a, <3>2 DEF Told
        <3> QED
            BY <3>1, <3>2
    <2> QED
        BY <2>1, <2>2
<1>12. OutcomeIsTrue'
    <2> SUFFICES ASSUME NEW i \in Ids
        PROVE  /\ Told(i, "ok")' => i \notin failed' /\ applied[i] > 0
                             /\ (calls[i[1]] = i[2] => applied[i] = request[i[1]].parts)
               /\ Told(i, "error")' => i \in failed'
               /\ result[i] = "timeout" => applied[i] = 0 /\ i \notin failed'
               /\ result[i] = "unavailable" /\ calls[i[1]] = i[2] =>
                     applied[i] < request[i[1]].parts
        BY DEF OutcomeIsTrue
    <2>1. CASE i = id
        BY <1>1, <1>3, <1>4, <1>11, <2>1
    <2>2. CASE i # id
        BY <1>11, <2>2 DEF IInv, OutcomeIsTrue
    <2> QED
        BY <2>1, <2>2
<1>13. NoErrorLost'
    <2> SUFFICES ASSUME NEW i \in failed'
        PROVE  lastError' \/ Told(i, "error")' \/ result[i] = "cancelled"
        BY DEF NoErrorLost
    <2>1. i \in Ids
        BY <1>1 DEF IInv, TypeOK
    <2>2. CASE i = id
        BY <1>11, <2>1, <2>2
    <2>3. CASE i # id
        <3>1. i \in failed
            BY <2>3
        <3>2. lastError \/ Told(i, "error") \/ result[i] = "cancelled"
            BY <2>3, <3>1 DEF IInv, NoErrorLost
        <3>3. Told(i, "error") => Told(i, "error")'
            BY <1>11, <2>1, <2>3
        <3> QED
            BY <3>2, <3>3
    <2> QED
        BY <2>2, <2>3
<1> QED
    BY <1>7, <1>8, <1>9, <1>10, <1>12, <1>13 DEF Rest

\* A part of a mixed request that fails keeps the rest of the invariant.
LEMMA MixedFailsStep == IInv /\ MixedFails => Rest'
<1> SUFFICES ASSUME IInv, MixedFails PROVE Rest'
    OBVIOUS
<1>1. current # None /\ left > 0 /\ lastError' = TRUE
    BY DEF MixedFails, CanFail
<1>2. applied[Id(current)] < current.parts
    <2>1. applied[Id(current)] + left = current.parts
        BY <1>1 DEF IInv, CurrentOK
    <2> QED
        BY <1>1, <2>1, CurrentFacts
<1>3. /\ UNCHANGED <<pc, calls, request, queue, background, result, applied>> /\ current' = None
      /\ failed' = failed \union {Id(current)} /\ Tells(current, "dropped")
    BY DEF MixedFails, Frees, channel
<1> QED
    BY <1>1, <1>2, <1>3, TellsStep

\* An answer of the control loop keeps the rest of the invariant.
LEMMA RespondStep == IInv /\ Respond => Rest'
<1> SUFFICES ASSUME IInv, Respond PROVE Rest'
    OBVIOUS
<1> DEFINE how == IF Id(current) \in failed THEN "error" ELSE "ok"
<1>1. current # None /\ left = 0 /\ lastError' = (lastError \/ ~Listens(current))
    BY DEF Respond, Handled
<1>2. /\ UNCHANGED <<pc, calls, request, queue, background, result, applied, failed>>
      /\ current' = None /\ Tells(current, how)
    BY DEF Respond, Frees, channel, done
<1>3. Id(current) \notin failed => applied[Id(current)] = current.parts
    <2>1. Id(current) \notin failed => applied[Id(current)] + left = current.parts
        BY <1>1 DEF IInv, CurrentOK
    <2> QED
        BY <1>1, <2>1, CurrentFacts
<1>4. how \in {"ok", "error", "dropped"} /\ how # "dropped"
      /\ (how = "ok" <=> Id(current) \notin failed)
    OBVIOUS
<1> HIDE DEF how
<1> QED
    BY <1>1, <1>2, <1>3, <1>4, TellsStep

\* The end of the control loop keeps the rest of the invariant.
LEMMA EndRunStep == IInv /\ EndRun => Rest'
<1> SUFFICES ASSUME IInv, EndRun PROVE Rest'
    OBVIOUS
<1> DEFINE Drops(c) == \E k \in 1..Len(queue) : queue[k].client = c /\ Listens(queue[k])
<1>1. /\ UNCHANGED <<pc, calls, request, background, current, left, lastError>>
      /\ UNCHANGED <<result, applied, failed>> /\ queue' = <<>>
      /\ \A c \in Clients : answer'[c] = IF Drops(c) THEN "dropped" ELSE answer[c]
    BY DEF EndRun, done
<1>2. \A c \in Clients : Drops(c) =>
          \E r \in Requests :
              /\ Queued(r) /\ Id(r) = <<c, calls[c]>> /\ r = request[c] /\ pc[c] = "wait"
              /\ answer[c] = "none" /\ applied[<<c, calls[c]>>] = 0
    <2> SUFFICES ASSUME NEW c \in Clients, NEW k \in 1..Len(queue),
                        queue[k].client = c, Listens(queue[k])
        PROVE  LET r == queue[k]
               IN  /\ r \in Requests /\ Queued(r) /\ Id(r) = <<c, calls[c]>> /\ r = request[c]
                   /\ pc[c] = "wait" /\ answer[c] = "none" /\ applied[<<c, calls[c]>>] = 0
        OBVIOUS
    <2>1. queue[k] \in Requests /\ Pending(queue[k]) /\ Queued(queue[k]) /\ Waiting(queue[k])
        BY QueueFacts DEF Queued, Waiting
    <2> QED
        BY <2>1, PendingFacts DEF Listens
<1>3. \A r \in Requests : /\ Pending(r)' => Pending(r) /\ ~Queued(r)
                          /\ Waiting(r)' => Waiting(r)
    <2>1. \A r \in Requests : Pending(r)' <=> r \in background \/ current = r
        BY <1>1 DEF Pending, Waiting, Queued
    <2>2. \A r \in Requests : Waiting(r)' <=> r \in background
        BY <1>1 DEF Waiting, Queued
    <2>3. \A r \in Requests : r \in background \/ current = r => ~Queued(r)
        <3> SUFFICES ASSUME NEW r \in Requests, r \in background \/ current = r,
                            NEW k \in 1..Len(queue), queue[k] = r
            PROVE  FALSE
            BY DEF Queued
        <3>1. current = r => current # None
            BY ControlAssumption DEF Requests
        <3> QED
            BY <3>1 DEF IInv, Unique
    <2> QED
        BY <2>1, <2>2, <2>3 DEF Pending, Waiting
<1>4. \A r, s \in Requests : Pending(r)' /\ Queued(s) => Id(r) # Id(s)
    <2> SUFFICES ASSUME NEW r \in Requests, NEW s \in Requests, Pending(r)', Queued(s), Id(r) = Id(s)
        PROVE  FALSE
        OBVIOUS
    <2>1. r \in background \/ current = r
        BY <1>1 DEF Pending, Waiting, Queued
    <2>2. current = r => current # None
        BY ControlAssumption DEF Requests
    <2> QED
        BY <2>1, <2>2 DEF IInv, Unique, Queued
<1> HIDE DEF Drops
<1>5. PendingOK'
    <2> SUFFICES ASSUME NEW r \in Requests, Pending(r)'
        PROVE  /\ Id(r) \in Ids /\ r.call <= calls[r.client]
               /\ result[Id(r)] \in {"none", "sent", "cancelled"}
               /\ r.call = calls[r.client] =>
                     /\ r = request[r.client] /\ pc[r.client] # "send"
                     /\ r.reply => answer'[r.client] = "none"
               /\ Waiting(r)' => applied[Id(r)] = 0 /\ Id(r) \notin failed
        BY <1>1 DEF PendingOK
    <2>1. /\ Pending(r) /\ (Waiting(r)' => Waiting(r))
          /\ r.client \in Clients /\ Id(r) = <<r.client, r.call>>
        BY <1>3, PendingFacts
    <2>2. r.call = calls[r.client] => ~Drops(r.client)
        BY <1>2, <1>4, <2>1
    <2> QED
        BY <1>1, <2>1, <2>2, PendingFacts DEF IInv, PendingOK
<1>6. Unique' /\ CurrentOK'
    BY <1>1 DEF IInv, Unique, CurrentOK
<1>7. ClientOK'
    <2> SUFFICES ASSUME NEW d \in Clients
        PROVE  /\ pc[d] = "send" => answer'[d] = "none"
               /\ pc[d] = "wait" /\ answer'[d] = "dropped" =>
                     applied[<<d, calls[d]>>] < request[d].parts
        BY <1>1 DEF IInv, ClientOK, Id
    <2>1. CASE Drops(d)
        BY <1>1, <1>2, <2>1 DEF Requests
    <2>2. CASE ~Drops(d)
        BY <1>1, <2>2 DEF IInv, ClientOK
    <2> QED
        BY <2>1, <2>2
<1>8. FreshOK'
    BY <1>1 DEF IInv, FreshOK
<1>9. \A i \in Ids : \A h \in {"ok", "error"} : Told(i, h)' <=> Told(i, h)
    <2> SUFFICES ASSUME NEW i \in Ids, NEW h \in {"ok", "error"}
        PROVE  Told(i, h)' <=> Told(i, h)
        OBVIOUS
    <2>1. i[1] \in Clients
        BY Identifiers
    <2>2. Drops(i[1]) => answer[i[1]] = "none" /\ answer'[i[1]] = "dropped"
        BY <1>1, <1>2, <2>1
    <2>3. ~Drops(i[1]) => answer'[i[1]] = answer[i[1]]
        BY <1>1, <2>1
    <2>4. answer'[i[1]] = h <=> answer[i[1]] = h
        BY <2>2, <2>3
    <2> QED
        BY <1>1, <2>4 DEF Told
<1>10. OutcomeIsTrue'
    BY <1>1, <1>9 DEF IInv, OutcomeIsTrue
<1>11. NoErrorLost'
    <2>1. failed \subseteq Ids
        BY DEF IInv, TypeOK
    <2> QED
        BY <1>1, <1>9, <2>1 DEF IInv, NoErrorLost, Id
<1> QED
    BY <1>5, <1>6, <1>7, <1>8, <1>10, <1>11 DEF Rest

-------------------------------------------------------------------------------
(* The theorems.                                                           *)

LEMMA RestStep == IInv /\ [Next]_vars => Rest'
<1> SUFFICES ASSUME IInv, [Next]_vars PROVE Rest'
    OBVIOUS
<1>1. ASSUME NEW c \in Clients, NEW parts \in 1..2, NEW reply \in BOOLEAN, Call(c, parts, reply)
      PROVE  Rest'
    BY <1>1, CallStep
<1>2. ASSUME NEW c \in Clients, NEW parts \in 1..2, DispatchNow(c, parts)
      PROVE  Rest'
    BY <1>2, DispatchStep
<1>3. ASSUME NEW c \in Clients, ClientStep(c) \/ Cancel(c) PROVE Rest'
    BY <1>3, SentStep, ReturnStep DEF ClientStep
<1>4. ASSUME NEW r \in background, BackgroundSends(r) \/ BackgroundGivesUp(r) PROVE Rest'
    BY <1>4, BackgroundStep
<1>5. CASE Handles
    BY <1>5, TakeStep, ApplyStep, SingleFailsStep, MixedFailsStep, NoReplyStep, RespondStep
    DEF Handles
<1>6. CASE Shutdown \/ Stops
    BY <1>6, StopStep, EndRunStep DEF Stops
<1>7. CASE UNCHANGED vars
    <2>1. /\ UNCHANGED <<pc, calls, request, answer, queue, background, current, left, lastError>>
          /\ UNCHANGED <<result, applied, failed>>
        BY <1>7 DEF vars, client, channel, done
    <2>2. Unique' /\ CurrentOK'
        BY <2>1 DEF IInv, Unique, CurrentOK
    <2>3. /\ \A s \in Requests : Pending(s)' => Pending(s)
          /\ \A s \in Requests : Waiting(s)' => Waiting(s)
        BY <2>1 DEF Pending, Waiting, Queued
    <2>4. \A i \in failed : lastError \/ (current # None /\ Id(current) = i) =>
                lastError' \/ (current' # None /\ Id(current)' = i)
        BY <2>1 DEF Id
    <2> QED
        BY <2>1, <2>2, <2>3, <2>4, MoveStep
<1> QED
    BY <1>1, <1>2, <1>3, <1>4, <1>5, <1>6, <1>7 DEF Next, Ended

\* The strengthening is an invariant: a request is in one place at a time, its
\* call has no outcome while it is on its way, and nothing of it is applied
\* before the control loop takes it (handle.rs, main_loop.rs).
THEOREM Invariance == Spec => []IInv
<1>1. IInv /\ [Next]_vars => IInv'
    BY TypeStep, RestStep DEF IInv, Rest
<1> QED
    BY InitIInv, <1>1, PTL DEF Spec

\* Every variable keeps its type: the channel never holds more requests than
\* its capacity, and no part of a request is applied twice.
THEOREM TypeCorrect == Spec => []TypeOK
<1>1. IInv => TypeOK
    BY DEF IInv
<1> QED
    BY <1>1, Invariance, PTL

\* What dispatch and send_wait return is true of the request: done when they
\* say ok, failed when they say error, never done when they time out, and not
\* done, or only in part, when they say that the pipeline is not available.
THEOREM OutcomesAreTrue == Spec => []OutcomeIsTrue
<1>1. IInv => OutcomeIsTrue
    BY DEF IInv
<1> QED
    BY <1>1, Invariance, PTL

\* The failure of a request reaches its client, if it still listens, or the
\* last error of the control loop.
THEOREM NoErrorIsLost == Spec => []NoErrorLost
<1>1. IInv => NoErrorLost
    BY DEF IInv
<1> QED
    BY <1>1, Invariance, PTL
===============================================================================
