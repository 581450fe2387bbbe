----------------------------- MODULE ControlPlane -----------------------------
(***************************************************************************)
(* The control requests: handles, held by the plugins and by the agent,    *)
(* send them through a bounded channel to the control loop, which handles  *)
(* them one by one and answers through a oneshot channel.  A request has   *)
(* one part, or two: the creation of sources and of outputs together.  The *)
(* client may itself be an element of the pipeline (an autonomous source,  *)
(* an asynchronous output), for which the shutdown waits.                  *)
(***************************************************************************)
EXTENDS Naturals, Sequences

CONSTANTS
    Clients,     \* holders of a control handle
    Elements,    \* those that are elements of the pipeline
    Waiters,     \* those that use send_wait
    Patient,     \* those that give no timeout
    Capacity,    \* capacity of the channel, 256 in the code
    MaxCalls,    \* bounds: how many calls a client makes, and an element
    MaxElementCalls,
    MaxFaults,   \* bound: parts of requests that fail
    None         \* no request

ASSUME ControlAssumption ==
    /\ Elements \subseteq Clients /\ Waiters \subseteq Clients /\ Patient \subseteq Clients
    /\ Capacity \in Nat \ {0}
    /\ MaxCalls \in Nat /\ MaxElementCalls \in Nat /\ MaxFaults \in Nat
    /\ None \notin [client : Clients, call : Nat, parts : 1..2, reply : BOOLEAN]

VARIABLES
    \* the clients: what they do, their last request, the answer in its oneshot
    pc, calls, request, answer,
    background,    \* requests sent by a background task (dispatch_in_current_runtime)
    \* the control loop: its channel, the request it handles and the parts left
    queue, current, left, token, ctl, lastError,
    \* history: how each call ended; what was done of each request; failures
    result, applied, failed, faults

client   == <<pc, calls, request, answer>>
channel  == <<queue, background>>
shutdown == <<token, ctl>>
done     == <<applied, failed, faults>>
vars     == <<client, channel, current, left, shutdown, lastError, result, done>>

Requests == [client : Clients, call : Nat, parts : 1..2, reply : BOOLEAN]
CallsOf(c) == IF c \in Elements THEN MaxElementCalls ELSE MaxCalls
Ids == UNION {{c} \X (1..CallsOf(c)) : c \in Clients}
Id(r) == <<r.client, r.call>>

TypeOK ==
    /\ pc \in [Clients -> {"idle", "send", "wait", "ended"}]
    /\ calls \in [Clients -> Nat] /\ \A c \in Clients : calls[c] <= CallsOf(c)
    /\ request \in [Clients -> Requests \union {None}]
    /\ answer \in [Clients -> {"none", "ok", "error", "dropped"}]
    /\ background \subseteq Requests
    /\ queue \in Seq(Requests) /\ Len(queue) <= Capacity
    /\ current \in Requests \union {None}
    /\ left \in 0..2
    /\ token \in BOOLEAN /\ ctl \in {"loop", "stopping", "ended"} /\ lastError \in BOOLEAN
    /\ result \in [Ids -> {"none", "sent", "ok", "error", "timeout", "unavailable", "cancelled"}]
    /\ applied \in [Ids -> 0..2]
    /\ failed \subseteq Ids /\ faults \in 0..MaxFaults

Init ==
    /\ pc = [c \in Clients |-> "idle"]
    /\ calls = [c \in Clients |-> 0]
    /\ request = [c \in Clients |-> None]
    /\ answer = [c \in Clients |-> "none"]
    /\ background = {} /\ queue = <<>>
    /\ current = None /\ left = 0
    /\ token = FALSE /\ ctl = "loop" /\ lastError = FALSE
    /\ result = [i \in Ids |-> "none"]
    /\ applied = [i \in Ids |-> 0] /\ failed = {} /\ faults = 0

-------------------------------------------------------------------------------
(* The handles.                                                            *)

Ends(c, how) ==
    /\ pc' = [pc EXCEPT ![c] = "idle"]
    /\ result' = [result EXCEPT ![Id(request[c])] = how]

New(c, parts, reply) ==
    [client |-> c, call |-> calls[c] + 1, parts |-> parts, reply |-> reply]

\* dispatch or send_wait is called: it first waits for a slot of the channel.
Call(c, parts, reply) ==
    /\ pc[c] = "idle" /\ calls[c] < CallsOf(c)
    /\ reply => c \in Waiters
    /\ calls' = [calls EXCEPT ![c] = @ + 1]
    /\ request' = [request EXCEPT ![c] = New(c, parts, reply)]
    /\ answer' = [answer EXCEPT ![c] = "none"]
    /\ pc' = [pc EXCEPT ![c] = "send"]
    /\ UNCHANGED <<channel, current, left, shutdown, lastError, result, done>>

Sent(c) ==
    /\ pc[c] = "send"
    /\ ctl # "ended" /\ Len(queue) < Capacity
    /\ queue' = Append(queue, request[c])
    /\ IF request[c].reply
       THEN pc' = [pc EXCEPT ![c] = "wait"] /\ UNCHANGED result
       ELSE Ends(c, "sent")
    /\ UNCHANGED <<calls, request, answer, background, current, left, shutdown, lastError, done>>

\* Mutant of TimesOut: the timeout leaves the request in the channel.
TimesOutSent(c) ==
    /\ pc[c] = "send" /\ c \notin Patient
    /\ ctl # "ended" /\ Len(queue) < Capacity
    /\ queue' = Append(queue, request[c])
    /\ Ends(c, "timeout")
    /\ UNCHANGED <<calls, request, answer, background, current, left, shutdown, lastError, done>>

\* Mutant of TimesOut: the timeout bounds the wait for the answer instead.
TimesOutAnswer(c) ==
    /\ pc[c] = "wait" /\ c \notin Patient
    /\ answer[c] = "none"
    /\ Ends(c, "timeout")
    /\ UNCHANGED <<calls, request, answer, channel, current, left, shutdown, lastError, done>>

\* SendTimeoutError::Timeout: the timeout covers the wait for a slot only.
TimesOut(c) ==
    /\ pc[c] = "send" /\ c \notin Patient
    /\ ctl # "ended" /\ Len(queue) = Capacity
    /\ Ends(c, "timeout")
    /\ UNCHANGED <<calls, request, answer, channel, current, left, shutdown, lastError, done>>

\* The channel is closed.
Unavailable(c) ==
    /\ pc[c] = "send" /\ ctl = "ended"
    /\ Ends(c, "unavailable")
    /\ UNCHANGED <<calls, request, answer, channel, current, left, shutdown, lastError, done>>

\* send_wait receives its answer, or sees that the other end was dropped.
Answer(c) ==
    /\ pc[c] = "wait" /\ answer[c] # "none"
    /\ Ends(c, IF answer[c] = "dropped" THEN "unavailable" ELSE answer[c])
    /\ UNCHANGED <<calls, request, answer, channel, current, left, shutdown, lastError, done>>

\* The future of the call is dropped by its caller.
Cancel(c) ==
    /\ pc[c] \in {"send", "wait"}
    /\ Ends(c, "cancelled")
    /\ UNCHANGED <<calls, request, answer, channel, current, left, shutdown, lastError, done>>

\* dispatch_in_current_runtime: sends at once, or leaves it to a new task.
DispatchNow(c, parts) ==
    /\ pc[c] = "idle" /\ calls[c] < CallsOf(c)
    /\ LET r == New(c, parts, FALSE)
       IN  /\ calls' = [calls EXCEPT ![c] = @ + 1]
           /\ request' = [request EXCEPT ![c] = r]
           /\ \/ ctl = "ended" /\ UNCHANGED channel
              \/ /\ ctl # "ended" /\ Len(queue) < Capacity
                 /\ queue' = Append(queue, r) /\ UNCHANGED background
              \/ /\ ctl # "ended" /\ Len(queue) = Capacity
                 /\ background' = background \union {r} /\ UNCHANGED queue
           /\ result' = [result EXCEPT ![Id(r)] = IF ctl = "ended" THEN "unavailable" ELSE "sent"]
    /\ UNCHANGED <<pc, answer, current, left, shutdown, lastError, done>>

\* The background task sends the request, or gives up, which is only logged.
BackgroundSends(r) ==
    /\ r \in background
    /\ ctl # "ended" /\ Len(queue) < Capacity
    /\ queue' = Append(queue, r)
    /\ background' = background \ {r}
    /\ UNCHANGED <<client, current, left, shutdown, lastError, result, done>>

BackgroundGivesUp(r) ==
    /\ r \in background
    /\ ctl = "ended" \/ (r.client \notin Patient /\ Len(queue) = Capacity)
    /\ background' = background \ {r}
    /\ UNCHANGED <<client, queue, current, left, shutdown, lastError, result, done>>

-------------------------------------------------------------------------------
(* The control loop.                                                       *)

Take ==
    /\ ctl = "loop" /\ current = None
    /\ queue # <<>>
    /\ current' = Head(queue)
    /\ queue' = Tail(queue)
    /\ left' = Head(queue).parts
    /\ UNCHANGED <<client, background, shutdown, lastError, result, done>>

ApplyPart ==
    /\ current # None /\ left > 0
    /\ applied' = [applied EXCEPT ![Id(current)] = @ + 1]
    /\ left' = left - 1
    /\ UNCHANGED <<client, channel, current, shutdown, lastError, result, failed, faults>>

\* The client of r is still waiting for its answer.
Listens(r) == r.reply /\ pc[r.client] = "wait" /\ calls[r.client] = r.call

\* The oneshot of r gets an answer, or is dropped.
Tells(r, how) == answer' = IF Listens(r) THEN [answer EXCEPT ![r.client] = how] ELSE answer

Frees == current' = None /\ left' = 0

CanFail == current # None /\ left > 0 /\ faults < MaxFaults

\* handle_specific_msg fails for the only part of the request.
SingleFails ==
    /\ CanFail /\ current.parts = 1
    /\ faults' = faults + 1 /\ failed' = failed \union {Id(current)}
    /\ left' = 0
    /\ UNCHANGED <<client, channel, current, shutdown, lastError, result, applied>>

\* Mutant of MixedFails: the oneshot is kept.
MixedFailsKeeps ==
    /\ CanFail /\ current.parts = 2
    /\ faults' = faults + 1 /\ failed' = failed \union {Id(current)}
    /\ lastError' = TRUE /\ Frees
    /\ UNCHANGED <<client, channel, shutdown, result, applied>>

\* The `?` in the loop over the parts: the others are not applied, and the
\* oneshot is dropped without an answer.
MixedFails ==
    /\ CanFail /\ current.parts = 2
    /\ faults' = faults + 1 /\ failed' = failed \union {Id(current)}
    /\ lastError' = TRUE /\ Frees
    /\ Tells(current, "dropped")
    /\ UNCHANGED <<pc, calls, request, channel, shutdown, result, applied>>

Handled == current # None /\ left = 0

\* Mutant of NoReply: without a oneshot, the error of the request is lost.
NoReplyLost ==
    /\ Handled /\ ~current.reply
    /\ Frees
    /\ UNCHANGED <<client, channel, shutdown, lastError, result, done>>

\* send_response, without a oneshot: the error goes to last_error.
NoReply ==
    /\ Handled /\ ~current.reply
    /\ lastError' = (lastError \/ Id(current) \in failed)
    /\ Frees
    /\ UNCHANGED <<client, channel, shutdown, result, done>>

\* send_response, with a oneshot: not being able to send is an error.
Respond ==
    /\ Handled /\ current.reply
    /\ Tells(current, IF Id(current) \in failed THEN "error" ELSE "ok")
    /\ lastError' = (lastError \/ ~Listens(current))
    /\ Frees
    /\ UNCHANGED <<pc, calls, request, channel, shutdown, result, done>>

-------------------------------------------------------------------------------
(* The shutdown.                                                           *)

Shutdown ==
    /\ ~token
    /\ token' = TRUE
    /\ UNCHANGED <<client, channel, current, left, ctl, lastError, result, done>>

\* The select sees the token when no request is being handled.
Break ==
    /\ ctl = "loop" /\ token /\ current = None
    /\ ctl' = "stopping"
    /\ UNCHANGED <<client, channel, current, left, token, lastError, result, done>>

ElementEnds(c) ==
    /\ c \in Elements /\ ctl = "stopping" /\ pc[c] = "idle"
    /\ pc' = [pc EXCEPT ![c] = "ended"]
    /\ UNCHANGED <<calls, request, answer, channel, current, left, shutdown, lastError, result, done>>

\* run returns: the receiver is dropped, and the requests in it with their oneshots.
EndRun ==
    /\ ctl = "stopping" /\ \A c \in Elements : pc[c] = "ended"
    /\ ctl' = "ended" /\ queue' = <<>>
    /\ answer' = [c \in Clients |->
                    IF \E k \in 1..Len(queue) : queue[k].client = c /\ Listens(queue[k])
                    THEN "dropped" ELSE answer[c]]
    /\ UNCHANGED <<pc, calls, request, background, current, left, token, lastError, result, done>>

-------------------------------------------------------------------------------
Ended == ctl = "ended" /\ background = {} /\ UNCHANGED vars

ClientStep(c) == Sent(c) \/ TimesOut(c) \/ Unavailable(c) \/ Answer(c)
Handles == Take \/ ApplyPart \/ SingleFails \/ MixedFails \/ NoReply \/ Respond
Stops == Break \/ (\E c \in Clients : ElementEnds(c)) \/ EndRun

Next ==
    \/ \E c \in Clients : \E parts \in 1..2, reply \in BOOLEAN : Call(c, parts, reply)
    \/ \E c \in Clients : \E parts \in 1..2 : DispatchNow(c, parts)
    \/ \E c \in Clients : ClientStep(c) \/ Cancel(c)
    \/ \E r \in background : BackgroundSends(r) \/ BackgroundGivesUp(r)
    \/ Handles
    \/ Shutdown
    \/ Stops
    \/ Ended

Spec == Init /\ [][Next]_vars

\* The runtime runs every task, the channel serves those that wait for a slot
\* in their order, and the select chooses at random among what is ready.
FairSpec ==
    /\ Spec
    /\ \A c \in Clients :
         /\ SF_vars(Sent(c))
         /\ WF_vars(TimesOut(c) \/ Unavailable(c) \/ Answer(c))
    /\ WF_vars(Handles)
    /\ SF_vars(Break)
    /\ WF_vars(\E c \in Clients : ElementEnds(c))
    /\ WF_vars(EndRun)

-------------------------------------------------------------------------------
Told(i, how) ==
    result[i] = how \/ (calls[i[1]] = i[2] /\ pc[i[1]] = "wait" /\ answer[i[1]] = how)

\* What a call returns is true of its request: after Ok every part of it has
\* been applied; after an error one of its parts has failed; a request that
\* timed out never reaches the elements, then or later, so that it may be sent
\* again; and "not available" is never the answer to a request that was done.
OutcomeIsTrue ==
    \A i \in Ids :
        /\ Told(i, "ok") => i \notin failed /\ applied[i] > 0
                             /\ (calls[i[1]] = i[2] => applied[i] = request[i[1]].parts)
        /\ Told(i, "error") => i \in failed
        /\ result[i] = "timeout" => applied[i] = 0 /\ i \notin failed
        /\ result[i] = "unavailable" /\ calls[i[1]] = i[2] =>
              applied[i] < request[i[1]].parts

\* No failure of a request is silent: it reaches last_error, which the agent
\* returns, or the client, who is told or has stopped listening.
NoErrorLost ==
    \A i \in failed :
        \/ lastError
        \/ Told(i, "error") \/ result[i] = "cancelled"
        \/ current # None /\ Id(current) = i

\* Every call returns, whatever fails and whenever the pipeline is shut down,
\* the requests still in the channel included.
Answered == \A c \in Clients : (pc[c] \in {"send", "wait"}) ~> (pc[c] = "idle")

\* A shutdown, which waits for the elements that are clients, ends.
ShutdownEnds == token ~> (ctl = "ended")
===============================================================================
