------------------------------- MODULE Delivery -------------------------------
(***************************************************************************)
(* What the pipeline promises to the plugins and to the agent, whatever    *)
(* its channels, its transforms, its control loop and the commands do.     *)
(* Each source hands over what it has measured, once.  Each output looks   *)
(* at the buffers in their order, writes each of them or skips it, and     *)
(* ends by itself when all the sources have ended and no buffer is left.   *)
(* The pipeline closes when nothing runs any more, with an error if an     *)
(* element has failed; only a failure takes back the other promises.       *)
(***************************************************************************)
EXTENDS Naturals

CONSTANTS Sources, Outputs

VARIABLES
    phase,      \* by element: "absent", "active", "ended", "stopped" or "broken"
    pending,    \* by source: measurements not handed over
    accepted,   \* number of buffers handed over
    position,   \* by output: the next buffer
    written,    \* by output: the buffers that it has written
    broken,     \* whether an element has failed, the transforms included
    status      \* "open", "ok" or "error"

sourceVars == <<pending, accepted>>
outputVars == <<position, written>>
vars == <<phase, sourceVars, outputVars, broken, status>>

Init ==
    /\ phase \in [Sources \union Outputs -> {"absent", "active"}]
    /\ pending = [s \in Sources |-> 0] /\ accepted = 0
    /\ position = [o \in Outputs |-> 1] /\ written = [o \in Outputs |-> {}]
    /\ broken = FALSE /\ status = "open"

\* The step of a running element to another phase.
Becomes(e, p) ==
    /\ phase[e] = "active"
    /\ phase' = [phase EXCEPT ![e] = p]
    /\ UNCHANGED status

-------------------------------------------------------------------------------
(* Sources.                                                                *)

Make(s) ==
    /\ phase[s] = "active"
    /\ pending' = [pending EXCEPT ![s] = @ + 1]
    /\ UNCHANGED <<phase, accepted, outputVars, broken, status>>

HandOver(s) ==
    /\ phase[s] = "active"
    /\ accepted' = accepted + 1
    /\ pending' = [pending EXCEPT ![s] = 0]
    /\ UNCHANGED <<phase, outputVars, broken, status>>

EndSource(s) ==
    /\ pending[s] = 0
    /\ Becomes(s, "ended")
    /\ UNCHANGED <<sourceVars, outputVars, broken>>

CreateSource(s) ==
    /\ status = "open" /\ phase[s] = "absent"
    /\ phase' = [phase EXCEPT ![s] = "active"]
    /\ UNCHANGED <<sourceVars, outputVars, broken, status>>

-------------------------------------------------------------------------------
(* Outputs.                                                                *)

\* An output that comes late does not see what was written before.
CreateOutput(o, n) ==
    /\ status = "open" /\ phase[o] = "absent"
    /\ n \in 1..(accepted + 1)
    /\ phase' = [phase EXCEPT ![o] = "active"]
    /\ position' = [position EXCEPT ![o] = n]
    /\ UNCHANGED <<sourceVars, written, broken, status>>

Write(o) ==
    /\ phase[o] = "active"
    /\ position[o] <= accepted
    /\ written' = [written EXCEPT ![o] = @ \union {position[o]}]
    /\ position' = [position EXCEPT ![o] = @ + 1]
    /\ UNCHANGED <<phase, sourceVars, broken, status>>

\* Lost to a lag, or discarded by a command.
Skip(o, n) ==
    /\ phase[o] = "active"
    /\ position[o] < n /\ n <= accepted + 1
    /\ position' = [position EXCEPT ![o] = n]
    /\ UNCHANGED <<phase, sourceVars, written, broken, status>>

EndOutput(o) ==
    /\ \A s \in Sources : phase[s] # "active"
    /\ position[o] = accepted + 1 \/ broken
    /\ Becomes(o, "ended")
    /\ UNCHANGED <<sourceVars, outputVars, broken>>

\* A command stops the output at once.
StopOutput(o) ==
    /\ Becomes(o, "stopped")
    /\ UNCHANGED <<sourceVars, outputVars, broken>>

-------------------------------------------------------------------------------

Break(e) ==
    /\ Becomes(e, "broken")
    /\ broken' = TRUE
    /\ UNCHANGED <<sourceVars, outputVars>>

BreakTransforms ==
    /\ status = "open"
    /\ broken' = TRUE
    /\ UNCHANGED <<phase, sourceVars, outputVars, status>>

\* A request that was refused makes an error too.
Close ==
    /\ status = "open"
    /\ \A e \in Sources \union Outputs : phase[e] # "active"
    /\ status' = "error" \/ (~broken /\ status' = "ok")
    /\ UNCHANGED <<phase, sourceVars, outputVars, broken>>

Next ==
    \/ \E s \in Sources : Make(s) \/ HandOver(s) \/ EndSource(s) \/ CreateSource(s)
    \/ \E o \in Outputs :
          \/ Write(o) \/ EndOutput(o) \/ StopOutput(o)
          \/ \E n \in 1..(accepted + 1) : CreateOutput(o, n) \/ Skip(o, n)
    \/ \E e \in Sources \union Outputs : Break(e)
    \/ BreakTransforms \/ Close

Spec == Init /\ [][Next]_vars
===============================================================================
