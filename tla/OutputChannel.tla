----------------------------- MODULE OutputChannel ----------------------------
(***************************************************************************)
(* What a blocking output (OutputTask) and an asynchronous one             *)
(* (AsyncOutput) have in common: the broadcast channel they receive from,  *)
(* a ring that overwrites its oldest messages, and the orders of their     *)
(* controllers.  A message is its rank in the channel.                     *)
(***************************************************************************)
EXTENDS Naturals, Sequences

CONSTANTS
    Capacity,      \* capacity of the channel
    MaxMessages,   \* bound: messages sent to the output
    MaxCommands    \* bound: commands sent before the shutdown

ASSUME ChannelAssumption ==
    /\ Capacity \in Nat \ {0}
    /\ MaxMessages \in Nat
    /\ MaxCommands \in Nat

\* What a controller may ask for.
TaskStates == {"Run", "RunDiscard", "Pause", "StopFinish", "StopNow"}

VARIABLES
    \* the channel
    sent,        \* messages sent so far
    upstream,    \* the elements that send to the channel are alive
    next,        \* cursor of the receiver: the first message not received
    lagged,      \* history: messages that were overwritten before they were received
    \* the state shared with the controller, and the controller
    state, ctl, cmds,
    \* the task of the output
    pc

chan == <<sent, upstream>>

\* The oldest message that the ring still holds.
Oldest == IF sent > Capacity THEN sent - Capacity + 1 ELSE 1
===============================================================================
