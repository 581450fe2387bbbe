------------------------------ MODULE TriggerCoop -----------------------------
(***************************************************************************)
(* The budget that keeps a source whose trigger is always ready from       *)
(* starving the other tasks of its executor thread.  A poll of the wrapped *)
(* trigger returns Ready, or Pending, which gives the thread back.         *)
(***************************************************************************)
EXTENDS Naturals

CONSTANTS
    BUDGET_SAME_TRIGGER,   \* 2 in the code
    BUDGET_ANY_TRIGGER,    \* 5 in the code
    MaxFired               \* bound: completions of the inner trigger, per reason

ASSUME CoopAssumption ==
    /\ BUDGET_SAME_TRIGGER \in Nat \ {0}
    /\ BUDGET_ANY_TRIGGER \in Nat \ {0}
    /\ MaxFired \in Nat

Reasons == {"Triggered", "Interrupted"}
None == "None"
Other(r) == IF r = "Triggered" THEN "Interrupted" ELSE "Triggered"

VARIABLES
    same,         \* remaining budget of each reason
    any,          \* remaining budget for any reason
    previously,   \* previously_ready: a reason kept back by the throttling
    failed,       \* the inner trigger has returned an error
    \* history: completions of the inner trigger, and what the source was given
    fired, returned,
    \* history: the Ready results since the thread was last given back
    last, runSame, runAny

budget  == <<same, any>>
history == <<fired, returned>>
turn    == <<last, runSame, runAny>>
vars    == <<budget, previously, failed, history, turn>>

FullBudget == [r \in Reasons |-> BUDGET_SAME_TRIGGER]

TypeOK ==
    /\ same \in [Reasons -> 0..BUDGET_SAME_TRIGGER]
    /\ any \in 0..BUDGET_ANY_TRIGGER
    /\ previously \in Reasons \union {None}
    /\ failed \in BOOLEAN
    /\ fired \in [Reasons -> 0..MaxFired]
    /\ returned \in [Reasons -> Nat]
    /\ last \in Reasons \union {None}
    /\ runSame \in Nat
    /\ runAny \in Nat

Init ==
    /\ same = FullBudget /\ any = BUDGET_ANY_TRIGGER
    /\ previously = None
    /\ failed = FALSE
    /\ fired = [r \in Reasons |-> 0] /\ returned = [r \in Reasons |-> 0]
    /\ last = None /\ runSame = 0 /\ runAny = 0

-------------------------------------------------------------------------------
\* TriggerBudget::consume returns Good.
Good(r) == any > 0 /\ same[r] > 0

\* Mutant of Consume: the budget for any reason is never decremented.
ConsumeSameOnly(r) ==
    /\ UNCHANGED any
    /\ same' = [same EXCEPT ![Other(r)] = BUDGET_SAME_TRIGGER, ![r] = IF @ > 0 THEN @ - 1 ELSE 0]

\* TriggerBudget::consume: an exhausted `any` leaves the rest alone; otherwise
\* the budget of the other reason is replenished.
Consume(r) ==
    /\ any' = IF any > 0 THEN any - 1 ELSE 0
    /\ same' = IF any = 0 THEN same
               ELSE [same EXCEPT ![Other(r)] = BUDGET_SAME_TRIGGER, ![r] = IF @ > 0 THEN @ - 1 ELSE 0]

Reset == same' = FullBudget /\ any' = BUDGET_ANY_TRIGGER

\* The source is given r without a yield since the last result.
ReturnReady(r) ==
    /\ returned' = [returned EXCEPT ![r] = @ + 1]
    /\ last' = r
    /\ runSame' = IF last = r THEN runSame + 1 ELSE 1
    /\ runAny' = runAny + 1

\* Pending: the thread is given back to the executor.
Yield ==
    /\ last' = None /\ runSame' = 0 /\ runAny' = 0
    /\ UNCHANGED returned

\* Mutant of Throttle: the reason that was consumed is forgotten.
ThrottleForget(r) ==
    /\ Reset
    /\ UNCHANGED previously
    /\ Yield

\* Out of budget: remember the reason, which the inner trigger has consumed.
Throttle(r) ==
    /\ previously' = r
    /\ Reset
    /\ Yield

\* The inner trigger completes with reason r.
PollReady(r) ==
    /\ ~failed
    /\ previously = None
    /\ fired[r] < MaxFired
    /\ fired' = [fired EXCEPT ![r] = @ + 1]
    /\ \/ Good(r) /\ Consume(r) /\ ReturnReady(r) /\ UNCHANGED previously
       \/ ~Good(r) /\ Throttle(r)
    /\ UNCHANGED failed

\* Ready last time but throttled: the inner trigger is not polled.
PollPreviouslyReady ==
    /\ ~failed
    /\ previously # None
    /\ previously' = None
    /\ Consume(previously)
    /\ ReturnReady(previously)
    /\ UNCHANGED <<failed, fired>>

PollPending ==
    /\ ~failed
    /\ previously = None
    /\ Reset
    /\ Yield
    /\ UNCHANGED <<previously, failed, fired>>

PollError ==
    /\ ~failed
    /\ previously = None
    /\ failed' = TRUE
    /\ UNCHANGED <<budget, previously, history, turn>>

Next ==
    \/ \E r \in Reasons : PollReady(r)
    \/ PollPreviouslyReady \/ PollPending \/ PollError

Spec == Init /\ [][Next]_vars

\* "Maximum number of times that a trigger can be immediately ready with the
\* same TriggerReason", and "for any reason": a source whose trigger is always
\* ready gives the thread back at least that often.
BoundedTurn == runSame <= BUDGET_SAME_TRIGGER /\ runAny <= BUDGET_ANY_TRIGGER

\* Throttling neither loses a reason (a notification consumed by the inner
\* trigger) nor returns it twice.
NoReasonLost ==
    \A r \in Reasons : fired[r] = returned[r] + (IF previously = r THEN 1 ELSE 0)
===============================================================================
