------------------------------- MODULE CoreProofs -------------------------------
(***************************************************************************)
(* Proofs about the parts of MCCore other than the metrics and the         *)
(* transforms: the budgets of a throttled trigger (TriggerCoop), for any   *)
(* two positive budgets; the time that commands and measurements wait for  *)
(* a trigger (TriggerSpecs), for any intervals, rounds, constraints and    *)
(* bounds; the commands of the control socket (Commands); the life of an   *)
(* agent (Agent); and what all the parts promise together.                 *)
(***************************************************************************)
EXTENDS MCCore, MetricsProofs, PointsProofs, Integers, SequenceTheorems, TLAPS

-------------------------------------------------------------------------------
(* Throttled triggers.                                                       *)

\* Budget left plus results given since the last yield make a full budget; the
\* reason that was not returned last has all of its own.  A throttled trigger
\* has just been given a full budget, so that the result it keeps back can
\* always be paid for.
Accounts ==
    /\ any + runAny = BUDGET_ANY_TRIGGER
    /\ last = None => runSame = 0 /\ same = FullBudget
    /\ \A r \in Reasons : last = r =>
           same[r] + runSame = BUDGET_SAME_TRIGGER /\ same[Other(r)] = BUDGET_SAME_TRIGGER
    /\ previously # None => last = None /\ any = BUDGET_ANY_TRIGGER

Inv == TypeOK /\ Accounts

\* Paying for a result out of a sufficient budget keeps the accounts.
LEMMA PaidResult ==
    ASSUME Inv, NEW r \in Reasons, Good(r), Consume(r), ReturnReady(r), previously' = None
    PROVE  /\ same' \in [Reasons -> 0..BUDGET_SAME_TRIGGER] /\ any' \in 0..BUDGET_ANY_TRIGGER
           /\ returned' \in [Reasons -> Nat] /\ last' \in Reasons
           /\ runSame' \in Nat /\ runAny' \in Nat
           /\ Accounts'
<1> USE CoopAssumption
<1>1. any' = any - 1 /\ any \in Nat /\ any > 0 /\ runAny' = runAny + 1
  BY DEF Good, Consume, ReturnReady, Inv, TypeOK
<1>2. /\ r # Other(r) /\ Other(r) \in Reasons /\ same[r] \in Nat /\ same[r] > 0
      /\ \A q \in Reasons : q = r \/ q = Other(r)
  BY DEF Other, Reasons, Good, Inv, TypeOK
<1>3. /\ same' \in [Reasons -> 0..BUDGET_SAME_TRIGGER]
      /\ same'[r] = same[r] - 1 /\ same'[Other(r)] = BUDGET_SAME_TRIGGER
  BY <1>1, <1>2 DEF Consume, Inv, TypeOK
<1>4. returned' \in [Reasons -> Nat] /\ last' = r /\ last' # None
  BY DEF ReturnReady, Inv, TypeOK, Reasons, None
<1>5. same[r] + (IF last = r THEN runSame ELSE 0) = BUDGET_SAME_TRIGGER
  <2>1. CASE last = r
    BY <2>1 DEF Inv, Accounts
  <2>2. CASE last = None
    BY <2>2, <1>2 DEF Inv, Accounts, FullBudget, None, Reasons
  <2>3. CASE last = Other(r)
    <3>1. Other(Other(r)) = r
      BY DEF Other, Reasons
    <3>2. QED
      BY <2>3, <3>1, <1>2 DEF Inv, Accounts, TypeOK
  <2>4. QED
    BY <1>2, <2>1, <2>2, <2>3 DEF Inv, TypeOK
<1>6. runSame' = (IF last = r THEN runSame ELSE 0) + 1 /\ runSame \in Nat
  BY DEF ReturnReady, Inv, TypeOK
<1>7. same'[r] + runSame' = BUDGET_SAME_TRIGGER
  BY <1>2, <1>3, <1>5, <1>6
<1>8. any' + runAny' = BUDGET_ANY_TRIGGER /\ runAny \in Nat
  BY <1>1 DEF Inv, TypeOK, Accounts
<1>9. Accounts'
  BY <1>2, <1>3, <1>4, <1>7, <1>8 DEF Accounts
<1>10. QED
  BY <1>1, <1>3, <1>4, <1>6, <1>8, <1>9 DEF Inv, TypeOK

\* Giving the thread back resets the accounts.
LEMMA ResetAccounts ==
    ASSUME Inv, Reset, Yield
    PROVE  /\ same' \in [Reasons -> 0..BUDGET_SAME_TRIGGER] /\ any' \in 0..BUDGET_ANY_TRIGGER
           /\ returned' \in [Reasons -> Nat] /\ last' = None /\ runSame' = 0 /\ runAny' = 0
           /\ Accounts'
<1>1. /\ same' = FullBudget /\ any' = BUDGET_ANY_TRIGGER
      /\ last' = None /\ runSame' = 0 /\ runAny' = 0 /\ returned' = returned
  BY DEF Reset, Yield
<1>2. FullBudget \in [Reasons -> 0..BUDGET_SAME_TRIGGER]
  BY CoopAssumption DEF FullBudget
<1>3. \A r \in Reasons : r # None
  BY DEF Reasons, None
<1>4. QED
  BY <1>1, <1>2, <1>3, CoopAssumption DEF Accounts, Inv, TypeOK

\* The invariant of the cooperation of flush trigger and task holds in every run.
LEMMA InvInvariant == Spec => []Inv
<1>1. Init => Inv
  <2> SUFFICES ASSUME Init PROVE Inv
    OBVIOUS
  <2>1. same = FullBudget /\ FullBudget \in [Reasons -> 0..BUDGET_SAME_TRIGGER]
    BY CoopAssumption DEF Init, FullBudget
  <2>2. any = BUDGET_ANY_TRIGGER /\ any \in 0..BUDGET_ANY_TRIGGER
    BY CoopAssumption DEF Init
  <2>3. fired \in [Reasons -> 0..MaxFired] /\ returned \in [Reasons -> Nat]
    BY CoopAssumption DEF Init
  <2>4. previously = None /\ failed \in BOOLEAN /\ last = None /\ runSame = 0 /\ runAny = 0
    BY DEF Init
  <2>5. \A r \in Reasons : r # None
    BY DEF Reasons, None
  <2>6. TypeOK
    BY <2>1, <2>2, <2>3, <2>4 DEF TypeOK
  <2>7. Accounts
    BY <2>1, <2>2, <2>4, <2>5, CoopAssumption DEF Accounts
  <2>8. QED
    BY <2>6, <2>7 DEF Inv
<1>2. Inv /\ [Next]_vars => Inv'
  <2> SUFFICES ASSUME Inv, [Next]_vars PROVE Inv'
    OBVIOUS
  <2>1. ASSUME NEW r \in Reasons, PollReady(r) PROVE Inv'
    <3>1. fired' \in [Reasons -> 0..MaxFired] /\ failed' = failed
      BY <2>1, CoopAssumption DEF PollReady, Inv, TypeOK
    <3>2. CASE Good(r) /\ Consume(r) /\ ReturnReady(r) /\ UNCHANGED previously
      BY <2>1, <3>1, <3>2, PaidResult DEF PollReady, Inv, TypeOK
    <3>3. CASE ~Good(r) /\ Throttle(r)
      <4>1. Reset /\ Yield /\ previously' = r
        BY <3>3 DEF Throttle
      <4>2. QED
        BY <3>1, <4>1, ResetAccounts DEF Inv, TypeOK
    <3>4. QED
      BY <2>1, <3>2, <3>3 DEF PollReady
  <2>2. CASE PollPreviouslyReady
    <3>1. previously \in Reasons /\ previously' = None /\ Consume(previously) /\ ReturnReady(previously)
      BY <2>2 DEF PollPreviouslyReady, Inv, TypeOK
    <3>2. Good(previously)
      BY <3>1, <2>2, CoopAssumption DEF PollPreviouslyReady, Inv, Accounts, Good, FullBudget
    <3>3. fired' = fired /\ failed' = failed
      BY <2>2 DEF PollPreviouslyReady
    <3>4. QED
      BY <3>1, <3>2, <3>3, PaidResult DEF Inv, TypeOK
  <2>3. CASE PollPending
    <3>1. Reset /\ Yield /\ UNCHANGED <<previously, failed, fired>>
      BY <2>3 DEF PollPending
    <3>2. QED
      BY <3>1, ResetAccounts DEF Inv, TypeOK
  <2>4. CASE PollError
    BY <2>4 DEF PollError, budget, history, turn, Inv, TypeOK, Accounts
  <2>5. CASE UNCHANGED vars
    BY <2>5 DEF vars, budget, history, turn, Inv, TypeOK, Accounts
  <2>6. QED
    BY <2>1, <2>2, <2>3, <2>4, <2>5 DEF Next
<1>3. QED
  BY <1>1, <1>2, PTL DEF Spec

\* The budgets stay within their bounds, and what is remembered is a reason.
THEOREM TypeCorrect == Spec => []TypeOK
<1>1. Inv => TypeOK
  BY DEF Inv
<1>2. QED
  BY <1>1, InvInvariant, PTL

\* A source whose trigger is always ready gives its thread back after at most
\* BUDGET_SAME_TRIGGER results of one kind and BUDGET_ANY_TRIGGER in all.
THEOREM TurnIsBounded == Spec => []BoundedTurn
<1>1. Inv => BoundedTurn
  <2> SUFFICES ASSUME Inv PROVE BoundedTurn
    OBVIOUS
  <2>1. runAny <= BUDGET_ANY_TRIGGER
    BY CoopAssumption DEF Inv, TypeOK, Accounts
  <2>2. CASE last = None
    BY <2>1, <2>2, CoopAssumption DEF Inv, Accounts, BoundedTurn
  <2>3. CASE last \in Reasons
    BY <2>1, <2>3, CoopAssumption DEF Inv, TypeOK, Accounts, BoundedTurn
  <2>4. QED
    BY <2>2, <2>3 DEF Inv, TypeOK
<1>2. QED
  BY <1>1, InvInvariant, PTL

\* Throttling keeps every reason, once.
THEOREM ThrottlingKeepsReasons == Spec => []NoReasonLost
<1>1. Init => NoReasonLost
  BY DEF Init, NoReasonLost, Reasons, None
<1>2. Inv /\ NoReasonLost /\ [Next]_vars => NoReasonLost'
  <2> SUFFICES ASSUME Inv, NoReasonLost, [Next]_vars PROVE NoReasonLost'
    OBVIOUS
  <2>0. None \notin Reasons
    BY DEF Reasons, None
  <2>1. ASSUME NEW r \in Reasons, PollReady(r) PROVE NoReasonLost'
    <3>1. fired' = [fired EXCEPT ![r] = @ + 1] /\ previously = None
      BY <2>1 DEF PollReady
    <3>2. CASE ReturnReady(r) /\ UNCHANGED previously
      BY <2>0, <3>1, <3>2 DEF ReturnReady, NoReasonLost, Inv, TypeOK
    <3>3. CASE Throttle(r)
      BY <2>0, <3>1, <3>3 DEF Throttle, Yield, NoReasonLost, Inv, TypeOK
    <3>4. QED
      BY <2>1, <3>2, <3>3 DEF PollReady
  <2>2. CASE PollPreviouslyReady
    BY <2>0, <2>2 DEF PollPreviouslyReady, ReturnReady, NoReasonLost, Inv, TypeOK
  <2>3. CASE PollPending \/ PollError \/ UNCHANGED vars
    BY <2>3 DEF PollPending, PollError, Yield, NoReasonLost, vars, history
  <2>4. QED
    BY <2>1, <2>2, <2>3 DEF Next
<1>3. QED
  BY <1>1, <1>2, InvInvariant, PTL DEF Spec

-------------------------------------------------------------------------------
(* Rounds.                                                                   *)

Left(u, n) == u - ((n - 1) % u)

\* How a remainder moves when the number grows by one.
LEMMA ModNext == ASSUME NEW u \in Nat \ {0}, NEW n \in Nat
   PROVE (n + 1) % u = IF n % u = u - 1 THEN 0 ELSE (n % u) + 1
  <1> DEFINE q == n \div u
             r == n % u
             q1 == (n + 1) \div u
             r1 == (n + 1) % u
  <1>1. q \in Nat /\ r \in 0..(u - 1) /\ n = u * q + r
    BY DivMod
  <1>2. q1 \in Nat /\ r1 \in 0..(u - 1) /\ n + 1 = u * q1 + r1
    <2>1. \A k \in Nat : k \div u \in Nat /\ k % u \in 0..(u - 1) /\ k = u * (k \div u) + (k % u)
      BY DivMod
    <2>2. n + 1 \in Nat OBVIOUS
    <2> QED BY Zenon, <2>1, <2>2
  <1> HIDE DEF q, r, q1, r1
  <1>3. u * (q1 - q) = (r + 1) - r1
    <2>1. u * (q1 - q) = u * q1 - u * q BY <1>1, <1>2
    <2> QED BY <2>1, <1>1, <1>2
  <1>4. q1 - q = 0 \/ q1 - q = 1
    <2>1. (r + 1) - r1 > -u /\ (r + 1) - r1 <= u BY <1>1, <1>2
    <2>2. q1 - q \in Int BY <1>1, <1>2
    <2> QED BY <1>3, <2>1, <2>2, Multiples
  <1>5. CASE q1 - q = 0
    <2>1. u * (q1 - q) = 0 BY <1>5
    <2> QED BY <2>1, <1>1, <1>2, <1>3 DEF r, r1
  <1>6. CASE q1 - q = 1
    <2>1. u * (q1 - q) = u BY <1>6
    <2> QED BY <2>1, <1>1, <1>2, <1>3 DEF r, r1
  <1> QED BY <1>4, <1>5, <1>6

\* The rounds of a cycle of u that are left at round n, this one included.
LEMMA LeftCounts ==
    ASSUME NEW u \in Nat \ {0}, NEW n \in Nat \ {0}
    PROVE  /\ Left(u, n) \in 1..u
           /\ n % u = 0 <=> Left(u, n) = 1
           /\ n % u # 0 => Left(u, n + 1) = Left(u, n) - 1
  <1> DEFINE m == n - 1
  <1>1. m \in Nat /\ n = m + 1 /\ (n + 1) - 1 = m + 1 OBVIOUS
  <1> HIDE DEF m
  <1>2. m % u \in 0..(u - 1) BY <1>1, DivMod
  <1>3. (m + 1) % u = IF m % u = u - 1 THEN 0 ELSE (m % u) + 1 BY <1>1, ModNext
  <1>4. Left(u, n) = u - (m % u) /\ Left(u, n + 1) = u - ((m + 1) % u)
    BY <1>1 DEF Left, m
  <1> QED BY <1>1, <1>2, <1>3, <1>4

-------------------------------------------------------------------------------
(* Trigger specifications: the invariant.                                    *)

Specs ==
    [mechanism : {"time", "manual"}, start : Nat, poll : Nat, flushRounds : Nat \ {0},
     updateRounds : Nat \ {0}, interruptible : BOOLEAN, manual : BOOLEAN, realtime : BOOLEAN,
     initial : BOOLEAN]

TriggerTypeOK ==
    /\ lifecycle \in {"new", "building", "failed", "panicked", "built", "running"}
    /\ lifecycle # "new" => spec \in Specs
    /\ flushAsked \in Nat \union {NoTime} /\ constraints \in Constraints
    /\ now \in Nat /\ round \in Nat \ {0}
    /\ nextTick \in Int /\ oldest \in Nat \union {NoTime} /\ askedAt \in Nat \union {NoTime}

\* n rounds of s take no longer than limit.
Within(s, n, limit) == s.poll * n <= limit

\* The flush interval holds for the rounds of the trigger; a trigger that flushes at each
\* round keeps nothing.
FlushIsBounded ==
    flushAsked # NoTime =>
        /\ lifecycle # "new" /\ spec.mechanism = "time"
        /\ spec.flushRounds = 1 \/ Within(spec, spec.flushRounds, flushAsked)

\* Nothing waits before the task runs, and then its timer has an interval.
IdleBefore ==
    /\ lifecycle # "running" => oldest = NoTime /\ askedAt = NoTime /\ newSpec = NoSpec
    /\ lifecycle \in {"built", "running"} /\ spec.mechanism = "time" => spec.poll > 0

InBounds(s) == s.interruptible \/ Within(s, s.updateRounds, constraints.max)

NewSpecInBounds ==
    newSpec # NoSpec =>
        /\ newSpec \in Specs /\ newSpec.mechanism = "time" /\ newSpec.poll > 0
        /\ newSpec.flushRounds = 1 /\ newSpec.start <= now /\ InBounds(newSpec)

Timed == lifecycle = "running" /\ spec.mechanism = "time"

TimerInTime ==
    Timed =>
        /\ InBounds(spec)
        /\ now <= nextTick /\ spec.start <= nextTick
        /\ nextTick <= Later(now, spec.start) + spec.poll

\* The time of the k-th tick of the timer, from the next one on.
TickOf(k) == nextTick + (k - 1) * spec.poll

\* The task looks at a command at once, or at the end of the cycle of its rounds.
LookInTime ==
    askedAt # NoTime =>
        /\ interrupt /\ askedAt <= now
        /\ Timed => IF spec.interruptible THEN now = askedAt
                    ELSE TickOf(Left(spec.updateRounds, round))
                         <= Later(askedAt, spec.start) + constraints.max

\* What is in the buffer is flushed at the end of the cycle of the rounds.
FlushInTime ==
    Timed /\ oldest # NoTime /\ flushAsked # NoTime =>
        TickOf(Left(spec.flushRounds, round)) <= oldest + flushAsked

TriggerInv ==
    /\ TriggerTypeOK /\ FlushIsBounded /\ IdleBefore
    /\ NewSpecInBounds /\ TimerInTime /\ LookInTime /\ FlushInTime

-------------------------------------------------------------------------------
(* Numbers of rounds.                                                          *)

LEMMA RoundsForIsBounded ==
    ASSUME NEW limit \in Nat, NEW poll \in Nat \ {0}
    PROVE  /\ RoundsFor(limit, poll) \in Nat \ {0}
           /\ limit >= poll => poll * RoundsFor(limit, poll) <= limit
           /\ limit < poll => RoundsFor(limit, poll) = 1
  <1>1. CASE limit < poll
    BY <1>1 DEF RoundsFor
  <1>2. CASE limit >= poll
    <2> DEFINE q == limit \div poll
    <2>1. q \in Nat /\ limit % poll \in 0..(poll - 1) /\ limit = poll * q + (limit % poll)
      BY DivMod
    <2>2. RoundsFor(limit, poll) = q
      BY <1>2 DEF RoundsFor
    <2> DEFINE r == limit % poll
    <2> HIDE DEF q, r
    <2>3. q # 0
      <3> SUFFICES ASSUME q = 0 PROVE FALSE OBVIOUS
      <3>1. poll * q = 0 BY poll * 0 = 0
      <3> QED BY <2>1, <3>1, <1>2 DEF r
    <2>4. poll * q <= limit
      <3>1. poll * q \in Nat BY <2>1
      <3> QED BY <2>1, <3>1 DEF r
    <2> QED BY <1>2, <2>1, <2>2, <2>3, <2>4
  <1> QED BY <1>1, <1>2

\* constrain() leaves a specification whose timed trigger respects the bounds, and touches neither
\* its mechanism nor its poll interval.
LEMMA ConstrainedIsInBounds ==
    ASSUME NEW s \in Specs, s.mechanism = "time" => s.poll > 0, TriggerTypeOK,
           NEW c, c = Constrain(s)
    PROVE  /\ c \in Specs /\ c.mechanism = s.mechanism /\ c.poll = s.poll /\ c.start = s.start
           /\ c.flushRounds = s.flushRounds /\ c.initial = s.initial
           /\ s.mechanism = "time" => InBounds(c)
  <1>1. constraints.max \in Nat /\ constraints.manual \in BOOLEAN
    BY TriggerAssumption DEF TriggerTypeOK
  <1> DEFINE free == s.mechanism = "time" /\ ~s.interruptible
             over == free /\ s.poll * s.updateRounds > constraints.max
             u == IF over THEN RoundsFor(constraints.max, s.poll) ELSE s.updateRounds
             i == s.interruptible \/ (free /\ s.poll > constraints.max)
             m == s.manual \/ constraints.manual
  <1>2. c = [s EXCEPT !.manual = m, !.interruptible = i, !.updateRounds = u]
    BY DEF Constrain, Specs
  <1>3. i \in BOOLEAN /\ m \in BOOLEAN /\ s.poll \in Nat /\ s.updateRounds \in Nat \ {0}
    BY <1>1 DEF Specs
  <1>4. u \in Nat \ {0}
    BY <1>1, <1>3, RoundsForIsBounded
  <1>5. c \in Specs /\ c.mechanism = s.mechanism /\ c.poll = s.poll /\ c.start = s.start
        /\ c.flushRounds = s.flushRounds /\ c.initial = s.initial
        /\ c.interruptible = i /\ c.updateRounds = u
    <2> HIDE DEF u, i, m
    <2> QED BY <1>2, <1>3, <1>4 DEF Specs
  <1>6. ASSUME s.mechanism = "time", ~i PROVE s.poll * u <= constraints.max
    <2>1. free /\ s.poll <= constraints.max /\ s.poll \in Nat \ {0}
      BY <1>1, <1>3, <1>6
    <2>2. CASE over
      BY <1>1, <2>1, <2>2, RoundsForIsBounded
    <2>3. CASE ~over
      BY <1>1, <1>3, <2>1, <2>3
    <2> QED BY <2>2, <2>3
  <1> QED BY <1>5, <1>6 DEF InBounds, Within

-------------------------------------------------------------------------------
(* The builders.                                                               *)

\* A call of a builder changes the specification, not the task.
LEMMA BuilderKeepsInv ==
    ASSUME TriggerInv, lifecycle # "running", UNCHANGED <<constraints, running>>,
           lifecycle' \in {"building", "failed", "panicked", "built"},
           spec' \in Specs, flushAsked' \in Nat \union {NoTime},
           FlushIsBounded', lifecycle' = "built" /\ spec'.mechanism = "time" => spec'.poll > 0
    PROVE  TriggerInv'
  <1>1. lifecycle' # "running" /\ lifecycle' # "new" /\ ~Timed'
    BY DEF Timed
  <1>2. TriggerTypeOK'
    BY <1>1 DEF TriggerInv, TriggerTypeOK, running
  <1>3. IdleBefore'
    BY <1>1 DEF TriggerInv, IdleBefore, running
  <1>4. NewSpecInBounds'
    BY <1>3, <1>1 DEF IdleBefore, NewSpecInBounds
  <1>5. TimerInTime' /\ LookInTime' /\ FlushInTime'
    BY <1>1, <1>3 DEF TimerInTime, LookInTime, FlushInTime, IdleBefore
  <1> QED BY <1>2, <1>3, <1>4, <1>5 DEF TriggerInv

\* A new builder is a step of the trigger that keeps its invariant.
LEMMA NewBuilderKeepsInv ==
    ASSUME TriggerInv, NEW mechanism \in {"time", "manual"}, NEW poll \in Nat,
           NewBuilder(mechanism, poll)
    PROVE  TriggerInv'
  <1>1. lifecycle = "new" /\ flushAsked = NoTime /\ flushAsked \in Nat \union {NoTime}
    BY DEF NewBuilder, TriggerInv, FlushIsBounded, TriggerTypeOK
  <1>2. spec' \in Specs
    BY DEF NewBuilder, DefaultSpec, Specs
  <1> QED BY <1>1, <1>2, BuilderKeepsInv DEF NewBuilder, FlushIsBounded

\* A call that leaves the interval and the rounds of the flush alone.
LEMMA CallKeepsInv ==
    ASSUME TriggerInv, Call, lifecycle' \in {"building", "panicked"}, UNCHANGED flushAsked,
           spec' \in Specs, spec'.poll = spec.poll, spec'.mechanism = spec.mechanism,
           spec'.flushRounds = spec.flushRounds
    PROVE  TriggerInv'
  <1>1. lifecycle = "building" /\ UNCHANGED <<constraints, running>>
        /\ flushAsked \in Nat \union {NoTime}
    BY DEF Call, TriggerInv, TriggerTypeOK
  <1>2. FlushIsBounded'
    BY <1>1 DEF TriggerInv, FlushIsBounded, Within
  <1> QED BY <1>1, <1>2, BuilderKeepsInv

\* The step StartingAt keeps the invariant.
LEMMA StartingAtKeepsInv ==
    ASSUME TriggerInv, NEW time \in Intervals, StartingAt(time)
    PROVE  TriggerInv'
  <1>1. Call /\ lifecycle = "building" /\ lifecycle' = lifecycle /\ UNCHANGED flushAsked
        /\ spec' = [spec EXCEPT !.start = time] /\ spec \in Specs /\ time \in Nat
    BY TriggerAssumption DEF StartingAt, Call, TriggerInv, TriggerTypeOK
  <1>2. /\ spec' \in Specs /\ spec'.poll = spec.poll /\ spec'.mechanism = spec.mechanism
        /\ spec'.flushRounds = spec.flushRounds
    BY <1>1 DEF Specs
  <1> QED BY <1>1, <1>2, CallKeepsInv

\* The number of rounds before a flush or an update, set on a builder, keeps the invariant.
LEMMA RoundsKeepInv ==
    ASSUME TriggerInv, NEW rounds \in Rounds, FlushRounds(rounds) \/ UpdateRounds(rounds)
    PROVE  TriggerInv'
  <1>1. Call /\ lifecycle = "building" /\ spec \in Specs /\ rounds \in Nat
        /\ flushAsked \in Nat \union {NoTime} /\ UNCHANGED <<constraints, running>>
    BY TriggerAssumption DEF FlushRounds, UpdateRounds, Call, TriggerInv, TriggerTypeOK
  <1>2. CASE lifecycle' = "panicked" /\ spec' = spec /\ UNCHANGED flushAsked
    BY <1>1, <1>2, CallKeepsInv
  <1>3. CASE /\ rounds # 0 /\ spec' = [spec EXCEPT !.flushRounds = rounds]
             /\ flushAsked' = NoTime /\ lifecycle' = lifecycle
    <2>1. spec' \in Specs BY <1>1, <1>3 DEF Specs
    <2>2. FlushIsBounded' BY <1>3 DEF FlushIsBounded
    <2> QED BY <1>1, <1>3, <2>1, <2>2, BuilderKeepsInv
  <1>4. CASE /\ rounds # 0 /\ spec' = [spec EXCEPT !.updateRounds = rounds]
             /\ lifecycle' = lifecycle /\ UNCHANGED flushAsked
    <2>1. /\ spec' \in Specs /\ spec'.poll = spec.poll /\ spec'.mechanism = spec.mechanism
          /\ spec'.flushRounds = spec.flushRounds
      BY <1>1, <1>4 DEF Specs
    <2> QED BY <1>1, <1>4, <2>1, CallKeepsInv
  <1> QED BY <1>2, <1>3, <1>4 DEF FlushRounds, UpdateRounds

\* The step FlushInterval keeps the invariant.
LEMMA FlushIntervalKeepsInv ==
    ASSUME TriggerInv, NEW interval \in Intervals, FlushInterval(interval)
    PROVE  TriggerInv'
  <1>1. Call /\ lifecycle = "building" /\ lifecycle' = lifecycle /\ spec \in Specs
        /\ spec.mechanism = "time" /\ interval \in Nat /\ spec.poll \in Nat
        /\ UNCHANGED <<constraints, running>>
    BY TriggerAssumption DEF FlushInterval, Call, TriggerInv, TriggerTypeOK, Specs
  <1>2. CASE spec.poll = 0
    BY <1>1, <1>2, CallKeepsInv DEF FlushInterval
  <1>3. CASE spec.poll # 0
    <2> DEFINE f == RoundsFor(interval, spec.poll)
    <2>1. spec' = [spec EXCEPT !.flushRounds = f] /\ flushAsked' = interval
      BY <1>3 DEF FlushInterval
    <2>2. /\ f \in Nat \ {0}
          /\ interval >= spec.poll => spec.poll * f <= interval
          /\ interval < spec.poll => f = 1
      BY <1>1, <1>3, RoundsForIsBounded
    <2> HIDE DEF f
    <2>3. /\ spec' \in Specs /\ spec'.poll = spec.poll /\ spec'.mechanism = spec.mechanism
          /\ spec'.flushRounds = f
      BY <1>1, <2>1, <2>2 DEF Specs
    <2>4. FlushIsBounded'
      BY <1>1, <2>1, <2>2, <2>3 DEF FlushIsBounded, Within
    <2> QED BY <1>1, <2>1, <2>3, <2>4, BuilderKeepsInv
  <1> QED BY <1>2, <1>3

\* The step UpdateInterval keeps the invariant.
LEMMA UpdateIntervalKeepsInv ==
    ASSUME TriggerInv, NEW interval \in Intervals, UpdateInterval(interval)
    PROVE  TriggerInv'
  <1>1. Call /\ lifecycle = "building" /\ lifecycle' = lifecycle /\ spec \in Specs
        /\ interval \in Nat /\ spec.poll \in Nat /\ UNCHANGED flushAsked
    BY TriggerAssumption DEF UpdateInterval, Call, TriggerInv, TriggerTypeOK, Specs
  <1>2. CASE spec.poll = 0
    BY <1>1, <1>2, CallKeepsInv DEF UpdateInterval
  <1>3. CASE spec.poll # 0
    <2> DEFINE u == RoundsFor(interval, spec.poll)
               i == spec.poll > interval
    <2>1. spec' = [spec EXCEPT !.updateRounds = u, !.interruptible = i]
      BY <1>3 DEF UpdateInterval
    <2>2. u \in Nat \ {0} /\ i \in BOOLEAN
      BY <1>1, <1>3, RoundsForIsBounded
    <2> HIDE DEF u, i
    <2>3. /\ spec' \in Specs /\ spec'.poll = spec.poll /\ spec'.mechanism = spec.mechanism
          /\ spec'.flushRounds = spec.flushRounds
      BY <1>1, <2>1, <2>2 DEF Specs
    <2> QED BY <1>1, <2>3, CallKeepsInv
  <1> QED BY <1>2, <1>3

\* The flags of a builder keep the invariant.
LEMMA FlagsKeepInv ==
    ASSUME TriggerInv,
           \/ RealtimePriority \/ AllowManualTrigger
           \/ \E interruptible \in BOOLEAN : SetInterruptible(interruptible)
    PROVE  TriggerInv'
  <1>1. Call /\ lifecycle = "building" /\ lifecycle' = lifecycle /\ spec \in Specs
        /\ UNCHANGED flushAsked
    BY DEF RealtimePriority, AllowManualTrigger, SetInterruptible, Call, TriggerInv, TriggerTypeOK
  <1>2. \E b \in BOOLEAN : \/ spec' = [spec EXCEPT !.realtime = b]
                           \/ spec' = [spec EXCEPT !.manual = b]
                           \/ spec' = [spec EXCEPT !.interruptible = b]
    BY DEF RealtimePriority, AllowManualTrigger, SetInterruptible
  <1>3. /\ spec' \in Specs /\ spec'.poll = spec.poll /\ spec'.mechanism = spec.mechanism
        /\ spec'.flushRounds = spec.flushRounds
    BY <1>1, <1>2 DEF Specs
  <1> QED BY <1>1, <1>3, CallKeepsInv

\* What the builder returns is a specification, of the kind that was asked for.
LEMMA BuiltIsSpec ==
    ASSUME NEW s \in Specs, NEW b, b = BuiltSpec(s)
    PROVE  /\ b \in Specs /\ b.mechanism = s.mechanism /\ b.poll = s.poll /\ b.start = s.start
           /\ b.flushRounds = s.flushRounds /\ b.initial = s.initial
  <1> DEFINE r == s.realtime \/ (s.mechanism = "time" /\ s.poll =< RealtimeLimit)
  <1>1. b = [s EXCEPT !.realtime = r] /\ r \in BOOLEAN
    BY DEF BuiltSpec, Specs
  <1> HIDE DEF r
  <1> QED BY <1>1 DEF Specs

\* The step BuildSpec keeps the invariant.
LEMMA BuildSpecKeepsInv == ASSUME TriggerInv, BuildSpec PROVE TriggerInv'
  <1>1. lifecycle = "building" /\ spec \in Specs /\ UNCHANGED <<flushAsked, constraints, running>>
        /\ flushAsked \in Nat \union {NoTime} /\ spec.poll \in Nat
    BY DEF BuildSpec, TriggerInv, TriggerTypeOK, Specs
  <1>2. /\ lifecycle' \in {"failed", "built"} /\ spec' \in {spec, BuiltSpec(spec)}
        /\ lifecycle' = "built" /\ spec.mechanism = "time" => spec.poll # 0
    BY DEF BuildSpec
  <1>3. /\ spec' \in Specs /\ spec'.mechanism = spec.mechanism /\ spec'.poll = spec.poll
        /\ spec'.flushRounds = spec.flushRounds
    BY <1>1, <1>2, BuiltIsSpec
  <1>4. FlushIsBounded'
    BY <1>1, <1>2, <1>3 DEF TriggerInv, FlushIsBounded, Within
  <1> QED BY <1>1, <1>2, <1>3, <1>4, BuilderKeepsInv

-------------------------------------------------------------------------------
(* The task.                                                                   *)

LEMMA CreateManagedKeepsInv == ASSUME TriggerInv, CreateManaged PROVE TriggerInv'
  <1>1. /\ lifecycle = "built" /\ lifecycle' = "running" /\ spec \in Specs /\ now \in Nat
        /\ UNCHANGED <<flushAsked, constraints, now, round, oldest, askedAt, newSpec, interrupt>>
        /\ nextTick' = FirstTick(spec) /\ spec' = Constrain(spec)
        /\ oldest = NoTime /\ askedAt = NoTime /\ newSpec = NoSpec
        /\ spec.mechanism = "time" => spec.poll > 0
        /\ spec.poll \in Nat /\ spec.start \in Nat /\ spec.mechanism \in {"time", "manual"}
    BY DEF CreateManaged, TriggerInv, TriggerTypeOK, IdleBefore, Specs
  <1>2. /\ spec' \in Specs /\ spec'.mechanism = spec.mechanism /\ spec'.poll = spec.poll
        /\ spec'.start = spec.start /\ spec'.flushRounds = spec.flushRounds
        /\ spec.mechanism = "time" => InBounds(spec')
    BY <1>1, ConstrainedIsInBounds DEF TriggerInv
  <1>3. nextTick' = IF spec.mechanism = "manual" THEN NoTime ELSE Later(spec.start, now)
    BY <1>1 DEF FirstTick, Later
  <1>4. TriggerTypeOK'
    BY <1>1, <1>2, <1>3 DEF TriggerInv, TriggerTypeOK, NoTime, Later
  <1>5. FlushIsBounded'
    BY <1>1, <1>2 DEF TriggerInv, FlushIsBounded, Within
  <1>6. IdleBefore' /\ NewSpecInBounds' /\ LookInTime' /\ FlushInTime'
    BY <1>1, <1>2 DEF IdleBefore, NewSpecInBounds, LookInTime, FlushInTime
  <1>7. TimerInTime'
    <2> SUFFICES ASSUME Timed' PROVE TimerInTime' BY DEF TimerInTime
    <2>1. spec.mechanism = "time" BY <1>2 DEF Timed
    <2>2. InBounds(spec)' BY <1>1, <1>2, <2>1 DEF InBounds, Within
    <2>3. /\ now' <= nextTick' /\ spec'.start <= nextTick'
          /\ nextTick' <= Later(now', spec'.start) + spec'.poll
      BY <1>1, <1>2, <1>3, <2>1 DEF Later
    <2> QED BY <2>2, <2>3 DEF TimerInTime
  <1> QED BY <1>4, <1>5, <1>6, <1>7 DEF TriggerInv

\* What the invariant says of the ticks of a trigger with a timer.
LEMMA Ticking ==
    ASSUME TriggerInv, Timed
    PROVE  /\ lifecycle = "running" /\ spec.mechanism = "time"
           /\ spec \in Specs /\ spec.poll \in Nat \ {0} /\ spec.start \in Nat
           /\ spec.flushRounds \in Nat \ {0} /\ spec.updateRounds \in Nat \ {0}
           /\ now \in Nat /\ nextTick \in Int /\ round \in Nat \ {0}
           /\ now <= nextTick /\ spec.start <= nextTick
           /\ nextTick <= Later(now, spec.start) + spec.poll
           /\ InBounds(spec) /\ constraints.max \in Nat
           /\ oldest \in Nat \union {NoTime} /\ askedAt \in Nat \union {NoTime}
           /\ flushAsked \in Nat \union {NoTime}
  BY TriggerAssumption
  DEF TriggerInv, Timed, TriggerTypeOK, IdleBefore, TimerInTime, Specs

\* The ticks of a timer come in order, and the n-th from now comes before n intervals.
LEMMA TickOrder ==
    ASSUME NEW t \in Int, NEW p \in Nat, NEW k \in Nat \ {0}
    PROVE  /\ t <= t + (k - 1) * p
           /\ (t + p) + ((k - 1) - 1) * p = t + (k - 1) * p
           /\ t + ((k - 1) - 1) * p <= t + (k - 1) * p
           /\ \A n \in Nat : k <= n => p + (k - 1) * p <= p * n
  <1>1. (k - 1) * p >= 0
    OBVIOUS
  <1>2. ((k - 1) - 1) * p = (k - 1) * p - p
    OBVIOUS
  <1>3. \A n \in Nat : k <= n => p * k <= p * n
    OBVIOUS
  <1>4. p + (k - 1) * p = p * k
    OBVIOUS
  <1> QED BY <1>1, <1>2, <1>3, <1>4

\* A command that is not looked at yet is looked at in time.
LEMMA AskingKeepsInv ==
    ASSUME TriggerInv, lifecycle = "running", askedAt' = now, interrupt' = TRUE,
           UNCHANGED <<spec, lifecycle, flushAsked, constraints, now, nextTick, round, oldest>>,
           NewSpecInBounds'
    PROVE  TriggerInv'
  <1>1. TriggerTypeOK'
    BY DEF TriggerInv, TriggerTypeOK
  <1>2. FlushIsBounded' /\ IdleBefore'
    BY DEF TriggerInv, FlushIsBounded, IdleBefore, Within
  <1>3. TimerInTime' /\ FlushInTime'
    BY DEF TriggerInv, TimerInTime, FlushInTime, Timed, InBounds, Within, TickOf
  <1>4. LookInTime'
    <2>1. now \in Nat BY DEF TriggerInv, TriggerTypeOK
    <2> SUFFICES ASSUME Timed, ~spec.interruptible
                 PROVE  nextTick + (Left(spec.updateRounds, round) - 1) * spec.poll
                           <= Later(now, spec.start) + constraints.max
      BY <2>1 DEF LookInTime, Timed, TickOf
    <2> DEFINE u == spec.updateRounds
               k == Left(u, round)
               p == spec.poll
    <2>2. u \in Nat \ {0} /\ round \in Nat \ {0} /\ p \in Nat /\ nextTick \in Int
          /\ nextTick <= Later(now, spec.start) + p /\ p * u <= constraints.max
          /\ constraints.max \in Nat /\ Later(now, spec.start) \in Nat
      BY Ticking DEF InBounds, Within, Later
    <2>3. k \in 1..u
      BY <2>2, LeftCounts
    <2> HIDE DEF u, k, p
    <2>4. p + (k - 1) * p <= p * u
      BY <2>2, <2>3, TickOrder
    <2>5. (k - 1) * p \in Int /\ p * u \in Int
      BY <2>2, <2>3
    <2> QED BY <2>2, <2>4, <2>5 DEF u, k, p
  <1> QED BY <1>1, <1>2, <1>3, <1>4 DEF TriggerInv

\* The step Command keeps the invariant.
LEMMA CommandKeepsInv == ASSUME TriggerInv, Command PROVE TriggerInv'
  <1>1. NewSpecInBounds'
    BY DEF Command, TriggerInv, NewSpecInBounds, InBounds, Within
  <1> QED BY <1>1, AskingKeepsInv DEF Command

\* The step SetTriggerAt keeps the invariant.
LEMMA SetTriggerAtKeepsInv ==
    ASSUME TriggerInv, NEW poll \in Intervals, SetTriggerAt(poll)
    PROVE  TriggerInv'
  <1> DEFINE s == [DefaultSpec("time", poll) EXCEPT !.start = now, !.initial = FALSE]
             b == BuiltSpec(s)
             c == Constrain(b)
  <1>1. now \in Nat /\ poll \in Nat \ {0} /\ TriggerTypeOK
    BY TriggerAssumption DEF SetTriggerAt, TriggerInv, TriggerTypeOK
  <1>2. /\ s \in Specs /\ s.mechanism = "time" /\ s.poll = poll /\ s.start = now
        /\ s.flushRounds = 1
    <2> DEFINE d == DefaultSpec("time", poll)
    <2>1. d \in Specs /\ d.mechanism = "time" /\ d.poll = poll /\ d.flushRounds = 1
      BY <1>1 DEF DefaultSpec, Specs
    <2> HIDE DEF d
    <2>2. s = [d EXCEPT !.start = now, !.initial = FALSE]
      BY DEF d
    <2>3. PICK e : e = [d EXCEPT !.start = now, !.initial = FALSE]
      OBVIOUS
    <2>4. e \in Specs /\ e.mechanism = "time" /\ e.poll = poll /\ e.start = now
          /\ e.flushRounds = 1
      BY <1>1, <2>1, <2>3 DEF Specs
    <2> QED BY <2>2, <2>3, <2>4
  <1>3. newSpec' = c /\ UNCHANGED <<now, constraints>>
    BY DEF SetTriggerAt
  <1> HIDE DEF s
  <1>4. /\ b \in Specs /\ b.mechanism = "time" /\ b.poll = poll /\ b.start = now
        /\ b.flushRounds = 1
    BY <1>2, BuiltIsSpec
  <1> HIDE DEF b
  <1>5. /\ c \in Specs /\ c.mechanism = "time" /\ c.poll = poll /\ c.start = now
        /\ c.flushRounds = 1 /\ InBounds(c)
    BY <1>1, <1>4, ConstrainedIsInBounds
  <1> HIDE DEF c
  <1>6. NewSpecInBounds'
    BY <1>1, <1>3, <1>5 DEF NewSpecInBounds, InBounds, Within
  <1> QED BY <1>6, AskingKeepsInv DEF SetTriggerAt

\* A look at the configuration: the task goes on with its trigger, or with the new one, that
\* has no more than one round between flushes.
LEMMA LookKeepsInv ==
    ASSUME TriggerInv, lifecycle = "running", NEW next, Look(next),
           UNCHANGED <<lifecycle, flushAsked, constraints, now>>,
           round' \in Nat \ {0}, oldest' \in Nat \union {NoTime}, next \in Int,
           Timed => /\ now <= next /\ spec.start <= next
                    /\ next <= Later(now, spec.start) + spec.poll,
           newSpec = NoSpec => FlushInTime',
           oldest' # NoTime /\ flushAsked # NoTime => now <= oldest' + flushAsked
    PROVE  TriggerInv'
  <1>1. askedAt' = NoTime /\ newSpec' = NoSpec /\ now \in Nat
    BY DEF Look, TriggerInv, TriggerTypeOK
  <1>2. IdleBefore' /\ NewSpecInBounds' /\ LookInTime'
    BY <1>1 DEF Look, TriggerInv, IdleBefore, NewSpecInBounds, LookInTime
  <1>3. CASE newSpec = NoSpec
    <2>1. spec' = spec /\ nextTick' = next BY <1>3 DEF Look
    <2>2. TriggerTypeOK' BY <1>1, <2>1 DEF TriggerInv, TriggerTypeOK
    <2>3. FlushIsBounded' BY <2>1 DEF TriggerInv, FlushIsBounded, Within
    <2>4. TimerInTime' BY <2>1 DEF TriggerInv, TimerInTime, Timed, InBounds, Within
    <2> QED BY <1>2, <1>3, <2>2, <2>3, <2>4 DEF TriggerInv
  <1>4. CASE newSpec # NoSpec
    <2>1. spec' = newSpec /\ nextTick' = FirstTick(newSpec)
      BY <1>4 DEF Look
    <2>2. /\ newSpec \in Specs /\ newSpec.mechanism = "time" /\ newSpec.poll > 0
          /\ newSpec.flushRounds = 1 /\ newSpec.start <= now /\ InBounds(newSpec)
          /\ newSpec.start \in Nat /\ newSpec.poll \in Nat
      BY <1>4 DEF TriggerInv, NewSpecInBounds, Specs
    <2>3. nextTick' = now
      BY <1>1, <2>1, <2>2 DEF FirstTick
    <2>4. TriggerTypeOK' BY <1>1, <2>1, <2>2, <2>3 DEF TriggerInv, TriggerTypeOK
    <2>5. FlushIsBounded' BY <2>1, <2>2 DEF TriggerInv, FlushIsBounded
    <2>6. TimerInTime'
      BY <1>1, <2>1, <2>2, <2>3 DEF TimerInTime, InBounds, Within, Later
    <2>7. FlushInTime'
      <3>1. Left(1, round') = 1
        BY LeftCounts
      <3>2. TickOf(Left(spec.flushRounds, round))' = now
        BY <1>1, <2>1, <2>2, <2>3, <3>1 DEF TickOf
      <3> QED BY <3>2 DEF FlushInTime
    <2> QED BY <1>2, <2>4, <2>5, <2>6, <2>7 DEF TriggerInv
  <1> QED BY <1>3, <1>4

\* What waits in the buffer has not waited for longer than the flush interval.
LEMMA WaitsInTime ==
    ASSUME TriggerInv, lifecycle = "running", oldest # NoTime, flushAsked # NoTime
    PROVE  now <= oldest + flushAsked
  <1>1. Timed
    BY DEF TriggerInv, FlushIsBounded, Timed
  <1> DEFINE f == spec.flushRounds
             k == Left(f, round)
             p == spec.poll
  <1>2. f \in Nat \ {0} /\ round \in Nat \ {0} /\ p \in Nat /\ nextTick \in Int /\ now \in Nat
        /\ now <= nextTick /\ oldest \in Nat /\ flushAsked \in Nat
    BY <1>1, Ticking
  <1>3. k \in 1..f
    BY <1>2, LeftCounts
  <1>4. nextTick + (k - 1) * p <= oldest + flushAsked
    BY <1>1 DEF TriggerInv, FlushInTime, TickOf
  <1> HIDE DEF f, k, p
  <1>5. nextTick <= nextTick + (k - 1) * p /\ (k - 1) * p \in Int
    BY <1>2, <1>3, TickOrder
  <1> QED BY <1>2, <1>4, <1>5

\* The step Interruption keeps the invariant.
LEMMA InterruptionKeepsInv == ASSUME TriggerInv, Interruption PROVE TriggerInv'
  <1>1. /\ lifecycle = "running" /\ Look(nextTick)
        /\ UNCHANGED <<lifecycle, flushAsked, constraints, now, round, oldest>>
    BY DEF Interruption, Interrupts
  <1>2. round' \in Nat \ {0} /\ oldest' \in Nat \union {NoTime} /\ nextTick \in Int
    BY <1>1 DEF TriggerInv, TriggerTypeOK
  <1>3. Timed => /\ now <= nextTick /\ spec.start <= nextTick
                 /\ nextTick <= Later(now, spec.start) + spec.poll
    BY DEF TriggerInv, TimerInTime
  <1>4. newSpec = NoSpec => FlushInTime'
    BY <1>1 DEF Look, TriggerInv, FlushInTime, Timed, TickOf
  <1>5. oldest' # NoTime /\ flushAsked # NoTime => now <= oldest' + flushAsked
    BY <1>1, WaitsInTime
  <1> QED BY <1>1, <1>2, <1>3, <1>4, <1>5, LookKeepsInv

\* A round is the tick of the timer, or comes before it.
RoundIsDue(next) ==
    IF Timed THEN \/ next = nextTick /\ now < nextTick
                  \/ next = nextTick + spec.poll /\ now = nextTick
    ELSE next = nextTick

\* The ticks of the cycle that are left come no later after a round.
LEMMA TicksLeft ==
    ASSUME TriggerInv, Timed, NEW next, RoundIsDue(next), NEW n \in Nat \ {0}, round % n # 0
    PROVE  LET k == Left(n, round)
           IN  /\ k \in 1..n /\ Left(n, round + 1) \in Int
               /\ next + (Left(n, round + 1) - 1) * spec.poll
                     <= nextTick + (k - 1) * spec.poll
  <1> DEFINE k == Left(n, round)
             p == spec.poll
  <1>1. round \in Nat \ {0} /\ p \in Nat /\ nextTick \in Int
    BY Ticking
  <1>2. k \in 1..n /\ Left(n, round + 1) = k - 1
    BY <1>1, LeftCounts
  <1>3. next = nextTick \/ next = nextTick + p
    BY DEF RoundIsDue
  <1> HIDE DEF k, p
  <1>4. /\ (nextTick + p) + ((k - 1) - 1) * p = nextTick + (k - 1) * p
        /\ nextTick + ((k - 1) - 1) * p <= nextTick + (k - 1) * p
    BY <1>1, <1>2, TickOrder
  <1>5. (k - 1) * p \in Int
    BY <1>1, <1>2
  <1>6. next + ((k - 1) - 1) * p <= nextTick + (k - 1) * p
    BY <1>1, <1>3, <1>4, <1>5
  <1> QED BY <1>2, <1>6 DEF k, p

\* The measurements that a round leaves in the buffer are flushed in time.
LEMMA RoundFlushesInTime ==
    ASSUME TriggerInv, lifecycle = "running", NEW next, RoundIsDue(next), PollRound(next),
           nextTick' = next, spec' = spec
    PROVE  FlushInTime'
  <1>1. /\ round' = round + 1 /\ UNCHANGED <<lifecycle, flushAsked, constraints, now>>
        /\ oldest' = IF ~Keeps THEN NoTime
                     ELSE IF oldest = NoTime THEN Later(now, spec.start) ELSE oldest
    BY DEF PollRound
  <1> SUFFICES ASSUME Timed, Keeps, flushAsked # NoTime
               PROVE  next + (Left(spec.flushRounds, round + 1) - 1) * spec.poll
                         <= oldest' + flushAsked
    BY <1>1 DEF FlushInTime, Timed, TickOf
  <1> DEFINE f == spec.flushRounds
             k == Left(f, round)
             p == spec.poll
             final == nextTick + (k - 1) * p
             later == next + (Left(f, round + 1) - 1) * p
  <1>2. f \in Nat \ {0} /\ round \in Nat \ {0} /\ p \in Nat /\ nextTick \in Int /\ now \in Nat
        /\ flushAsked \in Nat /\ spec.start \in Nat /\ oldest \in Nat \union {NoTime}
        /\ nextTick <= Later(now, spec.start) + p
    BY Ticking
  <1>3. round % f # 0
    BY DEF Keeps
  <1>4. k \in 1..f /\ Left(f, round + 1) \in Int /\ later <= final
    BY <1>2, <1>3, TicksLeft
  <1>5. next \in Int
    BY <1>2 DEF RoundIsDue
  <1>6. later \in Int /\ final \in Int
    BY <1>2, <1>4, <1>5
  <1>7. CASE oldest # NoTime
    <2>1. final <= oldest + flushAsked
      BY <1>7 DEF TriggerInv, FlushInTime, TickOf
    <2>2. oldest' = oldest /\ oldest \in Nat
      BY <1>1, <1>2, <1>7
    <2> HIDE DEF later, final
    <2>3. later <= oldest' + flushAsked
      BY <1>2, <1>4, <1>6, <2>1, <2>2
    <2> QED BY <2>3 DEF later
  <1>8. CASE oldest = NoTime
    <2>1. oldest' = Later(now, spec.start) /\ oldest' \in Nat
      BY <1>1, <1>2, <1>8 DEF Later
    <2>2. f # 1
      BY <1>2, <1>3
    <2>3. p * f <= flushAsked
      BY <2>2 DEF TriggerInv, FlushIsBounded, Within
    <2> HIDE DEF k, f, p
    <2>4. p + (k - 1) * p <= p * f
      BY <1>2, <1>4, TickOrder
    <2>5. (k - 1) * p \in Int /\ p * f \in Int
      BY <1>2, <1>4
    <2>6. final <= oldest' + flushAsked
      BY <1>2, <2>1, <2>3, <2>4, <2>5
    <2> HIDE DEF later, final
    <2>7. later <= oldest' + flushAsked
      BY <1>2, <1>4, <1>6, <2>1, <2>6
    <2> QED BY <2>7 DEF later, f, p
  <1> QED BY <1>7, <1>8

\* The step PollRound keeps the invariant.
LEMMA PollRoundKeepsInv ==
    ASSUME TriggerInv, lifecycle = "running", NEW next, RoundIsDue(next), PollRound(next)
    PROVE  TriggerInv'
  <1>1. /\ round' = round + 1
        /\ UNCHANGED <<lifecycle, flushAsked, constraints, now, interrupt>>
        /\ oldest' = IF ~Keeps THEN NoTime
                     ELSE IF oldest = NoTime THEN Later(now, spec.start) ELSE oldest
    BY DEF PollRound
  <1>2. /\ round \in Nat \ {0} /\ now \in Nat /\ nextTick \in Int /\ spec \in Specs
        /\ spec.start \in Nat /\ spec.poll \in Nat /\ oldest \in Nat \union {NoTime}
        /\ flushAsked \in Nat \union {NoTime}
    BY DEF TriggerInv, TriggerTypeOK, Specs
  <1>3. round' \in Nat \ {0} /\ oldest' \in Nat \union {NoTime} /\ next \in Int
    BY <1>1, <1>2 DEF Later, RoundIsDue
  <1>4. Timed => /\ now <= next /\ spec.start <= next
                 /\ next <= Later(now, spec.start) + spec.poll
    <2> SUFFICES ASSUME Timed
                 PROVE  /\ now <= next /\ spec.start <= next
                        /\ next <= Later(now, spec.start) + spec.poll
      OBVIOUS
    <2> QED BY Ticking, <1>2 DEF RoundIsDue, Later
  <1>5. CASE round % spec.updateRounds = 0
    <2>1. Look(next)
      BY <1>5 DEF PollRound
    <2>2. newSpec = NoSpec => FlushInTime'
      BY <2>1, RoundFlushesInTime DEF Look
    <2>3. oldest' # NoTime /\ flushAsked # NoTime => now <= oldest' + flushAsked
      BY <1>1, <1>2, WaitsInTime DEF Later
    <2> QED BY <1>1, <1>3, <1>4, <2>1, <2>2, <2>3, LookKeepsInv
  <1>6. CASE round % spec.updateRounds # 0
    <2>1. nextTick' = next /\ UNCHANGED <<spec, newSpec, askedAt>>
      BY <1>6 DEF PollRound
    <2>2. TriggerTypeOK'
      BY <1>1, <1>3, <2>1 DEF TriggerInv, TriggerTypeOK
    <2>3. FlushIsBounded' /\ IdleBefore' /\ NewSpecInBounds'
      BY <1>1, <2>1
      DEF TriggerInv, FlushIsBounded, IdleBefore, NewSpecInBounds, InBounds, Within
    <2>4. TimerInTime'
      BY <1>1, <1>4, <2>1 DEF TriggerInv, TimerInTime, Timed, InBounds, Within
    <2>5. FlushInTime'
      BY <2>1, RoundFlushesInTime
    <2>6. LookInTime'
      <3> SUFFICES ASSUME askedAt # NoTime, Timed, ~spec.interruptible
                   PROVE  next + (Left(spec.updateRounds, round + 1) - 1) * spec.poll
                             <= Later(askedAt, spec.start) + constraints.max
        BY <1>1, <2>1 DEF TriggerInv, LookInTime, Timed, TickOf
      <3> DEFINE u == spec.updateRounds
                 final == nextTick + (Left(u, round) - 1) * spec.poll
                 later == next + (Left(u, round + 1) - 1) * spec.poll
                 limit == Later(askedAt, spec.start) + constraints.max
      <3>1. u \in Nat \ {0} /\ limit \in Int
        BY Ticking DEF Later, NoTime
      <3>2. Left(u, round) \in Int /\ Left(u, round + 1) \in Int /\ later <= final
        BY <1>6, <3>1, TicksLeft
      <3>3. later \in Int /\ final \in Int
        BY <1>2, <1>3, <3>2
      <3>4. final <= limit
        BY DEF TriggerInv, LookInTime, TickOf
      <3> HIDE DEF later, final, limit
      <3>5. later <= limit
        BY <3>1, <3>2, <3>3, <3>4
      <3> QED BY <3>5 DEF later, limit
    <2> QED BY <2>2, <2>3, <2>4, <2>5, <2>6 DEF TriggerInv
  <1> QED BY <1>5, <1>6

\* A tick of the timer, or by hand, keeps the invariant.
LEMMA TicksKeepInv == ASSUME TriggerInv, TimerTick \/ ManualTick PROVE TriggerInv'
  <1>1. now \in Nat /\ nextTick \in Int /\ (Timed => now <= nextTick)
    BY DEF TriggerInv, TriggerTypeOK, TimerInTime
  <1>2. CASE TimerTick
    <2>1. RoundIsDue(nextTick + spec.poll) /\ lifecycle = "running"
      BY <1>1, <1>2 DEF TimerTick, Ticks, Timed, RoundIsDue
    <2> QED BY <1>2, <2>1, PollRoundKeepsInv DEF TimerTick
  <1>3. CASE ManualTick
    <2>1. RoundIsDue(nextTick) /\ lifecycle = "running"
      BY <1>1, <1>3 DEF ManualTick, TakesManual, Ticks, Timed, RoundIsDue
    <2> QED BY <1>3, <2>1, PollRoundKeepsInv DEF ManualTick
  <1> QED BY <1>2, <1>3

\* The step Elapse keeps the invariant.
LEMMA ElapseKeepsInv == ASSUME TriggerInv, Elapse PROVE TriggerInv'
  <1>1. /\ lifecycle = "running" /\ ~Ticks /\ ~Interrupts /\ now' = now + 1
        /\ UNCHANGED <<spec, lifecycle, flushAsked, constraints, nextTick, round, oldest, askedAt,
                       newSpec, interrupt>>
    BY DEF Elapse
  <1>2. now \in Nat /\ nextTick \in Int
    BY DEF TriggerInv, TriggerTypeOK
  <1>3. TriggerTypeOK'
    BY <1>1, <1>2 DEF TriggerInv, TriggerTypeOK
  <1>4. FlushIsBounded' /\ IdleBefore'
    BY <1>1 DEF TriggerInv, FlushIsBounded, IdleBefore, Within
  <1>5. NewSpecInBounds'
    <2> SUFFICES ASSUME newSpec # NoSpec PROVE NewSpecInBounds'
      BY <1>1 DEF NewSpecInBounds
    <2>1. newSpec.start \in Nat /\ newSpec.start <= now
      BY DEF TriggerInv, NewSpecInBounds, Specs
    <2> QED BY <1>1, <1>2, <2>1 DEF TriggerInv, NewSpecInBounds, InBounds, Within
  <1>6. TimerInTime'
    <2> SUFFICES ASSUME Timed PROVE TimerInTime'
      BY <1>1 DEF TimerInTime, Timed
    <2>1. now < nextTick
      BY <1>1, <1>2 DEF Timed, Ticks
    <2>2. /\ spec.start <= nextTick /\ nextTick <= Later(now', spec.start) + spec.poll
          /\ InBounds(spec)
      BY <1>1, <1>2, Ticking DEF Later
    <2> QED BY <1>1, <1>2, <2>1, <2>2 DEF TimerInTime, InBounds, Within
  <1>7. LookInTime'
    <2> SUFFICES ASSUME askedAt # NoTime PROVE LookInTime'
      BY <1>1 DEF LookInTime
    <2>1. interrupt /\ askedAt <= now /\ askedAt \in Nat
      BY DEF TriggerInv, LookInTime, TriggerTypeOK
    <2>2. ~spec.interruptible
      BY <1>1, <2>1 DEF Interrupts
    <2>3. askedAt <= now + 1
      BY <1>2, <2>1
    <2> QED BY <1>1, <2>1, <2>2, <2>3 DEF TriggerInv, LookInTime, Timed, TickOf
  <1>8. FlushInTime'
    BY <1>1 DEF TriggerInv, FlushInTime, Timed, TickOf
  <1> QED BY <1>3, <1>4, <1>5, <1>6, <1>7, <1>8 DEF TriggerInv

\* A manual trigger, and a step of something else, change nothing of it.
LEMMA IdleKeepsInv ==
    ASSUME TriggerInv, TriggerManually \/ UNCHANGED triggerSpecVars PROVE TriggerInv'
  <1>1. UNCHANGED <<spec, lifecycle, flushAsked, constraints, now, nextTick, round, oldest,
                    askedAt, newSpec, interrupt>>
    BY DEF TriggerManually, triggerSpecVars
  <1>2. TriggerTypeOK' /\ FlushIsBounded' /\ IdleBefore' /\ NewSpecInBounds'
    BY <1>1 DEF TriggerInv, TriggerTypeOK, FlushIsBounded, IdleBefore, NewSpecInBounds, InBounds,
                Within
  <1>3. TimerInTime' /\ LookInTime' /\ FlushInTime'
    BY <1>1 DEF TriggerInv, TimerInTime, LookInTime, FlushInTime, Timed, InBounds, Within, TickOf
  <1> QED BY <1>2, <1>3 DEF TriggerInv

\* The invariant of the triggers holds in every run.
LEMMA TriggerInvInvariant == TriggerSpecsSpec => []TriggerInv
  <1>1. TriggerSpecsInit => TriggerInv
    <2> SUFFICES ASSUME TriggerSpecsInit PROVE TriggerInv
      OBVIOUS
    <2>1. TriggerTypeOK
      BY DEF TriggerSpecsInit, TriggerTypeOK, NoTime
    <2>2. FlushIsBounded /\ IdleBefore /\ NewSpecInBounds
      BY DEF TriggerSpecsInit, FlushIsBounded, IdleBefore, NewSpecInBounds
    <2>3. TimerInTime /\ LookInTime /\ FlushInTime
      BY DEF TriggerSpecsInit, TimerInTime, LookInTime, FlushInTime, Timed
    <2> QED BY <2>1, <2>2, <2>3 DEF TriggerInv
  <1>2. ASSUME TriggerInv, [TriggerSpecsNext]_triggerSpecVars PROVE TriggerInv'
    <2>1. Intervals \subseteq Nat
      BY TriggerAssumption
    <2>2. CASE \/ \E poll \in Intervals : NewBuilder("time", poll)
               \/ NewBuilder("manual", 0)
      BY <1>2, <2>1, <2>2, NewBuilderKeepsInv
    <2>3. CASE \E time \in Intervals : StartingAt(time)
      BY <1>2, <2>3, StartingAtKeepsInv
    <2>4. CASE \E rounds \in Rounds : FlushRounds(rounds) \/ UpdateRounds(rounds)
      BY <1>2, <2>4, RoundsKeepInv
    <2>5. CASE \E interval \in Intervals : FlushInterval(interval)
      BY <1>2, <2>5, FlushIntervalKeepsInv
    <2>6. CASE \E interval \in Intervals : UpdateInterval(interval)
      BY <1>2, <2>6, UpdateIntervalKeepsInv
    <2>7. CASE \/ RealtimePriority \/ AllowManualTrigger
               \/ \E interruptible \in BOOLEAN : SetInterruptible(interruptible)
      BY <1>2, <2>7, FlagsKeepInv
    <2>8. CASE BuildSpec
      BY <1>2, <2>8, BuildSpecKeepsInv
    <2>9. CASE CreateManaged
      BY <1>2, <2>9, CreateManagedKeepsInv
    <2>10. CASE TimerTick \/ ManualTick
      BY <1>2, <2>10, TicksKeepInv
    <2>11. CASE Interruption
      BY <1>2, <2>11, InterruptionKeepsInv
    <2>12. CASE Elapse
      BY <1>2, <2>12, ElapseKeepsInv
    <2>13. CASE Command
      BY <1>2, <2>13, CommandKeepsInv
    <2>14. CASE \E poll \in Intervals : SetTriggerAt(poll)
      BY <1>2, <2>14, SetTriggerAtKeepsInv
    <2>15. CASE TriggerManually \/ UNCHANGED triggerSpecVars
      BY <1>2, <2>15, IdleKeepsInv
    <2> QED BY <1>2, <2>2, <2>3, <2>4, <2>5, <2>6, <2>7, <2>8, <2>9, <2>10, <2>11, <2>12, <2>13,
               <2>14, <2>15 DEF TriggerSpecsNext
  <1> QED BY <1>1, <1>2, PTL DEF TriggerSpecsSpec

\* Commands are looked at, and measurements flushed, within their intervals.
THEOREM TriggersKeepTime == TriggerSpecsSpec => []TriggersInTime
  <1>1. ASSUME TriggerInv PROVE TriggersInTime
    <2> SUFFICES ASSUME Timed PROVE TriggersInTime
      BY DEF TriggersInTime, Timed
    <2>1. ASSUME askedAt # NoTime PROVE now - Later(askedAt, spec.start) =< constraints.max
      <3>1. CASE spec.interruptible
        <4>1. now = askedAt
          BY <1>1, <2>1, <3>1 DEF TriggerInv, LookInTime
        <4> QED BY <1>1, <4>1, Ticking DEF Later
      <3>2. CASE ~spec.interruptible
        <4> DEFINE u == spec.updateRounds
                   k == Left(u, round)
                   p == spec.poll
                   limit == Later(askedAt, spec.start)
        <4>1. /\ u \in Nat \ {0} /\ round \in Nat \ {0} /\ p \in Nat /\ nextTick \in Int
              /\ now \in Nat /\ now <= nextTick /\ limit \in Nat /\ constraints.max \in Nat
          BY <1>1, <2>1, Ticking DEF Later
        <4>2. k \in 1..u
          BY <4>1, LeftCounts
        <4>3. nextTick + (k - 1) * p <= limit + constraints.max
          BY <1>1, <2>1, <3>2 DEF TriggerInv, LookInTime, TickOf
        <4> HIDE DEF u, k, p, limit
        <4>4. nextTick <= nextTick + (k - 1) * p /\ (k - 1) * p \in Int
          BY <4>1, <4>2, TickOrder
        <4>5. now - limit <= constraints.max
          BY <4>1, <4>3, <4>4
        <4> QED BY <4>5 DEF limit
      <3> QED BY <3>1, <3>2
    <2>2. ASSUME oldest # NoTime, flushAsked # NoTime PROVE now - oldest =< flushAsked
      <3>1. now <= oldest + flushAsked
        BY <1>1, <2>2, WaitsInTime DEF Timed
      <3>2. now \in Nat /\ oldest \in Nat /\ flushAsked \in Nat
        BY <1>1, <2>2, Ticking
      <3> QED BY <3>1, <3>2
    <2> QED BY <2>1, <2>2 DEF TriggersInTime
  <1> QED BY <1>1, TriggerInvInvariant, PTL

-------------------------------------------------------------------------------
(* Commands: the texts of a selector.                                        *)

LEMMA PrefixMeans ==
    ASSUME NEW S, NEW p \in Seq(S), NEW t \in Seq(S)
    PROVE  IsPrefix(p, t) <=> /\ Len(p) <= Len(t)
                              /\ \A j \in 1..Len(p) : p[j] = t[j]
  <1>1. SubSeq(p, 1, Len(p)) = p
    OBVIOUS
  <1> SUFFICES ASSUME Len(p) <= Len(t)
               PROVE  p = SubSeq(t, 1, Len(p)) <=> \A j \in 1..Len(p) : p[j] = t[j]
    BY <1>1 DEF IsPrefix
  <1>2. SubSeq(t, 1, Len(p)) \in Seq(S) /\ Len(SubSeq(t, 1, Len(p))) = Len(p)
        /\ \A j \in 1..Len(p) : SubSeq(t, 1, Len(p))[j] = t[j]
    OBVIOUS
  <1> DEFINE q == SubSeq(t, 1, Len(p))
  <1> HIDE DEF q
  <1>3. (\A j \in 1..Len(p) : p[j] = q[j]) => p = q
    BY <1>2, SeqEqual DEF q
  <1> QED BY <1>2, <1>3 DEF q

\* What it means for a sequence to end with another, element by element.
LEMMA SuffixMeans ==
    ASSUME NEW S, NEW p \in Seq(S), NEW t \in Seq(S)
    PROVE  IsSuffix(p, t) <=> /\ Len(p) <= Len(t)
                              /\ \A j \in 1..Len(p) : p[j] = t[Len(t) - Len(p) + j]
  <1> DEFINE r == Reverse(p)
             u == Reverse(t)
             m == Len(p)
             n == Len(t)
  <1>1. m \in Nat /\ n \in Nat
    OBVIOUS
  <1>2. r \in Seq(S) /\ Len(r) = m /\ \A j \in 1..m : r[j] = p[m - j + 1]
    BY DEF Reverse
  <1>3. u \in Seq(S) /\ Len(u) = n /\ \A j \in 1..n : u[j] = t[n - j + 1]
    BY DEF Reverse
  <1>4. IsSuffix(p, t) <=> m <= n /\ \A j \in 1..m : r[j] = u[j]
    BY <1>2, <1>3, PrefixMeans DEF IsSuffix
  <1> HIDE DEF r, u, m, n
  <1>5. ASSUME m <= n
        PROVE  (\A j \in 1..m : r[j] = u[j]) <=> (\A j \in 1..m : p[j] = t[n - m + j])
    <2>1. ASSUME \A j \in 1..m : r[j] = u[j], NEW j \in 1..m
          PROVE  p[j] = t[n - m + j]
      <3> DEFINE i == m - j + 1
      <3>1. i \in 1..m /\ i \in 1..n /\ m - i + 1 = j /\ n - i + 1 = n - m + j
        BY <1>1, <1>5
      <3> HIDE DEF i
      <3> QED BY SMTT(30), <1>2, <1>3, <2>1, <3>1
    <2>2. ASSUME \A j \in 1..m : p[j] = t[n - m + j], NEW j \in 1..m
          PROVE  r[j] = u[j]
      <3> DEFINE i == m - j + 1
      <3>1. i \in 1..m /\ j \in 1..n /\ i = m - j + 1 /\ n - j + 1 = n - m + i
        BY <1>1, <1>5
      <3> HIDE DEF i
      <3>2. r[j] = p[i] BY <1>2, <3>1
      <3>3. p[i] = t[n - m + i] BY <2>2, <3>1
      <3>4. u[j] = t[n - j + 1] BY <1>3, <3>1
      <3> QED BY <3>1, <3>2, <3>3, <3>4
    <2> QED BY <2>1, <2>2
  <1> QED BY <1>4, <1>5 DEF m, n

\* A star at one end stands for a part of the name.
LEMMA Joined ==
    ASSUME NEW S, NEW s \in Seq(S), NEW t \in Seq(S), NEW c, c = s \o t
    PROVE  /\ c \in Seq(S) /\ Len(c) = Len(s) + Len(t)
           /\ \A j \in 1..Len(s) : c[j] = s[j]
           /\ \A j \in 1..Len(t) : c[Len(s) + j] = t[j]
           /\ <<>> \o s = s /\ c \o <<>> = c
  OBVIOUS

\* The text of a pattern without a star is matched by itself only.
LEMMA ExactMeans ==
    ASSUME NEW text \in Texts, NEW name \in Texts, Star \notin ToSet(text)
    PROVE  Glob(text, name) <=> text = name
  BY DEF Glob, ToSet

\* The pattern * matches every name.
LEMMA AnyMeans == ASSUME NEW name \in Texts PROVE Glob(<<Star>>, name)
  <1>1. name \in Seq(STRING) /\ Len(name) \in Nat
    BY DEF Texts
  <1>2. SubSeq(name, 1, Len(name)) = name
    BY <1>1
  <1> DEFINE text == <<Star>>
  <1>3. SubSeq(text, 1, 1 - 1) = <<>> /\ SubSeq(text, 1 + 1, Len(text)) = <<>>
    OBVIOUS
  <1>4. 1 \in DOMAIN text /\ text[1] = Star
    OBVIOUS
  <1>5. 1 \in 1..Len(name) + 1 /\ Len(name) \in 0..Len(name) /\ 1 =< Len(name) + 1
    BY <1>1
  <1>6. <<>> \o name \o <<>> = name
    BY <1>1
  <1> HIDE DEF text
  <1>7. SubSeq(text, 1, 1 - 1) \o SubSeq(name, 1, Len(name)) \o SubSeq(text, 1 + 1, Len(text))
           = name
    BY <1>2, <1>3, <1>6
  <1>8. Glob(text, name)
    BY <1>4, <1>5, <1>7 DEF Glob
  <1> QED BY <1>8 DEF text

\* A star at the beginning: the rest is the end of the name.
LEMMA EndMeans ==
    ASSUME NEW text \in Texts, NEW name \in Texts, text # <<>>, Head(text) = Star,
           Star \notin ToSet(Tail(text))
    PROVE  Glob(text, name) <=> IsSuffix(Tail(text), name)
  <1> DEFINE fixed == Tail(text)
             m == Len(fixed)
             n == Len(name)
  <1>1. /\ text \in Seq(STRING) /\ name \in Seq(STRING) /\ fixed \in Seq(STRING)
        /\ m \in Nat /\ n \in Nat /\ Len(text) = m + 1 /\ text[1] = Star
        /\ \A j \in 1..m : fixed[j] = text[j + 1]
    BY DEF Texts
  <1>2. IsSuffix(fixed, name) <=> m <= n /\ \A j \in 1..m : fixed[j] = name[n - m + j]
    BY <1>1, SuffixMeans
  <1>3. \A i \in DOMAIN text : text[i] = Star => i = 1
    <2> SUFFICES ASSUME NEW i \in DOMAIN text, i # 1 PROVE text[i] # Star
      OBVIOUS
    <2>1. i - 1 \in 1..m /\ (i - 1) + 1 = i
      BY <1>1
    <2>2. fixed[i - 1] # Star
      <3>1. i - 1 \in DOMAIN fixed BY <2>1, <1>1
      <3> QED BY <3>1 DEF ToSet
    <2> QED BY <1>1, <2>1, <2>2
  <1>4. SubSeq(text, 1, 1 - 1) = <<>> /\ SubSeq(text, 1 + 1, Len(text)) = fixed
    <2>1. SubSeq(text, 1, 0) = <<>> BY <1>1
    <2>2. SubSeq(text, 2, Len(text)) = fixed BY <1>1
    <2> QED BY <2>1, <2>2
  <1> HIDE DEF fixed, m, n
  <1>5. ASSUME NEW a \in 1..n + 1, NEW b \in 0..n, a =< b + 1,
               <<>> \o SubSeq(name, a, b) \o fixed = name
        PROVE  IsSuffix(fixed, name)
    <2> DEFINE mid == SubSeq(name, a, b)
    <2>1. mid \in Seq(STRING) /\ Len(mid) \in Nat
      BY <1>1, <1>5 DEF n
    <2>2. <<>> \o mid = mid /\ mid \o fixed = name
      BY <2>1, <1>5
    <2> HIDE DEF mid
    <2>3. /\ Len(name) = Len(mid) + Len(fixed)
          /\ \A j \in 1..Len(fixed) : name[Len(mid) + j] = fixed[j]
      BY <1>1, <2>1, <2>2, Joined
    <2>4. n = Len(mid) + m /\ \A j \in 1..m : name[n - m + j] = fixed[j]
      BY <2>3, <2>1, <1>1 DEF m, n
    <2> QED BY <2>4, <1>2, <2>1, <1>1
  <1>6. ASSUME IsSuffix(fixed, name) PROVE Glob(text, name)
    <2> DEFINE b == n - m
               mid == SubSeq(name, 1, b)
    <2>1. m <= n /\ \A j \in 1..m : fixed[j] = name[n - m + j]
      BY <1>2, <1>6
    <2>2. b \in 0..n /\ 1 \in 1..n + 1 /\ 1 =< b + 1
      BY <1>1, <2>1
    <2>3. mid \in Seq(STRING) /\ Len(mid) = b /\ \A j \in 1..b : mid[j] = name[j]
      BY <1>1, <2>2 DEF n
    <2>4. <<>> \o mid = mid
      BY <2>3
    <2> HIDE DEF mid, b
    <2>c. PICK c : c = mid \o fixed
      OBVIOUS
    <2>5. /\ c \in Seq(STRING) /\ Len(c) = Len(mid) + Len(fixed)
          /\ \A j \in 1..Len(mid) : c[j] = mid[j]
          /\ \A j \in 1..Len(fixed) : c[Len(mid) + j] = fixed[j]
      <3>1. mid \in Seq(STRING) /\ fixed \in Seq(STRING) BY <1>1, <2>3
      <3> QED BY <2>c, <3>1, Joined
    <2>6. Len(c) = n
      BY <1>1, <2>2, <2>3, <2>5 DEF b, m
    <2>7. ASSUME NEW j \in 1..n PROVE c[j] = name[j]
      <3>1. CASE j \in 1..b
        BY <3>1, <2>3, <2>5
      <3>2. CASE j > b
        <4>1. j - b \in 1..m /\ n - m + (j - b) = j /\ b + (j - b) = j
          BY <1>1, <2>2, <3>2 DEF b
        <4>2. c[b + (j - b)] = fixed[j - b]
          BY <2>3, <2>5, <4>1 DEF m
        <4> QED BY <2>1, <4>1, <4>2
      <3> QED BY <2>2, <3>1, <3>2, <1>1
    <2>8. c = name
      BY <1>1, <2>5, <2>6, <2>7, SeqEqual DEF n
    <2>9. SubSeq(text, 1, 1 - 1) \o SubSeq(name, 1, b) \o SubSeq(text, 1 + 1, Len(text)) = name
      BY <2>8, <2>c, <1>4, <2>4 DEF mid
    <2>10. 1 \in DOMAIN text
      BY <1>1
    <2> QED BY <1>1, <2>2, <2>9, <2>10 DEF Glob, n
  <1>7. ASSUME Glob(text, name) PROVE IsSuffix(fixed, name)
    <2>1. CASE text = name
      <3>1. n = m + 1 /\ \A j \in 1..m : fixed[j] = name[n - m + j]
        <4>1. n = m + 1 BY <2>1, <1>1 DEF n
        <4>2. \A j \in 1..m : n - m + j = j + 1 BY <4>1, <1>1
        <4> QED BY <4>1, <4>2, <2>1, <1>1
      <3> QED BY <3>1, <1>2, <1>1
    <2>2. CASE text # name
      <3>1. PICK i \in DOMAIN text :
               /\ text[i] = Star
               /\ \E a \in 1..Len(name) + 1, b \in 0..Len(name) :
                     /\ a =< b + 1
                     /\ SubSeq(text, 1, i - 1) \o SubSeq(name, a, b)
                          \o SubSeq(text, i + 1, Len(text)) = name
        BY <1>7, <2>2 DEF Glob
      <3>2. i = 1
        BY <1>3, <3>1
      <3>3. \E a \in 1..n + 1, b \in 0..n :
                 a =< b + 1 /\ <<>> \o SubSeq(name, a, b) \o fixed = name
        BY <3>1, <3>2, <1>4 DEF n
      <3> QED BY <3>3, <1>5
    <2> QED BY <2>1, <2>2
  <1> QED BY <1>6, <1>7 DEF fixed

\* A star at the end: the rest is the beginning of the name.
LEMMA StartMeans ==
    ASSUME NEW text \in Texts, NEW name \in Texts, text # <<>>, Last(text) = Star,
           Star \notin ToSet(Front(text))
    PROVE  Glob(text, name) <=> IsPrefix(Front(text), name)
  <1> DEFINE fixed == Front(text)
             m == Len(fixed)
             n == Len(name)
  <1>1. /\ text \in Seq(STRING) /\ name \in Seq(STRING) /\ fixed \in Seq(STRING)
        /\ m \in Nat /\ n \in Nat /\ Len(text) = m + 1 /\ text[m + 1] = Star
        /\ \A j \in 1..m : fixed[j] = text[j]
    <2>1. text \in Seq(STRING) /\ name \in Seq(STRING) /\ Len(text) \in Nat \ {0}
      BY DEF Texts
    <2>2. /\ SubSeq(text, 1, Len(text) - 1) \in Seq(STRING)
          /\ Len(SubSeq(text, 1, Len(text) - 1)) = Len(text) - 1
          /\ \A j \in 1..Len(text) - 1 : SubSeq(text, 1, Len(text) - 1)[j] = text[j]
      <3> DEFINE k == Len(text) - 1
      <3>1. k \in Nat /\ k <= Len(text) BY <2>1
      <3> HIDE DEF k
      <3>2. /\ SubSeq(text, 1, k) \in Seq(STRING) /\ Len(SubSeq(text, 1, k)) = k
            /\ \A j \in 1..k : SubSeq(text, 1, k)[j] = text[j]
        BY <2>1, <3>1
      <3> QED BY <3>2 DEF k
    <2>3. Len(name) \in Nat /\ text[Len(text)] = Star
      BY <2>1 DEF Last
    <2> HIDE DEF n
    <2> QED BY <2>1, <2>2, <2>3 DEF Front, n
  <1>2. IsPrefix(fixed, name) <=> m <= n /\ \A j \in 1..m : fixed[j] = name[j]
    BY <1>1, PrefixMeans
  <1>3. \A i \in DOMAIN text : text[i] = Star => i = m + 1
    <2> SUFFICES ASSUME NEW i \in DOMAIN text, i # m + 1 PROVE text[i] # Star
      OBVIOUS
    <2>1. i \in 1..m
      BY <1>1
    <2>2. fixed[i] # Star
      <3>1. i \in DOMAIN fixed BY <2>1, <1>1
      <3> QED BY <3>1 DEF ToSet
    <2> QED BY <1>1, <2>1, <2>2
  <1>4. SubSeq(text, 1, (m + 1) - 1) = fixed /\ SubSeq(text, (m + 1) + 1, Len(text)) = <<>>
    <2>1. SubSeq(text, 1, (m + 1) - 1) = fixed BY <1>1 DEF Front
    <2>2. (m + 1) + 1 > Len(text) BY <1>1
    <2>3. SubSeq(text, (m + 1) + 1, Len(text)) = <<>> BY <1>1, <2>2
    <2> QED BY <2>1, <2>3
  <1> HIDE DEF fixed, m, n
  <1>5. ASSUME NEW a \in 1..n + 1, NEW b \in 0..n, a =< b + 1,
               fixed \o SubSeq(name, a, b) \o <<>> = name
        PROVE  IsPrefix(fixed, name)
    <2> DEFINE mid == SubSeq(name, a, b)
    <2>1. mid \in Seq(STRING)
      BY <1>1, <1>5 DEF n
    <2> HIDE DEF mid
    <2>2. PICK c : c = fixed \o mid
      OBVIOUS
    <2>3. /\ Len(c) = Len(fixed) + Len(mid) /\ c \o <<>> = c
          /\ \A j \in 1..Len(fixed) : c[j] = fixed[j]
      BY <1>1, <2>1, <2>2, Joined
    <2>4. c = name
      BY <1>5, <2>2, <2>3 DEF mid
    <2> QED BY <1>1, <1>2, <2>1, <2>3, <2>4 DEF m, n
  <1>6. ASSUME IsPrefix(fixed, name) PROVE Glob(text, name)
    <2> DEFINE a == m + 1
               mid == SubSeq(name, a, n)
    <2>1. m <= n /\ \A j \in 1..m : fixed[j] = name[j]
      BY <1>2, <1>6
    <2>2. a \in 1..n + 1 /\ n \in 0..n /\ a =< n + 1
      BY <1>1, <2>1
    <2>3. mid \in Seq(STRING) /\ Len(mid) = n - m /\ \A j \in 1..(n - m) : mid[j] = name[m + j]
      BY <1>1, <2>1, <2>2 DEF n
    <2> HIDE DEF mid, a
    <2>4. PICK c : c = fixed \o mid
      OBVIOUS
    <2>5. /\ c \in Seq(STRING) /\ Len(c) = Len(fixed) + Len(mid) /\ c \o <<>> = c
          /\ \A j \in 1..Len(fixed) : c[j] = fixed[j]
          /\ \A j \in 1..Len(mid) : c[Len(fixed) + j] = mid[j]
      <3>1. mid \in Seq(STRING) /\ fixed \in Seq(STRING) BY <1>1, <2>3
      <3> QED BY <2>4, <3>1, Joined
    <2>6. Len(c) = n
      BY <1>1, <2>3, <2>5 DEF m
    <2>7. ASSUME NEW j \in 1..n PROVE c[j] = name[j]
      <3>1. CASE j \in 1..m
        BY <3>1, <2>1, <2>5 DEF m
      <3>2. CASE j > m
        <4>1. j - m \in 1..(n - m) /\ m + (j - m) = j
          BY <1>1, <3>2
        <4>2. c[m + (j - m)] = mid[j - m]
          BY <2>3, <2>5, <4>1 DEF m
        <4> QED BY <2>3, <4>1, <4>2
      <3> QED BY <1>1, <3>1, <3>2
    <2>8. c = name
      BY <1>1, <2>5, <2>6, <2>7, SeqEqual DEF n
    <2>9. SubSeq(text, 1, (m + 1) - 1) \o SubSeq(name, a, n) \o SubSeq(text, (m + 1) + 1, Len(text))
             = name
      BY <2>4, <2>5, <2>8, <1>4 DEF mid
    <2>10. m + 1 \in DOMAIN text
      BY <1>1
    <2> QED BY <1>1, <2>2, <2>9, <2>10 DEF Glob, n
  <1>7. ASSUME Glob(text, name) PROVE IsPrefix(fixed, name)
    <2>1. CASE text = name
      <3>1. n = m + 1 /\ \A j \in 1..m : fixed[j] = name[j]
        BY <2>1, <1>1 DEF n
      <3> QED BY <3>1, <1>2, <1>1
    <2>2. CASE text # name
      <3>1. PICK i \in DOMAIN text :
               /\ text[i] = Star
               /\ \E a \in 1..Len(name) + 1, b \in 0..Len(name) :
                     /\ a =< b + 1
                     /\ SubSeq(text, 1, i - 1) \o SubSeq(name, a, b)
                          \o SubSeq(text, i + 1, Len(text)) = name
        BY <1>7, <2>2 DEF Glob
      <3>2. i = m + 1
        BY <1>3, <3>1
      <3>3. \E a \in 1..n + 1, b \in 0..n :
                 a =< b + 1 /\ fixed \o SubSeq(name, a, b) \o <<>> = name
        BY <3>1, <3>2, <1>4 DEF n
      <3> QED BY <3>3, <1>5
    <2> QED BY <2>1, <2>2
  <1> QED BY <1>6, <1>7 DEF fixed

\* The parser reads a pattern as it means.
THEOREM PatternMeans ==
    ASSUME NEW text \in Texts, NEW name \in Texts, StringPattern(text) # InvalidPattern
    PROVE  MatchesText(StringPattern(text), name) <=> Glob(text, name)
  <1>1. text # <<>> /\ text \in Seq(STRING) /\ Len(text) > 0
    <2>1. text # <<>> BY DEF StringPattern
    <2> QED BY <2>1 DEF Texts
  <1>2. CASE text = <<Star>>
    <2>1. StringPattern(text) = [match |-> "any", part |-> <<>>]
      BY <1>1, <1>2 DEF StringPattern
    <2>2. MatchesText(StringPattern(text), name)
      BY <2>1 DEF MatchesText
    <2> QED BY <1>2, <2>2, AnyMeans
  <1>3. CASE text # <<Star>> /\ Head(text) = Star
    <2>1. StringPattern(text) = IF Star \in ToSet(Tail(text)) THEN InvalidPattern
                                ELSE [match |-> "end", part |-> Tail(text)]
      BY <1>1, <1>3 DEF StringPattern
    <2>2. Star \notin ToSet(Tail(text)) /\ StringPattern(text) = [match |-> "end", part |-> Tail(text)]
      BY <2>1
    <2>3. MatchesText(StringPattern(text), name) <=> IsSuffix(Tail(text), name)
      BY <2>2 DEF MatchesText
    <2> QED BY <1>1, <1>3, <2>2, <2>3, EndMeans
  <1>4. CASE Head(text) # Star /\ Last(text) = Star
    <2>0. text # <<Star>>
      BY <1>4
    <2>1. StringPattern(text) = IF Star \in ToSet(Front(text)) THEN InvalidPattern
                                ELSE [match |-> "start", part |-> Front(text)]
      BY <1>1, <1>4, <2>0 DEF StringPattern
    <2>2. /\ Star \notin ToSet(Front(text))
          /\ StringPattern(text) = [match |-> "start", part |-> Front(text)]
      BY <2>1
    <2>3. MatchesText(StringPattern(text), name) <=> IsPrefix(Front(text), name)
      BY <2>2 DEF MatchesText
    <2> QED BY <1>1, <1>4, <2>2, <2>3, StartMeans
  <1>5. CASE Head(text) # Star /\ Last(text) # Star
    <2>0. text # <<Star>>
      BY <1>5
    <2>1. StringPattern(text) = IF Star \in ToSet(text) THEN InvalidPattern
                                ELSE [match |-> "exact", part |-> text]
      BY <1>1, <1>5, <2>0 DEF StringPattern
    <2>2. Star \notin ToSet(text) /\ StringPattern(text) = [match |-> "exact", part |-> text]
      BY <2>1
    <2>3. MatchesText(StringPattern(text), name) <=> text = name
      BY <2>2 DEF MatchesText
    <2> QED BY <2>2, <2>3, ExactMeans
  <1> QED BY <1>2, <1>3, <1>4, <1>5

\* A line names an element when its selector names the kind and its pattern matches the name.
LEMMA SelectorMeans ==
    ASSUME NEW line \in Lines, ValidSelector(line.selector), NEW kind, NEW name \in AllNames
    PROVE  Names(line, kind, name) <=>
              /\ kind \in ToSet(KindsOf(line.selector[1]))
              /\ MatchesName(SelectorPattern(line.selector), name)
  <1>1. name[1] \in Texts /\ name[2] \in Texts
    BY CommandsAssumption
  <1>2. CASE Len(line.selector) = 1
    <2>1. SelectorPattern(line.selector) = AnyName
      BY <1>2 DEF SelectorPattern
    <2>2. StringPattern(<<Star>>) = [match |-> "any", part |-> <<>>]
      BY DEF StringPattern
    <2> DEFINE all == [match |-> "any", part |-> <<>>]
    <2>4. \A n : MatchesText(all, n)
      BY DEF MatchesText
    <2> HIDE DEF all
    <2>3. MatchesName(AnyName, name)
      BY <2>2, <2>4 DEF MatchesName, AnyName, all
    <2> QED BY <1>2, <2>1, <2>3 DEF Names
  <1>3. CASE Len(line.selector) = 3
    <2> DEFINE t == line.selector[2]
               u == line.selector[3]
    <2>1. t \in Texts /\ u \in Texts
      BY <1>3, CommandsAssumption
    <2>2. SelectorPattern(line.selector) = [plugin |-> StringPattern(t), element |-> StringPattern(u)]
      BY <1>3 DEF SelectorPattern
    <2>3. StringPattern(t) # InvalidPattern /\ StringPattern(u) # InvalidPattern
      BY <2>2 DEF ValidSelector
    <2>4. /\ MatchesText(StringPattern(t), name[1]) <=> Glob(t, name[1])
          /\ MatchesText(StringPattern(u), name[2]) <=> Glob(u, name[2])
      BY <1>1, <2>1, <2>3, PatternMeans
    <2> QED BY <1>3, <2>2, <2>4 DEF Names, MatchesName
  <1> QED BY <1>2, <1>3 DEF ValidSelector

\* A set of numbers below a bound has a largest element.
LEMMA LargestElement ==
    ASSUME NEW n \in Nat, NEW T, T \subseteq 1..n, T # {}
    PROVE  Max(T) \in T /\ \A x \in T : Max(T) >= x
  <1> DEFINE U == {n - x : x \in T}
  <1>1. U \subseteq Nat /\ U # {}
    <2>1. \A x \in T : n - x \in Nat
      OBVIOUS
    <2> QED BY <2>1
  <1>2. PICK u \in U : \A v \in U : u <= v
    <2> HIDE DEF U
    <2> QED BY <1>1, SmallestElement
  <1>3. PICK x \in T : u = n - x
    OBVIOUS
  <1>4. \A y \in T : x >= y
    <2> SUFFICES ASSUME NEW y \in T PROVE x >= y
      OBVIOUS
    <2>1. n - y \in U
      OBVIOUS
    <2>2. x \in Nat /\ y \in Nat /\ n - x <= n - y
      BY <1>2, <1>3, <2>1
    <2> QED BY <2>2
  <1> HIDE DEF U
  <1>5. \E z \in T : \A y \in T : z >= y
    BY <1>4
  <1> QED BY <1>5 DEF Max

-------------------------------------------------------------------------------
(* The flags of the transforms.                                                *)

Order == [i \in DOMAIN TransformOrder |-> i]

\* What the loop does with one transform.
Switch(msg, bits, i) ==
    IF MatchesName(msg.pattern, TransformOrder[i])
    THEN WithFlag(bits, i, msg.op = "resume") ELSE bits

\* f is what the loop computes for each set of transforms.
Switches(msg, base, f) ==
    f = [s \in SUBSET DOMAIN Order |->
            IF s = {} THEN base ELSE Switch(msg, f[s \ {Max(s)}], Order[Max(s)])]

\* The order in which the transforms are switched is that of the pipeline, each once.
LEMMA OrderIs == Order = [i \in 1..Len(TransformOrder) |-> i] /\ Len(TransformOrder) \in Nat
  BY CommandsAssumption DEF Order

\* The recursive equation of the switching of transforms has one solution.
LEMMA SwitchesOnce ==
    ASSUME NEW msg, NEW base, NEW f, NEW g,
           Switches(msg, base, f), Switches(msg, base, g)
    PROVE  f = g
  <1> DEFINE n == Len(TransformOrder)
             T == {k \in 0..n : \E s \in SUBSET (1..k) : f[s] # g[s]}
  <1>1. n \in Nat /\ DOMAIN Order = 1..n
    BY OrderIs
  <1> HIDE DEF n
  <1>2. /\ DOMAIN f = SUBSET (1..n) /\ DOMAIN g = SUBSET (1..n)
        /\ f = [s \in DOMAIN f |-> f[s]] /\ g = [s \in DOMAIN g |-> g[s]]
    BY <1>1 DEF Switches
  <1>3. ASSUME NEW s \in SUBSET (1..n)
        PROVE  /\ f[s] = IF s = {} THEN base
                         ELSE Switch(msg, f[s \ {Max(s)}], Order[Max(s)])
               /\ g[s] = IF s = {} THEN base
                         ELSE Switch(msg, g[s \ {Max(s)}], Order[Max(s)])
    BY Zenon, <1>1, <1>3 DEF Switches
  <1>4. T = {}
    <2> SUFFICES ASSUME T # {} PROVE FALSE
      OBVIOUS
    <2>1. PICK k \in T : \A j \in T : k <= j
      <3>1. T \subseteq Nat OBVIOUS
      <3> HIDE DEF T
      <3> QED BY <3>1, SmallestElement
    <2>2. PICK s \in SUBSET (1..k) : f[s] # g[s]
      BY <2>1
    <2>3. k \in 0..n /\ s \in SUBSET (1..n)
      BY <2>1, <1>1
    <2>4. s # {}
      BY <2>2, <2>3, <1>3
    <2>5. Max(s) \in s /\ Max(s) \in 1..k /\ \A x \in s : Max(s) >= x
      <3>1. k \in Nat BY <2>3, <1>1
      <3> QED BY <2>2, <2>4, <3>1, LargestElement
    <2> DEFINE m == Max(s)
               r == s \ {m}
    <2>6. m - 1 \in 0..n /\ m - 1 < k /\ r \in SUBSET (1..(m - 1))
      <3>1. m \in 1..k /\ s \subseteq 1..k /\ \A x \in s : m >= x BY <2>5
      <3> HIDE DEF m
      <3> QED BY <3>1, <2>3, <1>1
    <2>7. f[r] = g[r]
      <3> HIDE DEF m, r
      <3>1. m - 1 \notin T BY <2>1, <2>6
      <3> QED BY <2>6, <3>1
    <2>8. f[s] = g[s]
      BY <1>3, <2>3, <2>4, <2>7
    <2> QED BY <2>2, <2>8
  <1>5. ASSUME NEW s \in SUBSET (1..n) PROVE f[s] = g[s]
    <2>1. n \in 0..n BY <1>1
    <2> QED BY <1>4, <2>1
  <1> QED BY <1>2, <1>5

Matched(msg) == {i \in DOMAIN TransformOrder : MatchesName(msg.pattern, TransformOrder[i])}

\* The flags of the transforms of s that match are those of the operation.
SwitchedIn(msg, base, s) ==
    IF msg.op = "resume" THEN base \union {Bit(i) : i \in Matched(msg) \cap s}
    ELSE base \ {Bit(i) : i \in Matched(msg) \cap s}

\* The set of transforms that are switched, computed one after the other, is the set of those a
\* message names.
LEMMA SwitchesAll ==
    ASSUME NEW msg, NEW base
    PROVE  Switches(msg, base, [s \in SUBSET DOMAIN Order |-> SwitchedIn(msg, base, s)])
  <1> DEFINE f == [s \in SUBSET DOMAIN Order |-> SwitchedIn(msg, base, s)]
  <1>1. ASSUME NEW s \in SUBSET DOMAIN Order
        PROVE  SwitchedIn(msg, base, s)
                  = IF s = {} THEN base ELSE Switch(msg, f[s \ {Max(s)}], Order[Max(s)])
    <2>1. CASE s = {}
      BY <2>1 DEF SwitchedIn
    <2>2. CASE s # {}
      <3> DEFINE m == Max(s)
                 r == s \ {m}
      <3>1. m \in s
        <4>1. s \subseteq 1..Len(TransformOrder) BY OrderIs
        <4> QED BY <4>1, <2>2, OrderIs, LargestElement
      <3> HIDE DEF m
      <3>2. r \in SUBSET DOMAIN Order /\ m \in DOMAIN TransformOrder /\ Order[m] = m
        BY <3>1 DEF Order
      <3>3. f[r] = SwitchedIn(msg, base, r)
        BY <3>2
      <3>4. CASE m \in Matched(msg)
        <4>1. {Bit(i) : i \in Matched(msg) \cap s}
                 = {Bit(i) : i \in Matched(msg) \cap r} \union {Bit(m)}
          BY <3>1, <3>4
        <4>2. SwitchedIn(msg, base, s)
                 = WithFlag(SwitchedIn(msg, base, r), m, msg.op = "resume")
          BY <4>1 DEF SwitchedIn, WithFlag
        <4> QED BY <2>2, <3>2, <3>3, <3>4, <4>2 DEF Switch, Matched, m
      <3>5. CASE m \notin Matched(msg)
        <4>1. Matched(msg) \cap s = Matched(msg) \cap r
          BY <3>5
        <4>2. SwitchedIn(msg, base, s) = SwitchedIn(msg, base, r)
          BY <4>1 DEF SwitchedIn
        <4> QED BY <2>2, <3>2, <3>3, <3>5, <4>2 DEF Switch, Matched, m
      <3> QED BY <3>4, <3>5
    <2> QED BY <2>1, <2>2
  <1>2. f = [s \in SUBSET DOMAIN Order |->
               IF s = {} THEN base ELSE Switch(msg, f[s \ {Max(s)}], Order[Max(s)])]
    BY <1>1
  <1> HIDE DEF f
  <1>3. Switches(msg, base, f)
    BY <1>2 DEF Switches
  <1> QED BY <1>3 DEF f

\* The loop of ReconfigureTransforms, as the set that it computes.
LEMMA FoldSwitches ==
    ASSUME NEW msg, NEW base
    PROVE  FoldLeftDomain(LAMBDA bits, i :
                IF MatchesName(msg.pattern, TransformOrder[i])
                THEN WithFlag(bits, i, msg.op = "resume") ELSE bits,
             base, TransformOrder)
             = SwitchedIn(msg, base, DOMAIN TransformOrder)
  <1> DEFINE f == [s \in SUBSET DOMAIN Order |-> SwitchedIn(msg, base, s)]
             g == CHOOSE g : Switches(msg, base, g)
  <1>1. Switches(msg, base, f)
    BY SwitchesAll
  <1> HIDE DEF f
  <1>2. Switches(msg, base, g)
    BY <1>1
  <1>3. g = f
    BY <1>1, <1>2, SwitchesOnce
  <1>4. FoldLeftDomain(LAMBDA bits, i :
                IF MatchesName(msg.pattern, TransformOrder[i])
                THEN WithFlag(bits, i, msg.op = "resume") ELSE bits,
             base, TransformOrder) = g[DOMAIN Order]
    BY Zenon DEF FoldLeftDomain, FoldLeft, MapThenFoldSet, Switches, Switch, Order
  <1>5. f[DOMAIN Order] = SwitchedIn(msg, base, DOMAIN TransformOrder)
    BY DEF f, Order
  <1> QED BY <1>3, <1>4, <1>5

ValidLines == {line \in Lines : Outcome(line) = "messages"}

Request(line, kind) ==
    [kind |-> kind, pattern |-> SelectorPattern(line.selector), op |-> Synonyms[line.op],
     line |-> line]

\* The messages of the lines that are valid.
SentRequests ==
    {Request(p[1], p[2]) : p \in {q \in ValidLines \X ToSet(Kinds) :
                                     q[2] \in ToSet(KindsOf(q[1].selector[1]))}}

Handled == [line : ValidLines, kind : ToSet(Kinds), existing : SUBSET AnySources]

Operations == {"pause", "resume", "stop"}

KindNames == {"source", "transform", "output"}

\* The kinds of element, as the set of the sequence that lists them.
LEMMA KindsAre ==
    /\ ToSet(Kinds) = KindNames /\ ToSet(<<>>) = {}
    /\ \A kind : ToSet(<<kind>>) = {kind}
  <1>1. \A kind : ToSet(<<kind>>) = {kind}
    <2> SUFFICES ASSUME NEW kind PROVE ToSet(<<kind>>) = {kind}
      OBVIOUS
    <2>1. DOMAIN <<kind>> = {1}
      OBVIOUS
    <2> QED BY <2>1 DEF ToSet
  <1>2. ToSet(Kinds) = KindNames
    <2>1. DOMAIN Kinds = {1, 2, 3}
      BY DEF Kinds
    <2>2. Kinds[1] = "source" /\ Kinds[2] = "transform" /\ Kinds[3] = "output"
      BY DEF Kinds
    <2> QED BY <2>1, <2>2 DEF ToSet, KindNames
  <1> QED BY <1>1, <1>2 DEF ToSet

\* What the first word of a selector can stand for.
LEMMA KindsOfIs ==
    ASSUME NEW word
    PROVE  /\ KindsOf(word) \in {<<>>, <<"source">>, <<"transform">>, <<"output">>, Kinds}
           /\ ToSet(KindsOf(word)) \subseteq KindNames
  <1>1. KindsOf(word) \in {<<>>, <<"source">>, <<"transform">>, <<"output">>, Kinds}
    BY DEF KindsOf
  <1> QED BY <1>1, KindsAre DEF KindNames

\* What is known of a line that the parser accepts.
LEMMA LineMeans ==
    ASSUME NEW line \in ValidLines
    PROVE  /\ line \in Lines /\ ValidSelector(line.selector) /\ line.op \in DOMAIN Synonyms
           /\ KindsOf(line.selector[1]) \in Applicable(Synonyms[line.op])
           /\ Synonyms[line.op] \in Operations \union {"set-period", "trigger-now"}
  <1>1. line \in Lines /\ Outcome(line) = "messages"
    BY DEF ValidLines
  <1>2. ValidSelector(line.selector) /\ line.op \in DOMAIN Synonyms
    BY <1>1 DEF Outcome
  <1>3. KindsOf(line.selector[1]) \in Applicable(Synonyms[line.op])
    BY <1>1 DEF Outcome
  <1>4. Synonyms[line.op] \in Operations \union {"set-period", "trigger-now"}
    <2>1. \A word \in DOMAIN Synonyms :
             Synonyms[word] \in Operations \union {"set-period", "trigger-now"}
      BY DEF Synonyms, Operations
    <2> QED BY <1>2, <2>1
  <1> QED BY <1>1, <1>2, <1>3, <1>4

\* What is known of a request made from an accepted line: it names what the line names.
LEMMA RequestMeans ==
    ASSUME NEW r \in SentRequests
    PROVE  /\ r.line \in ValidLines /\ r.op = Synonyms[r.line.op] /\ r.kind \in KindNames
           /\ r.kind = "transform" => r.op \in {"pause", "resume"}
           /\ r.kind = "output" => r.op \in Operations
           /\ \A name \in AllNames : MatchesName(r.pattern, name) <=> Names(r.line, r.kind, name)
  <1>1. PICK line \in ValidLines, kind \in ToSet(Kinds) :
           r = Request(line, kind) /\ kind \in ToSet(KindsOf(line.selector[1]))
    BY DEF SentRequests
  <1>2. /\ r.line = line /\ r.kind = kind /\ r.op = Synonyms[line.op]
        /\ r.pattern = SelectorPattern(line.selector)
    BY <1>1 DEF Request
  <1>3. KindsOf(line.selector[1]) \in Applicable(r.op) /\ ValidSelector(line.selector)
        /\ r.op \in Operations \union {"set-period", "trigger-now"} /\ line \in Lines
    BY <1>2, LineMeans
  <1>4. ASSUME kind # "source" PROVE r.op \in Operations
    <2>1. CASE r.op \in {"set-period", "trigger-now"}
      <3>1. Applicable(r.op) = {<<"source">>}
        BY <2>1 DEF Applicable
      <3> QED BY <3>1, <1>1, <1>3, <1>4, KindsAre
    <2> QED BY <1>3, <2>1
  <1>5. ASSUME kind = "transform" PROVE r.op # "stop"
    <2> SUFFICES ASSUME r.op = "stop" PROVE FALSE
      OBVIOUS
    <2>1. Applicable(r.op) = {<<"source">>, <<"output">>}
      BY DEF Applicable
    <2>2. kind \in ToSet(<<"source">>) \/ kind \in ToSet(<<"output">>)
      BY <2>1, <1>1, <1>3
    <2> QED BY <2>2, <1>5, KindsAre
  <1>6. \A name \in AllNames : MatchesName(r.pattern, name) <=> Names(r.line, r.kind, name)
    BY <1>1, <1>2, <1>3, SelectorMeans
  <1> QED BY <1>1, <1>2, <1>4, <1>5, <1>6, KindsAre DEF Operations

\* An accepted line is turned into requests that stand for it.
LEMMA MessagesAreRequests ==
    ASSUME NEW line \in ValidLines
    PROVE  Messages(line) \in Seq(SentRequests)
  <1> DEFINE kinds == KindsOf(line.selector[1])
  <1>1. kinds \in {<<>>, <<"source">>, <<"transform">>, <<"output">>, Kinds}
        /\ ToSet(kinds) \subseteq KindNames
    BY KindsOfIs
  <1>2. kinds \in Seq(KindNames)
    <2>1. <<>> \in Seq(KindNames) /\ Kinds \in Seq(KindNames)
      BY DEF Kinds, KindNames
    <2>2. \A kind \in KindNames : <<kind>> \in Seq(KindNames)
      OBVIOUS
    <2> QED BY <1>1, <2>1, <2>2 DEF KindNames
  <1> HIDE DEF kinds
  <1>3. ASSUME NEW k \in DOMAIN kinds PROVE Request(line, kinds[k]) \in SentRequests
    <2>1. kinds[k] \in ToSet(kinds)
      BY DEF ToSet
    <2>2. <<line, kinds[k]>> \in {q \in ValidLines \X ToSet(Kinds) :
                                     q[2] \in ToSet(KindsOf(q[1].selector[1]))}
      BY <1>1, <2>1, KindsAre DEF kinds
    <2> QED BY <2>2 DEF SentRequests
  <1>4. Messages(line) = [k \in DOMAIN kinds |-> Request(line, kinds[k])]
    BY DEF Messages, Request, kinds
  <1>5. DOMAIN kinds = 1..Len(kinds) /\ Len(kinds) \in Nat
    BY <1>2
  <1> HIDE DEF SentRequests, Request, Messages
  <1> DEFINE f == [k \in 1..Len(kinds) |-> Request(line, kinds[k])]
  <1>6. f \in Seq(SentRequests)
    <2> DEFINE n == Len(kinds)
    <2>1. n \in Nat /\ \A k \in 1..n : Request(line, kinds[k]) \in SentRequests
      BY <1>3, <1>5
    <2> HIDE DEF n
    <2>2. [k \in 1..n |-> Request(line, kinds[k])] \in Seq(SentRequests)
      BY <2>1
    <2> QED BY <2>2 DEF n
  <1> QED BY <1>4, <1>5, <1>6

-------------------------------------------------------------------------------
(* What an element was state.                                                   *)

\* The message h changes the state of the element.
Concerns(h, kind, name) ==
    /\ h.kind = kind /\ Names(h.line, kind, name)
    /\ Synonyms[h.line.op] \in Operations
    /\ kind = "source" =>
          /\ name \in h.existing
          /\ name \in AutonomousSources => Synonyms[h.line.op] = "stop"

\* Heard and LastTold, of a history hs.
HeardIn(hs, kind, name) == {k \in DOMAIN hs : Concerns(hs[k], kind, name)}

ToldIn(hs, kind, name) ==
    LET times == HeardIn(hs, kind, name) IN
    IF times = {} THEN "resume" ELSE Synonyms[hs[Max(times)].line.op]

\* The last request an element heard is one it heard, and none is later.
LEMMA LastHeard ==
    ASSUME NEW hs \in Seq(Handled), NEW kind, NEW name, HeardIn(hs, kind, name) # {}
    PROVE  /\ Max(HeardIn(hs, kind, name)) \in HeardIn(hs, kind, name)
           /\ \A k \in HeardIn(hs, kind, name) : Max(HeardIn(hs, kind, name)) >= k
  <1> DEFINE T == HeardIn(hs, kind, name)
             n == Len(hs)
  <1>1. n \in Nat /\ T \subseteq 1..n
    BY DEF HeardIn
  <1> HIDE DEF T, n
  <1> QED BY <1>1, LargestElement DEF T

\* The last message that concerns an element counts.
LEMMA ToldNext ==
    \A hs \in Seq(Handled), h \in Handled : \A hs2, kind, name : hs2 = Append(hs, h) =>
        /\ Concerns(h, kind, name) => ToldIn(hs2, kind, name) = Synonyms[h.line.op]
        /\ ~Concerns(h, kind, name) => ToldIn(hs2, kind, name) = ToldIn(hs, kind, name)
        /\ \A k \in HeardIn(hs, kind, name) : k \in HeardIn(hs2, kind, name)
  <1> SUFFICES ASSUME NEW hs \in Seq(Handled), NEW h \in Handled, NEW hs2, NEW kind, NEW name,
                      hs2 = Append(hs, h)
               PROVE  /\ Concerns(h, kind, name) => ToldIn(hs2, kind, name) = Synonyms[h.line.op]
                      /\ ~Concerns(h, kind, name) =>
                            ToldIn(hs2, kind, name) = ToldIn(hs, kind, name)
                      /\ \A k \in HeardIn(hs, kind, name) : k \in HeardIn(hs2, kind, name)
    OBVIOUS
  <1> DEFINE n == Len(hs)
             T == HeardIn(hs, kind, name)
             U == HeardIn(hs2, kind, name)
  <1>1. /\ n \in Nat /\ DOMAIN hs = 1..n /\ DOMAIN hs2 = 1..(n + 1)
        /\ hs2[n + 1] = h /\ \A k \in 1..n : hs2[k] = hs[k]
    OBVIOUS
  <1>2. U = {k \in DOMAIN hs2 : Concerns(hs2[k], kind, name)}
    BY DEF HeardIn
  <1>3. T = {k \in DOMAIN hs : Concerns(hs[k], kind, name)}
    BY DEF HeardIn
  <1>6. ToldIn(hs2, kind, name) = IF U = {} THEN "resume" ELSE Synonyms[hs2[Max(U)].line.op]
    BY DEF ToldIn
  <1>7. ToldIn(hs, kind, name) = IF T = {} THEN "resume" ELSE Synonyms[hs[Max(T)].line.op]
    BY DEF ToldIn
  <1>8. T # {} => Max(T) \in T
    BY LastHeard
  <1> HIDE DEF n, T, U
  <1>9. CASE Concerns(h, kind, name)
    <2>1. n + 1 \in U /\ U \subseteq 1..(n + 1)
      BY <1>1, <1>2, <1>9
    <2>2. PICK m : m = Max(U)
      OBVIOUS
    <2>3. n + 1 \in Nat
      BY <1>1
    <2>6. m \in U /\ m >= n + 1
      BY <2>1, <2>2, <2>3, LargestElement
    <2>7. m \in 1..(n + 1)
      BY <2>1, <2>6
    <2>8. m = n + 1
      BY <1>1, <2>6, <2>7
    <2>4. ToldIn(hs2, kind, name) = Synonyms[h.line.op]
      BY <1>1, <1>6, <2>1, <2>2, <2>8
    <2>5. \A k \in T : k \in U /\ hs2[k] = hs[k]
      BY <1>1, <1>2, <1>3
    <2> QED BY <1>1, <1>9, <2>1, <2>4, <2>5 DEF T, U
  <1>10. CASE ~Concerns(h, kind, name)
    <2>1. U = T
      <3>1. ASSUME NEW k \in U PROVE k \in T
        <4>1. k \in 1..(n + 1) /\ Concerns(hs2[k], kind, name) BY <1>1, <1>2
        <4>2. k # n + 1 BY <1>1, <1>10, <4>1
        <4>3. k \in 1..n BY <1>1, <4>1, <4>2
        <4> QED BY <1>1, <1>3, <4>1, <4>3
      <3>2. ASSUME NEW k \in T PROVE k \in U
        <4>1. k \in 1..n /\ Concerns(hs[k], kind, name) BY <1>1, <1>3
        <4>2. k \in 1..(n + 1) BY <1>1, <4>1
        <4> QED BY <1>1, <1>2, <4>1, <4>2
      <3> QED BY <3>1, <3>2
    <2>2. \A k \in T : hs2[k] = hs[k]
      BY <1>1, <1>3
    <2>3. ToldIn(hs2, kind, name) = ToldIn(hs, kind, name)
      BY <1>6, <1>7, <1>8, <2>1, <2>2
    <2> QED BY <1>10, <2>1, <2>2, <2>3 DEF T, U
  <1> QED BY <1>9, <1>10

-------------------------------------------------------------------------------
(* The invariant.                                                              *)

CommandsTypeOK ==
    /\ outbox \in Seq(SentRequests) /\ inbox \in Seq(SentRequests)
    /\ created \subseteq AnySources
    /\ handled \in Seq(Handled)
    /\ \A k \in DOMAIN handled : handled[k].existing \subseteq created

\* Every source, those that do not exist yet included, is in the state that it was told.
SourcesAsTold ==
    /\ sourceOrder = [s \in AnySources |-> StateFor(ToldIn(handled, "source", s))]
    /\ \A s \in stopped :
          \E k \in HeardIn(handled, "source", s) : Synonyms[handled[k].line.op] = "stop"

TransformsAsTold ==
    \A i \in DOMAIN TransformOrder :
        Bit(i) \in flags <=> ToldIn(handled, "transform", TransformOrder[i]) = "resume"

OutputFor(op) == IF op = "stop" THEN "StopFinish" ELSE StateFor(op)

OutputsAsTold == outputOrder = [o \in OutputNames |-> OutputFor(ToldIn(handled, "output", o))]

CommandsInv == CommandsTypeOK /\ SourcesAsTold /\ TransformsAsTold /\ OutputsAsTold

\* The invariant of the commands implies that they reach the elements they name.
LEMMA InvIsProperty == ASSUME CommandsInv PROVE CommandsReachTheNamed
  <1>1. \A kind, name : /\ Heard(kind, name) = HeardIn(handled, kind, name)
                        /\ LastTold(kind, name) = ToldIn(handled, kind, name)
    BY DEF Heard, LastTold, HeardIn, ToldIn, Concerns, Operation, Operations
  <1>2. \A s \in created : sourceOrder[s] = StateFor(LastTold("source", s))
    BY <1>1 DEF CommandsInv, CommandsTypeOK, SourcesAsTold
  <1>3. \A s \in stopped : \E k \in Heard("source", s) : Operation(k) = "stop"
    BY <1>1 DEF CommandsInv, SourcesAsTold, Operation
  <1>4. ASSUME NEW i \in DOMAIN TransformOrder
        PROVE  (Bit(i) \in flags) = (LastTold("transform", TransformOrder[i]) = "resume")
    <2>1. LastTold("transform", TransformOrder[i]) = ToldIn(handled, "transform", TransformOrder[i])
      BY <1>1
    <2>2. Bit(i) \in flags <=> ToldIn(handled, "transform", TransformOrder[i]) = "resume"
      BY DEF CommandsInv, TransformsAsTold
    <2> QED BY <2>1, <2>2
  <1>5. \A o \in OutputNames :
           outputOrder[o] = (IF LastTold("output", o) = "stop" THEN "StopFinish"
                             ELSE StateFor(LastTold("output", o)))
    BY <1>1 DEF CommandsInv, OutputsAsTold, OutputFor
  <1> QED BY <1>2, <1>3, <1>4, <1>5 DEF CommandsReachTheNamed

-------------------------------------------------------------------------------
(* The connection.                                                             *)

LEMMA ConnectionKeepsInv ==
    ASSUME CommandsInv,
           \/ \E line \in Lines : ReadLine(line)
           \/ DispatchMessage \/ DispatchTimeout \/ UNCHANGED commandsVars
    PROVE  CommandsInv'
  <1>1. UNCHANGED elements
    BY DEF ReadLine, DispatchMessage, DispatchTimeout, commandsVars, elements
  <1>2. outbox' \in Seq(SentRequests) /\ inbox' \in Seq(SentRequests)
    <2>1. outbox \in Seq(SentRequests) /\ inbox \in Seq(SentRequests)
      BY DEF CommandsInv, CommandsTypeOK
    <2>2. CASE \E line \in Lines : ReadLine(line)
      <3>1. PICK line \in Lines : ReadLine(line)
        BY <2>2
      <3>2. inbox' = inbox
        BY <3>1 DEF ReadLine
      <3>3. outbox' = outbox \/ (outbox' = Messages(line) /\ line \in ValidLines)
        <4>1. CASE Outcome(line) = "error"
          <5>1. outbox' = outbox BY <3>1, <4>1 DEF ReadLine
          <5> QED BY <5>1
        <4>2. CASE Outcome(line) = "panic"
          <5>1. outbox' = outbox BY <3>1, <4>2 DEF ReadLine
          <5> QED BY <5>1
        <4>3. CASE Outcome(line) = "messages"
          <5>1. outbox' = Messages(line) BY <3>1, <4>3 DEF ReadLine
          <5> QED BY <4>3, <5>1 DEF ValidLines
        <4>4. Outcome(line) \in {"error", "panic", "messages"}
          BY DEF Outcome
        <4> QED BY <4>1, <4>2, <4>3, <4>4
      <3> QED BY <2>1, <3>2, <3>3, MessagesAreRequests
    <2>3. CASE DispatchMessage
      <3>1. Head(outbox) \in SentRequests /\ Tail(outbox) \in Seq(SentRequests)
        BY <2>1, <2>3 DEF DispatchMessage
      <3> QED BY <2>1, <2>3, <3>1 DEF DispatchMessage
    <2>4. CASE DispatchTimeout
      BY <2>1, <2>4 DEF DispatchTimeout
    <2>5. CASE UNCHANGED commandsVars
      BY <2>1, <2>5 DEF commandsVars
    <2> QED BY <2>2, <2>3, <2>4, <2>5
  <1>3. CommandsTypeOK'
    BY <1>1, <1>2 DEF CommandsInv, CommandsTypeOK, elements
  <1>4. SourcesAsTold' /\ TransformsAsTold' /\ OutputsAsTold'
    BY <1>1 DEF CommandsInv, SourcesAsTold, TransformsAsTold, OutputsAsTold, elements
  <1> QED BY <1>3, <1>4 DEF CommandsInv

\* A source that is created was told nothing.
LEMMA CreateSourceKeepsInv ==
    ASSUME CommandsInv, NEW s \in LateSources, CreateSource(s)
    PROVE  CommandsInv'
  <1>1. created' = created \union {s}
        /\ UNCHANGED <<outbox, inbox, sourceOrder, stopped, flags, outputOrder, handled>>
    BY DEF CreateSource
  <1>2. CommandsTypeOK'
    BY <1>1 DEF CommandsInv, CommandsTypeOK, AnySources
  <1>3. SourcesAsTold' /\ TransformsAsTold' /\ OutputsAsTold'
    BY <1>1 DEF CommandsInv, SourcesAsTold, TransformsAsTold, OutputsAsTold
  <1> QED BY <1>2, <1>3 DEF CommandsInv

\* The step SourceEnds keeps the invariant.
LEMMA SourceEndsKeepsInv ==
    ASSUME CommandsInv, NEW s \in AnySources, SourceEnds(s)
    PROVE  CommandsInv'
  <1>1. /\ sourceOrder[s] = "Stop" /\ stopped' = stopped \union {s}
        /\ UNCHANGED <<outbox, inbox, sourceOrder, created, flags, outputOrder, handled>>
    BY DEF SourceEnds
  <1>2. CommandsTypeOK'
    BY <1>1 DEF CommandsInv, CommandsTypeOK
  <1>3. TransformsAsTold' /\ OutputsAsTold'
    BY <1>1 DEF CommandsInv, TransformsAsTold, OutputsAsTold
  <1>4. \E k \in HeardIn(handled, "source", s) : Synonyms[handled[k].line.op] = "stop"
    <2> DEFINE times == HeardIn(handled, "source", s)
               state == ToldIn(handled, "source", s)
    <2>1. StateFor(state) = "Stop" /\ handled \in Seq(Handled)
      BY <1>1 DEF CommandsInv, SourcesAsTold, CommandsTypeOK
    <2>2. state = IF times = {} THEN "resume" ELSE Synonyms[handled[Max(times)].line.op]
      BY DEF ToldIn
    <2>3. times # {} => Max(times) \in times
      BY <2>1, LastHeard
    <2>4. \A k \in times : Synonyms[handled[k].line.op] \in Operations
      BY DEF HeardIn, Concerns
    <2> HIDE DEF times, state
    <2>5. state \in Operations
      BY <2>2, <2>3, <2>4 DEF Operations
    <2>6. state = "stop"
      BY <2>1, <2>5 DEF StateFor, Operations
    <2>7. times # {}
      BY <2>2, <2>6
    <2> QED BY <2>2, <2>3, <2>6, <2>7 DEF times
  <1>5. SourcesAsTold'
    BY <1>1, <1>4 DEF CommandsInv, SourcesAsTold
  <1> QED BY <1>2, <1>3, <1>5 DEF CommandsInv

-------------------------------------------------------------------------------
(* The elements.                                                               *)

\* Every transform has a bit of its own.
LEMMA BitIs == ASSUME NEW k \in DOMAIN TransformOrder PROVE Bit(k) = k - 1 /\ k \in Int
  <1> DEFINE n == Len(TransformOrder)
  <1>1. n \in Nat /\ n <= FlagBits /\ FlagBits \in Nat \ {0} /\ DOMAIN TransformOrder = 1..n
    BY CommandsAssumption
  <1> HIDE DEF n
  <1> DEFINE m == k - 1
  <1>2. m \in 0..(FlagBits - 1) /\ k \in Int
    BY <1>1
  <1> HIDE DEF m
  <1>3. m % FlagBits = m
    BY <1>1, <1>2
  <1> QED BY <1>2, <1>3 DEF Bit, m

\* The step HandleCommand keeps the invariant.
LEMMA HandleCommandKeepsInv == ASSUME CommandsInv, HandleCommand PROVE CommandsInv'
  <1> DEFINE msg == Head(inbox)
             h == [line |-> msg.line, kind |-> msg.kind, existing |-> created]
             op == msg.op
  <1>1. /\ handled \in Seq(Handled) /\ inbox \in Seq(SentRequests) /\ inbox # <<>>
        /\ outbox \in Seq(SentRequests) /\ created \subseteq AnySources
        /\ \A k \in DOMAIN handled : handled[k].existing \subseteq created
    BY DEF CommandsInv, CommandsTypeOK, HandleCommand
  <1>2. msg \in SentRequests /\ Tail(inbox) \in Seq(SentRequests)
    BY <1>1
  <1>3. /\ handled' = Append(handled, h) /\ inbox' = Tail(inbox)
        /\ UNCHANGED <<outbox, created, stopped>>
    BY DEF HandleCommand
  <1>5. \/ /\ msg.kind = "source" /\ ReconfigureSources(msg)
           /\ UNCHANGED <<flags, outputOrder>>
        \/ /\ msg.kind = "transform" /\ ReconfigureTransforms(msg)
           /\ UNCHANGED <<sourceOrder, outputOrder>>
        \/ /\ msg.kind = "output" /\ ReconfigureOutputs(msg)
           /\ UNCHANGED <<sourceOrder, flags>>
    <2>1. msg.kind \in {"source", "transform", "output"}
      BY <1>2, RequestMeans DEF KindNames
    <2> HIDE DEF msg
    <2>2. CASE msg.kind = "source"
      BY <2>2 DEF HandleCommand, msg
    <2>3. CASE msg.kind = "transform"
      BY <2>3 DEF HandleCommand, msg
    <2>4. CASE msg.kind = "output"
      BY <2>4 DEF HandleCommand, msg
    <2> QED BY <2>1, <2>2, <2>3, <2>4
  <1> HIDE DEF msg
  <1>6. /\ msg.line \in ValidLines /\ op = Synonyms[msg.line.op]
        /\ msg.kind \in KindNames
        /\ msg.kind = "transform" => op \in {"pause", "resume"}
        /\ msg.kind = "output" => op \in Operations
        /\ \A name \in AllNames :
              MatchesName(msg.pattern, name) <=> Names(msg.line, msg.kind, name)
    BY <1>2, RequestMeans
  <1>7. h \in Handled
    BY <1>1, <1>6, KindsAre DEF Handled
  <1>8. h.line = msg.line /\ h.kind = msg.kind /\ h.existing = created
    OBVIOUS
  <1> HIDE DEF h, op
  <1>9. \A kind, name :
           /\ ToldIn(handled', kind, name) = IF Concerns(h, kind, name) THEN op
                                             ELSE ToldIn(handled, kind, name)
           /\ \A k \in HeardIn(handled, kind, name) :
                 k \in HeardIn(handled', kind, name) /\ handled'[k] = handled[k]
    <2> SUFFICES ASSUME NEW kind, NEW name
                 PROVE  /\ ToldIn(handled', kind, name) = IF Concerns(h, kind, name) THEN op
                                                          ELSE ToldIn(handled, kind, name)
                        /\ \A k \in HeardIn(handled, kind, name) :
                              k \in HeardIn(handled', kind, name) /\ handled'[k] = handled[k]
      OBVIOUS
    <2>1. PICK hs : hs = handled'
      OBVIOUS
    <2>4. hs = Append(handled, h)
      BY <1>3, <2>1
    <2>5. handled \in Seq(Handled)
      BY <1>1
    <2>2. /\ Concerns(h, kind, name) => ToldIn(hs, kind, name) = Synonyms[h.line.op]
          /\ ~Concerns(h, kind, name) => ToldIn(hs, kind, name) = ToldIn(handled, kind, name)
          /\ \A k \in HeardIn(handled, kind, name) : k \in HeardIn(hs, kind, name)
      <3>1. \A e, c, d : e = Append(handled, h) =>
               /\ Concerns(h, c, d) => ToldIn(e, c, d) = Synonyms[h.line.op]
               /\ ~Concerns(h, c, d) => ToldIn(e, c, d) = ToldIn(handled, c, d)
               /\ \A k \in HeardIn(handled, c, d) : k \in HeardIn(e, c, d)
        BY <1>7, <2>5, ToldNext, Zenon
      <3> QED BY <2>4, <3>1, Zenon
    <2>7. ASSUME NEW k \in HeardIn(handled, kind, name) PROVE hs[k] = handled[k]
      <3>1. k \in DOMAIN handled
        BY DEF HeardIn
      <3> QED BY <1>7, <2>4, <2>5, <3>1
    <2>3. CASE Concerns(h, kind, name)
      BY <1>6, <1>8, <2>1, <2>2, <2>3, <2>7
    <2>6. CASE ~Concerns(h, kind, name)
      BY <2>1, <2>2, <2>6, <2>7
    <2> QED BY <2>3, <2>6
  <1>10. \A kind, name : kind # msg.kind => ToldIn(handled', kind, name) = ToldIn(handled, kind, name)
    BY <1>8, <1>9 DEF Concerns
  <1>11. CommandsTypeOK'
    <2>1. handled' \in Seq(Handled)
      BY <1>1, <1>3, <1>7
    <2>2. \A k \in DOMAIN handled' : handled'[k].existing \subseteq created
      <3>1. \A k \in DOMAIN handled' :
               \/ k \in DOMAIN handled /\ handled'[k] = handled[k]
               \/ handled'[k] = h
        BY <1>1, <1>3, <1>7
      <3> QED BY <1>1, <1>8, <3>1
    <2> QED BY <1>1, <1>2, <1>3, <2>1, <2>2 DEF CommandsTypeOK, msg
  <1>12. \A s \in stopped' :
            \E k \in HeardIn(handled', "source", s) : Synonyms[handled'[k].line.op] = "stop"
    <2> SUFFICES ASSUME NEW s \in stopped
                 PROVE  \E k \in HeardIn(handled', "source", s) :
                           Synonyms[handled'[k].line.op] = "stop"
      BY <1>3
    <2>1. PICK k \in HeardIn(handled, "source", s) : Synonyms[handled[k].line.op] = "stop"
      BY DEF CommandsInv, SourcesAsTold
    <2>2. k \in HeardIn(handled', "source", s) /\ handled'[k] = handled[k]
      BY <1>9
    <2> QED BY <2>1, <2>2
  <1>13. sourceOrder' = [s \in AnySources |-> StateFor(ToldIn(handled', "source", s))]
    <2>1. sourceOrder = [s \in AnySources |-> StateFor(ToldIn(handled, "source", s))]
      BY DEF CommandsInv, SourcesAsTold
    <2>2. CASE msg.kind # "source"
      BY <1>5, <1>10, <2>1, <2>2
    <2>3. CASE msg.kind = "source"
      <3>1. sourceOrder' = [s \in AnySources |->
                IF /\ s \in created /\ MatchesName(msg.pattern, s)
                   /\ op \in {"pause", "resume", "stop"}
                   /\ s \in AutonomousSources => op = "stop"
                THEN StateFor(op) ELSE sourceOrder[s]]
        BY <1>5, <2>3 DEF ReconfigureSources, op
      <3>2. ASSUME NEW s \in AnySources
            PROVE  Concerns(h, "source", s) <=>
                     /\ s \in created /\ MatchesName(msg.pattern, s)
                     /\ op \in {"pause", "resume", "stop"}
                     /\ s \in AutonomousSources => op = "stop"
        <4>1. s \in AllNames BY DEF AllNames
        <4> QED BY <4>1, <1>6, <1>8, <2>3 DEF Concerns, Operations
      <3>3. ASSUME NEW s \in AnySources
            PROVE  sourceOrder'[s] = StateFor(ToldIn(handled', "source", s))
        BY <1>9, <2>1, <3>1, <3>2
      <3> QED BY <3>1, <3>3
    <2> QED BY <2>2, <2>3
  <1>14. TransformsAsTold'
    <2> SUFFICES ASSUME NEW i \in DOMAIN TransformOrder
                 PROVE  Bit(i) \in flags' <=>
                          ToldIn(handled', "transform", TransformOrder[i]) = "resume"
      BY DEF TransformsAsTold
    <2>1. Bit(i) \in flags <=> ToldIn(handled, "transform", TransformOrder[i]) = "resume"
      BY DEF CommandsInv, TransformsAsTold
    <2>2. CASE msg.kind # "transform"
      BY <1>5, <1>10, <2>1, <2>2
    <2>3. CASE msg.kind = "transform"
      <3>1. flags' = SwitchedIn(msg, flags, DOMAIN TransformOrder)
        BY <1>5, <2>3, FoldSwitches DEF ReconfigureTransforms
      <3>2. TransformOrder[i] \in AllNames
        BY CommandsAssumption
      <3>3. Concerns(h, "transform", TransformOrder[i]) <=> i \in Matched(msg)
        BY <1>6, <1>8, <2>3, <3>2 DEF Concerns, Operations, Matched
      <3>4. i \in Matched(msg) => (Bit(i) \in flags' <=> op = "resume")
        BY <3>1 DEF SwitchedIn, op, Matched
      <3>5. i \notin Matched(msg) => (Bit(i) \in flags' <=> Bit(i) \in flags)
        BY <3>1, BitIs DEF SwitchedIn, Matched
      <3> QED BY <1>9, <2>1, <3>3, <3>4, <3>5
    <2> QED BY <2>2, <2>3
  <1>15. OutputsAsTold'
    <2>1. outputOrder = [o \in OutputNames |-> OutputFor(ToldIn(handled, "output", o))]
      BY DEF CommandsInv, OutputsAsTold
    <2>2. CASE msg.kind # "output"
      BY <1>5, <1>10, <2>1, <2>2 DEF OutputsAsTold
    <2>3. CASE msg.kind = "output"
      <3>1. outputOrder' = [o \in OutputNames |->
                IF MatchesName(msg.pattern, o) THEN OutputFor(op) ELSE outputOrder[o]]
        BY <1>5, <2>3 DEF ReconfigureOutputs, OutputFor, op
      <3>2. ASSUME NEW o \in OutputNames
            PROVE  Concerns(h, "output", o) <=> MatchesName(msg.pattern, o)
        <4>1. o \in AllNames BY DEF AllNames
        <4> QED BY <4>1, <1>6, <1>8, <2>3 DEF Concerns
      <3>3. ASSUME NEW o \in OutputNames
            PROVE  outputOrder'[o] = OutputFor(ToldIn(handled', "output", o))
        BY <1>9, <2>1, <3>1, <3>2
      <3> QED BY <3>1, <3>3 DEF OutputsAsTold
    <2> QED BY <2>2, <2>3
  <1> QED BY <1>11, <1>12, <1>13, <1>14, <1>15 DEF CommandsInv, SourcesAsTold

\* The invariant of the commands holds in every run.
LEMMA CommandsInvInvariant == CommandsSpec => []CommandsInv
  <1>1. CommandsInit => CommandsInv
    <2> SUFFICES ASSUME CommandsInit PROVE CommandsInv
      OBVIOUS
    <2>1. CommandsTypeOK
      BY DEF CommandsInit, CommandsTypeOK, AnySources
    <2>2. \A kind, name : ToldIn(<<>>, kind, name) = "resume"
      BY DEF ToldIn, HeardIn
    <2>3. handled = <<>> /\ stopped = {} /\ sourceOrder = [s \in AnySources |-> "Run"]
          /\ outputOrder = [o \in OutputNames |-> "Run"]
          /\ flags = {i - 1 : i \in DOMAIN TransformOrder}
      BY DEF CommandsInit
    <2>4. StateFor("resume") = "Run" /\ OutputFor("resume") = "Run"
      BY DEF StateFor, OutputFor
    <2>5. SourcesAsTold /\ OutputsAsTold
      BY <2>2, <2>3, <2>4 DEF SourcesAsTold, OutputsAsTold
    <2>6. TransformsAsTold
      <3>1. \A i \in DOMAIN TransformOrder : Bit(i) = i - 1
        BY BitIs
      <3> QED BY <2>2, <2>3, <3>1 DEF TransformsAsTold
    <2> QED BY <2>1, <2>5, <2>6 DEF CommandsInv
  <1>2. ASSUME CommandsInv, [CommandsNext]_commandsVars PROVE CommandsInv'
    <2>1. CASE \/ \E line \in Lines : ReadLine(line)
               \/ DispatchMessage \/ DispatchTimeout \/ UNCHANGED commandsVars
      BY <1>2, <2>1, ConnectionKeepsInv
    <2>2. CASE HandleCommand
      BY <1>2, <2>2, HandleCommandKeepsInv
    <2>3. CASE \E s \in LateSources : CreateSource(s)
      BY <1>2, <2>3, CreateSourceKeepsInv
    <2>4. CASE \E s \in AnySources : SourceEnds(s)
      BY <1>2, <2>4, SourceEndsKeepsInv
    <2> QED BY <1>2, <2>1, <2>2, <2>3, <2>4 DEF CommandsNext
  <1> QED BY <1>1, <1>2, PTL DEF CommandsSpec

\* Every element is in the state of the last command whose text names it.
THEOREM CommandsAreObeyed == CommandsSpec => []CommandsReachTheNamed
  BY CommandsInvInvariant, InvIsProperty, PTL

-------------------------------------------------------------------------------
(* The agent: sequences of named entries.                                    *)

Info == [name : PluginNames, enabled : BOOLEAN]
NamesIn(ps) == {ps[i].name : i \in DOMAIN ps}
Distinct(ps) == \A i, j \in DOMAIN ps : ps[i].name = ps[j].name => i = j

\* An entry that was not in a sequence is added at its end.
LEMMA NamesAppend ==
    ASSUME NEW E, NEW ps \in Seq(E), NEW info \in E
    PROVE  /\ Append(ps, info) \in Seq(E)
           /\ NamesIn(Append(ps, info)) = NamesIn(ps) \union {info.name}
           /\ Distinct(ps) /\ info.name \notin NamesIn(ps) => Distinct(Append(ps, info))
  <1> DEFINE n == Len(ps)
             qs == Append(ps, info)
  <1>1. /\ n \in Nat /\ DOMAIN ps = 1..n /\ DOMAIN qs = 1..(n + 1) /\ qs \in Seq(E)
        /\ qs[n + 1] = info /\ \A i \in 1..n : qs[i] = ps[i]
    OBVIOUS
  <1> HIDE DEF n, qs
  <1>2. \A i \in 1..(n + 1) : i \in 1..n \/ i = n + 1
    BY <1>1
  <1>3. NamesIn(qs) = NamesIn(ps) \union {info.name}
    <2>1. ASSUME NEW i \in 1..(n + 1) PROVE qs[i].name \in NamesIn(ps) \union {info.name}
      BY <1>1, <1>2 DEF NamesIn
    <2>2. ASSUME NEW i \in 1..n PROVE ps[i].name \in NamesIn(qs)
      <3>1. i \in 1..(n + 1) BY <1>1
      <3> QED BY <1>1, <3>1 DEF NamesIn
    <2>3. info.name \in NamesIn(qs)
      <3>1. n + 1 \in 1..(n + 1) BY <1>1
      <3> QED BY <1>1, <3>1 DEF NamesIn
    <2> QED BY <1>1, <2>1, <2>2, <2>3 DEF NamesIn
  <1>4. ASSUME Distinct(ps), info.name \notin NamesIn(ps) PROVE Distinct(qs)
    <2>1. \A i \in 1..n : qs[i].name # info.name
      BY <1>1, <1>4 DEF NamesIn
    <2>2. \A i, j \in 1..n : qs[i].name = qs[j].name => i = j
      BY <1>1, <1>4 DEF Distinct
    <2> QED BY <1>1, <1>2, <2>1, <2>2 DEF Distinct
  <1> QED BY <1>1, <1>3, <1>4 DEF qs

\* Two sequences without a common name, one after the other.
LEMMA NamesConcat ==
    ASSUME NEW E, NEW ps \in Seq(E), NEW qs \in Seq(E), Distinct(ps), Distinct(qs),
           NamesIn(ps) \cap NamesIn(qs) = {}
    PROVE  /\ ps \o qs \in Seq(E) /\ Len(ps \o qs) = Len(ps) + Len(qs)
           /\ NamesIn(ps \o qs) = NamesIn(ps) \union NamesIn(qs)
           /\ Distinct(ps \o qs)
  <1> DEFINE m == Len(ps)
             n == Len(qs)
             rs == ps \o qs
  <1>1. /\ m \in Nat /\ n \in Nat /\ DOMAIN ps = 1..m /\ DOMAIN qs = 1..n
        /\ rs \in Seq(E) /\ Len(rs) = m + n /\ DOMAIN rs = 1..(m + n)
        /\ \A i \in 1..m : rs[i] = ps[i]
        /\ \A i \in 1..n : rs[m + i] = qs[i]
    OBVIOUS
  <1> HIDE DEF m, n, rs
  <1>2. ASSUME NEW i \in 1..(m + n) PROVE i \in 1..m \/ (i - m \in 1..n /\ rs[i] = qs[i - m])
    <2>1. CASE i > m
      <3>1. i - m \in 1..n /\ m + (i - m) = i BY <1>1, <2>1
      <3> QED BY <1>1, <3>1
    <2> QED BY <1>1, <2>1
  <1>3. ASSUME NEW i \in 1..m PROVE i \in 1..(m + n) /\ rs[i] = ps[i] /\ ps[i].name \in NamesIn(ps)
    <2>1. ps[i].name \in NamesIn(ps) BY <1>1 DEF NamesIn
    <2> QED BY <1>1, <2>1
  <1>4. ASSUME NEW i \in 1..n PROVE m + i \in 1..(m + n) /\ rs[m + i] = qs[i] /\ qs[i].name \in NamesIn(qs)
    <2>1. qs[i].name \in NamesIn(qs) BY <1>1 DEF NamesIn
    <2> QED BY <1>1, <2>1
  <1>5. NamesIn(rs) = NamesIn(ps) \union NamesIn(qs)
    <2>1. ASSUME NEW i \in 1..(m + n) PROVE rs[i].name \in NamesIn(ps) \union NamesIn(qs)
      BY <1>2, <1>3, <1>4
    <2>2. ASSUME NEW i \in 1..m PROVE ps[i].name \in NamesIn(rs)
      BY <1>1, <1>3 DEF NamesIn
    <2>3. ASSUME NEW i \in 1..n PROVE qs[i].name \in NamesIn(rs)
      BY <1>1, <1>4 DEF NamesIn
    <2>4. NamesIn(rs) \subseteq NamesIn(ps) \union NamesIn(qs)
      BY <1>1, <2>1 DEF NamesIn
    <2>5. NamesIn(ps) \subseteq NamesIn(rs)
      BY <1>1, <2>2 DEF NamesIn
    <2>6. NamesIn(qs) \subseteq NamesIn(rs)
      BY <1>1, <2>3 DEF NamesIn
    <2> QED BY <2>4, <2>5, <2>6
  <1>6. Distinct(rs)
    <2> SUFFICES ASSUME NEW i \in 1..(m + n), NEW j \in 1..(m + n), rs[i].name = rs[j].name
                 PROVE  i = j
      BY <1>1 DEF Distinct
    <2>1. CASE i \in 1..m /\ j \in 1..m
      BY <1>1, <1>3, <2>1 DEF Distinct
    <2>2. CASE i \in 1..m /\ j \notin 1..m
      BY <1>2, <1>3, <1>4, <2>2
    <2>3. CASE i \notin 1..m /\ j \in 1..m
      BY <1>2, <1>3, <1>4, <2>3
    <2>4. CASE i \notin 1..m /\ j \notin 1..m
      <3>1. i - m \in 1..n /\ j - m \in 1..n /\ rs[i] = qs[i - m] /\ rs[j] = qs[j - m]
        BY <1>2, <2>4
      <3>2. i - m = j - m
        BY <1>1, <3>1 DEF Distinct
      <3> QED BY <1>1, <3>2
    <2> QED BY <2>1, <2>2, <2>3, <2>4
  <1> QED BY <1>1, <1>5, <1>6 DEF m, n, rs

\* swap_remove takes one entry away and keeps the others, in some order.
LEMMA NamesSwapRemove ==
    ASSUME NEW E, NEW ps \in Seq(E), Distinct(ps), NEW i \in DOMAIN ps
    PROVE  /\ SwapRemove(ps, i) \in Seq(E) /\ Len(SwapRemove(ps, i)) = Len(ps) - 1
           /\ NamesIn(SwapRemove(ps, i)) = NamesIn(ps) \ {ps[i].name}
           /\ Distinct(SwapRemove(ps, i))
  <1> DEFINE n == Len(ps)
             k == n - 1
             qs == SwapRemove(ps, i)
  <1>1. /\ n \in Nat /\ DOMAIN ps = 1..n /\ i \in 1..n /\ k \in Nat
        /\ qs = [j \in 1..k |-> IF j = i THEN ps[n] ELSE ps[j]]
    BY DEF SwapRemove
  <1>2. \A j \in 1..n : ps[j] \in E
    OBVIOUS
  <1>3. n = k + 1
    BY <1>1
  <1> HIDE DEF n, k, qs
  <1>4. qs \in Seq(E) /\ Len(qs) = k /\ DOMAIN qs = 1..k
    <2>1. \A j \in 1..k : (IF j = i THEN ps[n] ELSE ps[j]) \in E
      BY <1>1, <1>2, <1>3
    <2> QED BY <1>1, <2>1
  <1>5. ASSUME NEW j \in 1..k
        PROVE  \/ j = i /\ i # n /\ qs[j] = ps[n]
               \/ j # i /\ qs[j] = ps[j] /\ j \in 1..n /\ j # n
    BY <1>1, <1>3
  <1>6. n \in 1..n
    BY <1>1
  <1>7. NamesIn(qs) = NamesIn(ps) \ {ps[i].name}
    <2>1. ASSUME NEW j \in 1..k PROVE qs[j].name \in NamesIn(ps) \ {ps[i].name}
      BY <1>1, <1>5, <1>6 DEF NamesIn, Distinct
    <2>2. ASSUME NEW j \in 1..n, ps[j].name # ps[i].name PROVE ps[j].name \in NamesIn(qs)
      <3>1. j # i
        BY <2>2
      <3>2. CASE j = n
        <4>1. i \in 1..k
          BY <1>1, <1>3, <3>1, <3>2
        <4> QED BY <1>1, <1>4, <3>2, <4>1 DEF NamesIn
      <3>3. CASE j # n
        <4>1. j \in 1..k
          BY <1>1, <1>3, <3>3
        <4> QED BY <1>1, <1>4, <3>1, <4>1 DEF NamesIn
      <3> QED BY <3>2, <3>3
    <2>3. NamesIn(qs) \subseteq NamesIn(ps) \ {ps[i].name}
      BY <1>4, <2>1 DEF NamesIn
    <2>4. NamesIn(ps) \ {ps[i].name} \subseteq NamesIn(qs)
      BY <1>1, <2>2 DEF NamesIn
    <2> QED BY <2>3, <2>4
  <1>8. Distinct(qs)
    <2> SUFFICES ASSUME NEW j \in 1..k, NEW l \in 1..k, qs[j].name = qs[l].name PROVE j = l
      BY <1>4 DEF Distinct
    <2> QED BY <1>1, <1>5, <1>6 DEF Distinct
  <1> QED BY <1>3, <1>4, <1>7, <1>8, <1>1 DEF qs, n

\* The pairs of maps that hold every plugin of the binary once, with an entry in E.
Maps(E) ==
    {maps \in [new : Seq(E), old : Seq(E)] :
        /\ Distinct(maps.new) /\ Distinct(maps.old)
        /\ NamesIn(maps.new) \cap NamesIn(maps.old) = {}
        /\ NamesIn(maps.new) \union NamesIn(maps.old) = PluginNames
        /\ Len(maps.new) + Len(maps.old) = Len(Bundled)}

\* A search by name finds an entry of that name, or nothing.
LEMMA FindIs ==
    ASSUME NEW E, NEW ps \in Seq(E), NEW name
    PROVE  /\ Find(ps, name) = 0 \/ (Find(ps, name) \in DOMAIN ps /\ ps[Find(ps, name)].name = name)
           /\ name \in NamesIn(ps) => Find(ps, name) # 0
  <1> DEFINE I == {i \in 1..Len(ps) : ps[i].name = name}
  <1>1. Find(ps, name) = IF I # {} THEN Min(I) ELSE 0
    BY Zenon DEF Find, SelectInSeq
  <1>2. CASE I # {}
    <2>1. PICK m \in I : \A j \in I : m =< j
      <3>1. I \subseteq Nat
        OBVIOUS
      <3> HIDE DEF I
      <3> QED BY <1>2, <3>1, SmallestElement
    <2>2. Min(I) \in I
      <3> HIDE DEF I
      <3> QED BY <2>1 DEF Min
    <2> QED BY <1>1, <1>2, <2>2
  <1>3. name \in NamesIn(ps) => I # {}
    BY DEF NamesIn
  <1> QED BY <1>1, <1>2, <1>3

\* Moving an entry from one map to another makes no entry.
LEMMA MoveToKeeps == ASSUME NEW E, NEW maps \in Maps(E), NEW name PROVE MoveTo(name, maps) \in Maps(E)
  <1> DEFINE i == Find(maps.old, name)
  <1>1. /\ maps.new \in Seq(E) /\ maps.old \in Seq(E)
        /\ Distinct(maps.new) /\ Distinct(maps.old)
        /\ NamesIn(maps.new) \cap NamesIn(maps.old) = {}
        /\ NamesIn(maps.new) \union NamesIn(maps.old) = PluginNames
        /\ Len(maps.new) + Len(maps.old) = Len(Bundled)
    BY DEF Maps
  <1>2. i = 0 \/ i \in DOMAIN maps.old
    BY <1>1, FindIs
  <1> HIDE DEF i
  <1>3. CASE i = 0
    BY <1>3 DEF MoveTo, i
  <1>4. CASE i # 0
    <2> DEFINE info == maps.old[i]
               fresh == Append(maps.new, info)
               left == SwapRemove(maps.old, i)
    <2>1. /\ i \in DOMAIN maps.old /\ info \in E /\ info.name \in NamesIn(maps.old)
      <3>1. i \in DOMAIN maps.old /\ info \in E
        BY <1>1, <1>2, <1>4
      <3> QED BY <3>1 DEF NamesIn
    <2>2. /\ fresh \in Seq(E) /\ NamesIn(fresh) = NamesIn(maps.new) \union {info.name}
          /\ Distinct(fresh)
      BY <1>1, <2>1, NamesAppend
    <2>3. /\ left \in Seq(E) /\ Len(left) = Len(maps.old) - 1
          /\ NamesIn(left) = NamesIn(maps.old) \ {info.name} /\ Distinct(left)
      BY <1>1, <2>1, NamesSwapRemove
    <2>4. Len(fresh) = Len(maps.new) + 1 /\ Len(maps.new) \in Nat /\ Len(maps.old) \in Nat
      BY <1>1, <2>1
    <2>5. MoveTo(name, maps) = [new |-> fresh, old |-> left]
      BY <1>4 DEF MoveTo, i
    <2> HIDE DEF info, fresh, left
    <2>6. Len(fresh) + Len(left) = Len(Bundled)
      <3> DEFINE m == Len(maps.new)
                 n == Len(maps.old)
      <3>1. m \in Nat /\ n \in Nat /\ m + n = Len(Bundled)
        BY <1>1, <2>4
      <3>2. Len(fresh) = m + 1 /\ Len(left) = n - 1
        BY <2>3, <2>4
      <3> HIDE DEF m, n
      <3>3. (m + 1) + (n - 1) = m + n
        BY <3>1
      <3> QED BY <3>1, <3>2, <3>3
    <2>7. /\ NamesIn(fresh) \cap NamesIn(left) = {}
          /\ NamesIn(fresh) \union NamesIn(left) = PluginNames
      BY <1>1, <2>1, <2>2, <2>3
    <2>8. PICK moved : moved = [new |-> fresh, old |-> left]
      OBVIOUS
    <2>9. moved.new = fresh /\ moved.old = left /\ moved \in [new : Seq(E), old : Seq(E)]
      BY <2>2, <2>3, <2>8
    <2>10. moved \in Maps(E)
      BY <2>2, <2>3, <2>6, <2>7, <2>9 DEF Maps
    <2> QED BY <2>5, <2>8, <2>10
  <1> QED BY <1>3, <1>4

\* A plugin that has not been moved yet is put at the end of the new map.
LEMMA MoveToMoves ==
    ASSUME NEW E, NEW maps \in Maps(E), NEW name \in PluginNames, name \notin NamesIn(maps.new)
    PROVE  LET moved == MoveTo(name, maps).new
               n == Len(maps.new)
           IN /\ Len(moved) = n + 1 /\ moved[n + 1].name = name
              /\ \A i \in 1..n : moved[i] = maps.new[i]
  <1> DEFINE i == Find(maps.old, name)
  <1>1. maps.new \in Seq(E) /\ maps.old \in Seq(E) /\ name \in NamesIn(maps.old)
    BY DEF Maps
  <1>2. i # 0 /\ i \in DOMAIN maps.old /\ maps.old[i].name = name
    BY <1>1, FindIs
  <1> HIDE DEF i
  <1>3. MoveTo(name, maps).new = Append(maps.new, maps.old[i])
    BY <1>2 DEF MoveTo, i
  <1>4. maps.old[i] \in E
    BY <1>1, <1>2
  <1> QED BY <1>1, <1>2, <1>3, <1>4

\* A set of plugins: all those of the binary, once.
Sets == {ps \in Seq(Info) : /\ Distinct(ps) /\ NamesIn(ps) = PluginNames
                            /\ Len(ps) = Len(Bundled)}

\* Reordering by the list of the configuration keeps the plugins distinct and of the same set,
\* and puts those of the list first, in its order.
LEMMA ReorderKeeps ==
    ASSUME NEW E, E \subseteq Info, NEW ps \in Sets, ps \in Seq(E), NEW order \in Seq(PluginNames),
           \A i, j \in DOMAIN order : order[i] = order[j] => i = j
    PROVE  /\ ReorderPartial(ps, order) \in Sets /\ ReorderPartial(ps, order) \in Seq(E)
           /\ Len(order) =< Len(ReorderPartial(ps, order))
           /\ \A i \in 1..Len(order) : ReorderPartial(ps, order)[i].name = order[i]
  <1> DEFINE L == Len(order)
             start == [new |-> <<>>, old |-> ps]
             F == [q \in Maps(E) \X (1..L) |-> MoveTo(order[q[2]], q[1])]
             Is(g) == g = [n \in 0..L |-> IF n = 0 THEN start ELSE MoveTo(order[n], g[n - 1])]
             Begins(maps, n) == /\ Len(maps.new) = n
                                /\ \A i \in 1..n : maps.new[i].name = order[i]
  <1>0. L \in Nat /\ DOMAIN order = 1..L /\ \A i \in 1..L : order[i] \in PluginNames
    OBVIOUS
  <1>1. start \in Maps(E)
    <2>1. <<>> \in Seq(E) /\ Distinct(<<>>) /\ NamesIn(<<>>) = {} /\ Len(<<>>) = 0
      BY DEF Distinct, NamesIn
    <2>2. ps \in Seq(E) /\ Distinct(ps) /\ NamesIn(ps) = PluginNames /\ Len(ps) = Len(Bundled)
      BY DEF Sets
    <2>3. 0 + Len(ps) = Len(Bundled)
      BY <2>2
    <2> QED BY <2>1, <2>2, <2>3 DEF Maps
  <1>2. F \in [Maps(E) \X (1..L) -> Maps(E)]
    BY MoveToKeeps
  <1> HIDE DEF start
  <1>3. PICK g \in [0..L -> Maps(E)] : Follows(g, L, start, F)
    <2> HIDE DEF F, L
    <2>1. L \in Nat
      BY DEF L
    <2> QED BY <1>1, <1>2, <2>1, Recursion
  <1>4. Is(g)
    <2>1. ASSUME NEW n \in 0..L
          PROVE  g[n] = IF n = 0 THEN start ELSE MoveTo(order[n], g[n - 1])
      <3>1. n # 0 => g[n - 1] \in Maps(E) /\ n \in 1..L
        OBVIOUS
      <3> QED BY <1>3, <3>1 DEF Follows
    <2> QED BY <2>1
  <1>5. ASSUME NEW h, Is(h) PROVE h[L] \in Maps(E) /\ Begins(h[L], L)
    <2> DEFINE T == {n \in 0..L : h[n] \in Maps(E) /\ Begins(h[n], n)}
    <2>1. \A n \in 0..L : h[n] = IF n = 0 THEN start ELSE MoveTo(order[n], h[n - 1])
      BY <1>5, Zenon
    <2>2. 0 \in T
      <3>1. start.new = <<>> BY DEF start
      <3> QED BY <1>0, <1>1, <2>1, <3>1
    <2>3. ASSUME NEW n \in 1..L, n - 1 \in T PROVE n \in T
      <3> HIDE DEF L
      <3>0. n \in Nat \ {0} /\ n - 1 \in Nat /\ n \in 0..L /\ 1..n = 1..(n - 1) \union {n} BY <1>0
      <3>1. PICK maps : maps = h[n - 1] OBVIOUS
      <3>2. maps \in Maps(E) /\ Begins(maps, n - 1) /\ h[n] = MoveTo(order[n], maps)
        BY <2>1, <2>3, <3>0, <3>1
      <3>3. order[n] \in PluginNames /\ order[n] \notin NamesIn(maps.new)
        <4>1. ASSUME NEW i \in 1..(n - 1) PROVE maps.new[i].name # order[n]
          <5>1. i \in 1..L /\ i # n /\ maps.new[i].name = order[i] BY <1>0, <3>2
          <5> QED BY <1>0, <5>1
        <4>2. DOMAIN maps.new = 1..(n - 1) BY <3>0, <3>2 DEF Maps
        <4> QED BY <1>0, <4>1, <4>2 DEF NamesIn
      <3>4. PICK moved : moved = MoveTo(order[n], maps) OBVIOUS
      <3>5. /\ moved \in Maps(E) /\ Len(moved.new) = n /\ moved.new[n].name = order[n]
            /\ \A i \in 1..(n - 1) : moved.new[i] = maps.new[i]
        <4>1. moved \in Maps(E) BY <3>2, <3>4, MoveToKeeps
        <4>2. Len(maps.new) = n - 1 /\ (n - 1) + 1 = n BY <3>0, <3>2
        <4> QED BY <3>2, <3>3, <3>4, <4>1, <4>2, MoveToMoves
      <3>6. Begins(moved, n) BY <3>0, <3>2, <3>5
      <3> QED BY <3>0, <3>2, <3>4, <3>5, <3>6
    <2> HIDE DEF T, L
    <2>5. L \in Nat /\ L \in 0..L
      BY <1>0
    <2>4. L \in T
      BY <2>2, <2>3, <2>5, UpTo
    <2> QED BY <2>4 DEF T
  <1> DEFINE c == CHOOSE h : Is(h)
  <1>6. Is(c)
    <2> HIDE DEF Is
    <2> QED BY <1>4
  <1>7. Moved(ps, order) = c[L]
    BY Zenon DEF Moved, start
  <1> HIDE DEF Is, c, L
  <1>8. Moved(ps, order) \in Maps(E) /\ Begins(Moved(ps, order), L)
    BY <1>5, <1>6, <1>7
  <1> DEFINE maps == Moved(ps, order)
  <1>9. /\ maps.new \in Seq(E) /\ maps.old \in Seq(E)
        /\ Distinct(maps.new) /\ Distinct(maps.old)
        /\ NamesIn(maps.new) \cap NamesIn(maps.old) = {}
        /\ NamesIn(maps.new) \union NamesIn(maps.old) = PluginNames
        /\ Len(maps.new) + Len(maps.old) = Len(Bundled)
    BY <1>8 DEF Maps
  <1> HIDE DEF maps
  <1>10. /\ maps.new \o maps.old \in Seq(E)
         /\ Len(maps.new \o maps.old) = Len(maps.new) + Len(maps.old)
         /\ NamesIn(maps.new \o maps.old) = NamesIn(maps.new) \union NamesIn(maps.old)
         /\ Distinct(maps.new \o maps.old)
    BY <1>9, NamesConcat
  <1>11. ReorderPartial(ps, order) = maps.new \o maps.old
    BY DEF ReorderPartial, maps
  <1>12. maps.new \o maps.old \in Seq(Info)
    BY <1>10
  <1>13. Begins(maps, L)
    BY <1>8 DEF maps
  <1>14. /\ L =< Len(maps.new \o maps.old)
         /\ \A i \in 1..L : (maps.new \o maps.old)[i].name = order[i]
    <2>1. \A i \in 1..Len(maps.new) : (maps.new \o maps.old)[i] = maps.new[i]
      <3> DEFINE p == maps.new
                 q == maps.old
      <3>1. p \in Seq(E) /\ q \in Seq(E) BY <1>9
      <3> HIDE DEF p, q
      <3>2. \A i \in 1..Len(p) : (p \o q)[i] = p[i] BY <3>1
      <3> QED BY <3>2 DEF p, q
    <2>2. Len(maps.new) = L /\ L =< Len(maps.new) + Len(maps.old)
      BY <1>9, <1>13
    <2> HIDE DEF L
    <2> QED BY <1>10, <1>13, <2>1, <2>2
  <1> QED BY <1>9, <1>10, <1>11, <1>12, <1>14 DEF Sets, L

\* The plugins that are enabled, each once.
LEMMA EnabledOfIs ==
    ASSUME NEW ps \in Seq(Info), Distinct(ps)
    PROVE  /\ EnabledOf(ps) \in Seq(Info) /\ Distinct(EnabledOf(ps))
           /\ \A name \in NamesIn(EnabledOf(ps)) : \E i \in DOMAIN ps : ps[i].name = name /\ ps[i].enabled
  <1> DEFINE L == Len(ps)
             Step(q, n) == IF ps[n].enabled THEN Append(q, ps[n]) ELSE q
             F == [q \in Seq(Info) \X (1..L) |-> Step(q[1], q[2])]
             Is(g) == g = [n \in 0..L |-> IF n = 0 THEN <<>> ELSE IF ps[n].enabled
                              THEN Append(g[n - 1], ps[n]) ELSE g[n - 1]]
             Chosen(q, n) == /\ q \in Seq(Info) /\ Distinct(q)
                             /\ \A name \in NamesIn(q) :
                                   \E i \in 1..n : ps[i].name = name /\ ps[i].enabled
  <1>0. L \in Nat /\ DOMAIN ps = 1..L /\ \A i \in 1..L : ps[i] \in Info
    OBVIOUS
  <1>2. F \in [Seq(Info) \X (1..L) -> Seq(Info)]
    <2>1. \A q \in Seq(Info), n \in 1..L : Step(q, n) \in Seq(Info)
      BY <1>0
    <2> HIDE DEF Step
    <2> QED BY <2>1
  <1> HIDE DEF L
  <1>3. PICK g \in [0..L -> Seq(Info)] : Follows(g, L, <<>>, F)
    <2> HIDE DEF F
    <2>1. <<>> \in Seq(Info)
      OBVIOUS
    <2> QED BY <1>0, <1>2, <2>1, Recursion
  <1>4. Is(g)
    <2>1. ASSUME NEW n \in 0..L
          PROVE  g[n] = IF n = 0 THEN <<>> ELSE Step(g[n - 1], n)
      <3> HIDE DEF Step
      <3>1. n # 0 => g[n - 1] \in Seq(Info) /\ n \in 1..L
        BY <1>0
      <3> QED BY <1>3, <3>1 DEF Follows
    <2> QED BY <2>1
  <1>5. ASSUME NEW h, Is(h) PROVE Chosen(h[L], L)
    <2> DEFINE T == {n \in 0..L : Chosen(h[n], n)}
    <2>1. \A n \in 0..L : h[n] = IF n = 0 THEN <<>> ELSE Step(h[n - 1], n)
      BY <1>5, Zenon
    <2>2. 0 \in T
      <3>1. Chosen(<<>>, 0)
        BY DEF Distinct, NamesIn
      <3>2. h[0] = <<>> /\ 0 \in 0..L
        BY <1>0, <2>1
      <3> HIDE DEF Chosen, Step
      <3> QED BY <3>1, <3>2
    <2>3. ASSUME NEW n \in 1..L, n - 1 \in T PROVE n \in T
      <3>0. n \in 0..L /\ n \in Nat /\ n # 0
        BY <1>0
      <3>1. h[n] = Step(h[n - 1], n) /\ n \in 0..L /\ n \in Nat
        <4> HIDE DEF Step
        <4> QED BY <2>1, <3>0
      <3>2. PICK q : q = h[n - 1]
        OBVIOUS
      <3>3. Chosen(q, n - 1)
        BY <2>3, <3>2
      <3>4. Chosen(q, n)
        <4>1. \A i \in 1..(n - 1) : i \in 1..n
          BY <3>1
        <4> QED BY <3>3, <4>1
      <3>5. CASE ps[n].enabled
        <4>1. ps[n].name \notin NamesIn(q)
          <5>1. \A i \in 1..(n - 1) : i \in 1..L /\ n \in 1..L /\ i # n
            BY <1>0
          <5> QED BY <1>0, <3>3, <5>1 DEF Distinct
        <4>2. /\ Append(q, ps[n]) \in Seq(Info) /\ Distinct(Append(q, ps[n]))
              /\ NamesIn(Append(q, ps[n])) = NamesIn(q) \union {ps[n].name}
          BY <1>0, <3>3, <4>1, NamesAppend
        <4>3. n \in 1..n
          BY <3>1
        <4>4. Chosen(Append(q, ps[n]), n)
          BY <3>4, <3>5, <4>2, <4>3
        <4> HIDE DEF Chosen
        <4> QED BY <3>1, <3>2, <3>5, <4>4
      <3>6. CASE ~ps[n].enabled
        <4> HIDE DEF Chosen
        <4> QED BY <3>1, <3>2, <3>4, <3>6
      <3> QED BY <3>5, <3>6
    <2> HIDE DEF T
    <2>5. L \in Nat /\ L \in 0..L
      BY <1>0
    <2>4. L \in T
      BY <2>2, <2>3, <2>5, UpTo
    <2> QED BY <2>4 DEF T
  <1> DEFINE c == CHOOSE h : Is(h)
  <1>6. Is(c)
    <2> HIDE DEF Is
    <2> QED BY <1>4
  <1>7. EnabledOf(ps) = c[L]
    BY Zenon DEF EnabledOf, L
  <1> HIDE DEF Is, c
  <1>8. Chosen(EnabledOf(ps), L)
    <2> HIDE DEF Chosen
    <2> QED BY <1>5, <1>6, <1>7
  <1> QED BY <1>0, <1>8

\* Enabling from the command line or from the file keeps a list of distinct plugins.
LEMMA EnableKeeps ==
    ASSUME NEW ps \in Sets
    PROVE  /\ \A names : EnableOnly(ps, names) \in Sets
           /\ \A file : EnableFrom(ps, file) \in Sets
  <1> DEFINE n == Len(ps)
  <1>1. /\ n \in Nat /\ DOMAIN ps = 1..n /\ (\A i \in 1..n : ps[i] \in Info) /\ n = Len(Bundled)
        /\ Distinct(ps) /\ NamesIn(ps) = PluginNames
    BY DEF Sets
  <1>2. ASSUME NEW on \in [1..n -> BOOLEAN]
        PROVE  [i \in DOMAIN ps |-> [ps[i] EXCEPT !.enabled = on[i]]] \in Sets
    <2> DEFINE qs == [i \in DOMAIN ps |-> [ps[i] EXCEPT !.enabled = on[i]]]
    <2>1. ASSUME NEW i \in 1..n
          PROVE  qs[i] \in Info /\ qs[i].name = ps[i].name
      BY <1>1 DEF Info
    <2>2. qs \in Seq(Info) /\ Len(qs) = n /\ DOMAIN qs = 1..n
      <3> HIDE DEF n
      <3>1. qs \in [1..n -> Info]
        BY <1>1, <2>1
      <3> QED BY <1>1, <3>1
    <2> HIDE DEF qs
    <2>3. Distinct(qs) /\ NamesIn(qs) = NamesIn(ps)
      BY <1>1, <2>1, <2>2 DEF Distinct, NamesIn
    <2> QED BY <1>1, <2>2, <2>3 DEF Sets, qs
  <1> HIDE DEF n
  <1>3. ASSUME NEW names PROVE EnableOnly(ps, names) \in Sets
    <2> DEFINE on == [i \in 1..n |-> ps[i].name \in names]
    <2>1. on \in [1..n -> BOOLEAN]
      OBVIOUS
    <2>2. EnableOnly(ps, names) = [i \in DOMAIN ps |-> [ps[i] EXCEPT !.enabled = on[i]]]
      BY <1>1 DEF EnableOnly
    <2> HIDE DEF on
    <2> QED BY <1>2, <2>1, <2>2
  <1>4. ASSUME NEW file PROVE EnableFrom(ps, file) \in Sets
    <2> DEFINE on == [i \in 1..n |-> \E j \in DOMAIN file : file[j].name = ps[i].name /\ file[j].enabled]
    <2>1. on \in [1..n -> BOOLEAN]
      OBVIOUS
    <2>2. EnableFrom(ps, file) = [i \in DOMAIN ps |-> [ps[i] EXCEPT !.enabled = on[i]]]
      BY <1>1 DEF EnableFrom
    <2> HIDE DEF on
    <2> QED BY <1>2, <2>1, <2>2
  <1> QED BY <1>3, <1>4

Phases == {"init", "start", "pre", "post", "stop"}

\* What can be called: a hook of a plugin, or an action that it registered.
CallSet == (Phases \X PluginNames) \union ({"preAction", "postAction"} \X PluginNames \X Nat)

Calls == Seq(CallSet)

\* The calls c begin with the calls b.
Pre(b, c) == \E rest2 \in Calls : c = Cat(b, rest2)

\* The empty sequence of calls is neutral.
LEMMA EmptyCall ==
    ASSUME NEW c \in Calls
    PROVE  <<>> \in Calls /\ Cat(c, <<>>) = c /\ Cat(<<>>, c) = c
  BY DEF Cat, Calls

\* A concatenation of calls extends its first part.
LEMMA CatCalls ==
    ASSUME NEW b \in Calls, NEW c \in Calls
    PROVE  Cat(b, c) \in Calls /\ Pre(b, Cat(b, c)) /\ Pre(b, b)
  <1>1. Cat(b, c) \in Calls
    BY DEF Cat, Calls
  <1>2. Cat(b, <<>>) = b /\ <<>> \in Calls
    BY EmptyCall
  <1> QED BY <1>1, <1>2 DEF Pre

\* To be extended by is transitive.
LEMMA PreTransitive ==
    ASSUME NEW b \in Calls, NEW c \in Calls, NEW d \in Calls, Pre(b, c), Pre(c, d)
    PROVE  Pre(b, d)
  <1>1. PICK u \in Calls : c = Cat(b, u)
    BY DEF Pre
  <1>2. PICK v \in Calls : d = Cat(c, v)
    BY DEF Pre
  <1>3. Cat(Cat(b, u), v) = Cat(b, Cat(u, v)) /\ Cat(u, v) \in Calls
    BY CatIsAssociative DEF Calls
  <1> QED BY <1>1, <1>2, <1>3 DEF Pre

\* A longer second part extends a concatenation.
LEMMA PreOfCat ==
    ASSUME NEW b \in Calls, NEW c \in Calls, NEW d \in Calls, Pre(c, d)
    PROVE  Pre(Cat(b, c), Cat(b, d))
  <1>1. PICK u \in Calls : d = Cat(c, u)
    BY DEF Pre
  <1>2. Cat(Cat(b, c), u) = Cat(b, Cat(c, u))
    BY CatIsAssociative DEF Calls
  <1> QED BY <1>1, <1>2 DEF Pre

\* An extension has the extended sequence as a prefix, in the sense of SequencesExt.
LEMMA PreIsPrefix ==
    ASSUME NEW b \in Calls, NEW c \in Calls, Pre(b, c)
    PROVE  IsPrefix(b, c)
  <1>1. PICK u \in Calls : c = b \o u
    BY DEF Pre, Cat
  <1>2. /\ Len(b) \in Nat /\ Len(u) \in Nat /\ Len(c) = Len(b) + Len(u)
        /\ \A j \in 1..Len(b) : c[j] = b[j]
    BY <1>1 DEF Calls
  <1>3. Len(b) <= Len(c) /\ \A j \in 1..Len(b) : b[j] = c[j]
    BY <1>2
  <1> QED BY <1>3, PrefixMeans DEF Calls

-------------------------------------------------------------------------------
(* The schedule.                                                               *)

Behaviour == [pre : Nat, post : Nat, subscribes : BOOLEAN]

Regs == [PluginNames -> Behaviour]

Actions(action, p, n) == [i \in 1..n |-> <<action, p, i>>]

\* The calls of the plugin p in a phase, when the plugins have registered reg.
BlockOf(reg, phase, p) ==
    IF phase = "pre" THEN Cat(<<<<"pre", p>>>>, Actions("preAction", p, reg[p].pre))
    ELSE IF phase = "post" THEN Cat(<<<<"post", p>>>>, Actions("postAction", p, reg[p].post))
    ELSE <<<<phase, p>>>>

\* The calls of the first k plugins of ps in a phase, and those of the whole phase.
FirstOf(ps, reg, phase, k) == FlattenSeq([i \in 1..k |-> BlockOf(reg, phase, ps[i].name)])

WholeOf(ps, reg, phase) == FirstOf(ps, reg, phase, Len(ps))

\* What is called for one plugin in one phase is a sequence of calls.
LEMMA BlockIsCalls ==
    ASSUME NEW reg \in Regs, NEW phase \in Phases, NEW p \in PluginNames
    PROVE  /\ BlockOf(reg, phase, p) \in Calls
           /\ \A n \in Nat, action \in {"preAction", "postAction"} : Actions(action, p, n) \in Calls
           /\ <<<<phase, p>>>> \in Calls
  <1>1. <<phase, p>> \in CallSet
    BY DEF CallSet
  <1>2. <<<<phase, p>>>> \in Calls
    BY <1>1 DEF Calls
  <1>3. ASSUME NEW n \in Nat, NEW action \in {"preAction", "postAction"} PROVE Actions(action, p, n) \in Calls
    <2>1. \A i \in 1..n : <<action, p, i>> \in CallSet
      BY DEF CallSet
    <2> HIDE DEF CallSet
    <2>2. [i \in 1..n |-> <<action, p, i>>] \in Seq(CallSet)
      BY <2>1
    <2> QED BY <2>2 DEF Actions, Calls
  <1>4. reg[p].pre \in Nat /\ reg[p].post \in Nat
    BY DEF Regs, Behaviour
  <1>5. \A b \in Calls, c \in Calls : Cat(b, c) \in Calls
    BY CatCalls
  <1>7. BlockOf(reg, phase, p) \in Calls
    <2>1. Actions("preAction", p, reg[p].pre) \in Calls /\ Actions("postAction", p, reg[p].post) \in Calls
      BY <1>3, <1>4
    <2> HIDE DEF Calls
    <2>2. phase = "pre" => Cat(<<<<"pre", p>>>>, Actions("preAction", p, reg[p].pre)) \in Calls
      BY <1>2, <1>5, <2>1
    <2>3. phase = "post" => Cat(<<<<"post", p>>>>, Actions("postAction", p, reg[p].post)) \in Calls
      BY <1>2, <1>5, <2>1
    <2> QED BY <1>2, <2>2, <2>3 DEF BlockOf
  <1> QED BY <1>2, <1>3, <1>7

\* One more plugin.
LEMMA FirstNext ==
    ASSUME NEW ps \in Seq(Info), NEW reg \in Regs, NEW phase \in Phases, NEW k \in 0..Len(ps)
    PROVE  /\ FirstOf(ps, reg, phase, 0) = <<>>
           /\ FirstOf(ps, reg, phase, k) \in Calls
           /\ k < Len(ps) =>
                 FirstOf(ps, reg, phase, k + 1) =
                   Cat(FirstOf(ps, reg, phase, k), BlockOf(reg, phase, ps[k + 1].name))
  <1> DEFINE B(i) == BlockOf(reg, phase, ps[i].name)
             bs == [i \in 1..k |-> B(i)]
  <1>1. /\ Len(ps) \in Nat /\ k \in Nat /\ k <= Len(ps)
        /\ \A i \in 1..Len(ps) : ps[i] \in Info
    OBVIOUS
  <1>2. \A i \in 1..Len(ps) : B(i) \in Calls
    <2>1. \A i \in 1..Len(ps) : ps[i].name \in PluginNames
      BY <1>1 DEF Info
    <2> QED BY <2>1, BlockIsCalls
  <1> HIDE DEF B
  <1>3. bs \in Seq(Calls)
    BY <1>1, <1>2
  <1>4. FlattenSeq(bs) \in Calls
    <2>1. ASSUME NEW c \in Calls
          PROVE FlattenSeq(bs) \in Calls /\ FlattenSeq(Append(bs, c)) = FlattenSeq(bs) \o c
      BY <1>3, FlattenAppend DEF Calls
    <2>2. <<>> \in Calls
      BY DEF Calls
    <2> QED BY <2>1, <2>2
  <1>5. ASSUME k < Len(ps)
        PROVE  FlattenSeq([i \in 1..(k + 1) |-> B(i)]) = Cat(FlattenSeq(bs), B(k + 1))
    <2>1. B(k + 1) \in Calls
      BY <1>1, <1>2, <1>5
    <2>2. Append(bs, B(k + 1)) = [i \in 1..(k + 1) |-> B(i)]
      BY <1>1
    <2>3. FlattenSeq(Append(bs, B(k + 1))) = FlattenSeq(bs) \o B(k + 1)
      <3> HIDE DEF bs
      <3> QED BY <1>3, <2>1, FlattenAppend DEF Calls
    <2> QED BY <2>2, <2>3 DEF Cat
  <1>6. FlattenSeq([i \in 1..0 |-> B(i)]) = <<>>
    <2>1. [i \in 1..0 |-> B(i)] = <<>>
      OBVIOUS
    <2> QED BY <2>1, FlattenEmpty
  <1> QED BY <1>4, <1>5, <1>6 DEF FirstOf, B

\* The calls of the first plugins of a phase begin the calls of the phase.
LEMMA FirstIsPre ==
    ASSUME NEW ps \in Seq(Info), NEW reg \in Regs, NEW phase \in Phases, NEW k \in 0..Len(ps)
    PROVE  Pre(FirstOf(ps, reg, phase, k), WholeOf(ps, reg, phase))
  <1> DEFINE L == Len(ps)
             F(i) == FirstOf(ps, reg, phase, i)
             T == {i \in 0..L : Pre(F(L - i), F(L))}
  <1>1. L \in Nat
    OBVIOUS
  <1>2. \A i \in 0..L : F(i) \in Calls
    BY FirstNext
  <1>3. \A i \in 0..L : i < L => Pre(F(i), F(i + 1))
    <2> SUFFICES ASSUME NEW i \in 0..L, i < L PROVE Pre(F(i), F(i + 1))
      OBVIOUS
    <2> DEFINE b == BlockOf(reg, phase, ps[i + 1].name)
    <2>1. F(i + 1) = Cat(F(i), b)
      BY FirstNext
    <2>2. b \in Calls
      <3>1. ps[i + 1] \in Info
        OBVIOUS
      <3>2. ps[i + 1].name \in PluginNames
        BY <3>1 DEF Info
      <3> QED BY <3>2, BlockIsCalls
    <2> HIDE DEF b
    <2> QED BY <2>1, <2>2 DEF Pre
  <1> HIDE DEF F, L
  <1>4. 0 \in T
    <2>1. L - 0 = L /\ L \in 0..L /\ 0 \in 0..L
      BY <1>1
    <2>2. Pre(F(L), F(L))
      BY <1>2, <2>1, CatCalls
    <2> QED BY <2>1, <2>2
  <1>5. ASSUME NEW i \in 1..L, i - 1 \in T PROVE i \in T
    <2>1. L - i \in 0..L /\ L - i < L /\ (L - i) + 1 = L - (i - 1) /\ L - (i - 1) \in 0..L /\ L \in 0..L
      BY <1>1
    <2>2. Pre(F(L - i), F(L - (i - 1)))
      BY <1>3, <2>1
    <2>3. Pre(F(L - i), F(L))
      <3>1. F(L - i) \in Calls /\ F(L - (i - 1)) \in Calls /\ F(L) \in Calls
        BY <1>2, <2>1
      <3> QED BY <1>5, <2>2, <3>1, PreTransitive
    <2> QED BY <1>1, <2>3
  <1> HIDE DEF T
  <1>6. \A i \in 0..L : i \in T
    BY <1>1, <1>4, <1>5, UpTo
  <1>7. L - k \in T
    BY <1>1, <1>6 DEF L
  <1>8. L - (L - k) = k
    BY <1>1 DEF L
  <1> QED BY <1>7, <1>8 DEF T, F, L, WholeOf

-------------------------------------------------------------------------------
(* The points of the schedule.                                                 *)

Upto2(ps, reg) == Cat(WholeOf(ps, reg, "init"), WholeOf(ps, reg, "start"))
Upto3(ps, reg) == Cat(Upto2(ps, reg), WholeOf(ps, reg, "pre"))
Upto4(ps, reg) == Cat(Upto3(ps, reg), WholeOf(ps, reg, "post"))
Upto5(ps, reg) == Cat(Upto4(ps, reg), WholeOf(ps, reg, "stop"))

\* What has been called before a stage.
Before(ps, reg, st) ==
    IF st \in {"args", "config", "init"} THEN <<>>
    ELSE IF st = "start" THEN WholeOf(ps, reg, "init")
    ELSE IF st = "pre" THEN Upto2(ps, reg)
    ELSE IF st \in {"build", "post"} THEN Upto3(ps, reg)
    ELSE IF st = "code" THEN Upto5(ps, reg) ELSE Upto4(ps, reg)

\* What has been called when a stage has done k plugins.
CallsAt(ps, reg, st, k) ==
    IF st \in Phases THEN Cat(Before(ps, reg, st), FirstOf(ps, reg, st, k))
    ELSE Before(ps, reg, st)

Following(st) ==
    CASE st = "init" -> "start" [] st = "start" -> "pre" [] st = "pre" -> "build"
      [] st = "post" -> "ready" [] st = "stop" -> "code"

\* The calls up to each phase begin the calls of a whole start.
LEMMA UptoIs ==
    ASSUME NEW ps \in Seq(Info), NEW reg \in Regs
    PROVE  /\ \A st \in Phases : WholeOf(ps, reg, st) \in Calls
           /\ Upto2(ps, reg) \in Calls /\ Upto3(ps, reg) \in Calls
           /\ Upto4(ps, reg) \in Calls /\ Upto5(ps, reg) \in Calls
           /\ \A c \in {<<>>, WholeOf(ps, reg, "init"), Upto2(ps, reg), Upto3(ps, reg),
                        Upto4(ps, reg), Upto5(ps, reg)} :
                 c \in Calls /\ Pre(c, Upto5(ps, reg))
  <1>1. \A st \in Phases : WholeOf(ps, reg, st) \in Calls
    <2>1. Len(ps) \in 0..Len(ps)
      OBVIOUS
    <2> QED BY <2>1, FirstNext DEF WholeOf
  <1>2. \A b \in Calls, c \in Calls : Cat(b, c) \in Calls /\ Pre(b, Cat(b, c)) /\ Pre(b, b)
    BY CatCalls
  <1>3. /\ WholeOf(ps, reg, "init") \in Calls /\ WholeOf(ps, reg, "start") \in Calls
        /\ WholeOf(ps, reg, "pre") \in Calls /\ WholeOf(ps, reg, "post") \in Calls
        /\ WholeOf(ps, reg, "stop") \in Calls
    BY <1>1 DEF Phases
  <1> DEFINE A == WholeOf(ps, reg, "init")
             B == Upto2(ps, reg)
             C == Upto3(ps, reg)
             D == Upto4(ps, reg)
             E == Upto5(ps, reg)
  <1> HIDE DEF A, B, C, D, E
  <1>4. A \in Calls
    BY <1>3 DEF A
  <1>5. B \in Calls /\ Pre(A, B)
    BY <1>2, <1>3 DEF A, B, Upto2
  <1>6. C \in Calls /\ Pre(B, C)
    BY <1>2, <1>3, <1>5 DEF B, C, Upto3
  <1>7. D \in Calls /\ Pre(C, D)
    BY <1>2, <1>3, <1>6 DEF C, D, Upto4
  <1>8. E \in Calls /\ Pre(D, E)
    BY <1>2, <1>3, <1>7 DEF D, E, Upto5
  <1>9. Pre(C, E)
    BY <1>6, <1>7, <1>8, PreTransitive
  <1>10. Pre(B, E)
    BY <1>5, <1>6, <1>8, <1>9, PreTransitive
  <1>11. Pre(A, E)
    BY <1>4, <1>5, <1>8, <1>10, PreTransitive
  <1>12. Pre(E, E)
    BY <1>2, <1>8
  <1>13. <<>> \in Calls /\ Pre(<<>>, E)
    <2>1. <<>> \in Calls /\ Cat(<<>>, E) = E
      BY <1>8, EmptyCall
    <2> QED BY <2>1, <1>8 DEF Pre
  <1> QED BY <1>1, <1>4, <1>5, <1>6, <1>7, <1>8, <1>9, <1>10, <1>11, <1>12, <1>13 DEF A, B, C, D, E

\* The calls made before a stage begin the calls of a whole start.
LEMMA BeforeIs ==
    ASSUME NEW ps \in Seq(Info), NEW reg \in Regs, NEW st
    PROVE  Before(ps, reg, st) \in Calls /\ Pre(Before(ps, reg, st), Upto5(ps, reg))
  <1>1. Before(ps, reg, st) \in {<<>>, WholeOf(ps, reg, "init"), Upto2(ps, reg), Upto3(ps, reg),
                                 Upto4(ps, reg), Upto5(ps, reg)}
    BY DEF Before
  <1> QED BY <1>1, UptoIs

\* A phase that is complete is what has been called before the next stage.
LEMMA PhaseEnds ==
    ASSUME NEW ps \in Seq(Info), NEW reg \in Regs, NEW st \in Phases
    PROVE  /\ Cat(Before(ps, reg, st), WholeOf(ps, reg, st)) = Before(ps, reg, Following(st))
           /\ CallsAt(ps, reg, Following(st), 0) = Before(ps, reg, Following(st))
           /\ CallsAt(ps, reg, st, Len(ps)) = CallsAt(ps, reg, Following(st), 0)
  <1>1. Cat(Before(ps, reg, st), WholeOf(ps, reg, st)) = Before(ps, reg, Following(st))
    <2>1. CASE st = "init"
      <3>1. Cat(<<>>, WholeOf(ps, reg, "init")) = WholeOf(ps, reg, "init")
        BY <2>1, UptoIs, EmptyCall
      <3> QED BY <2>1, <3>1 DEF Before, Following
    <2>2. CASE st = "start"
      BY <2>2 DEF Before, Following, Upto2
    <2>3. CASE st = "pre"
      BY <2>3 DEF Before, Following, Upto3
    <2>4. CASE st = "post"
      BY <2>4 DEF Before, Following, Upto4
    <2>5. CASE st = "stop"
      BY <2>5 DEF Before, Following, Upto5
    <2> QED BY <2>1, <2>2, <2>3, <2>4, <2>5 DEF Phases
  <1>2. Following(st) \in {"start", "pre", "build", "ready", "code"}
    BY DEF Following, Phases
  <1>3. CallsAt(ps, reg, Following(st), 0) = Before(ps, reg, Following(st))
    <2>1. CASE Following(st) \in Phases
      <3>1. FirstOf(ps, reg, Following(st), 0) = <<>>
        BY <2>1, FirstNext
      <3>2. Cat(Before(ps, reg, Following(st)), <<>>) = Before(ps, reg, Following(st))
        BY BeforeIs, EmptyCall
      <3> QED BY <2>1, <3>1, <3>2 DEF CallsAt
    <2>2. CASE Following(st) \notin Phases
      BY <2>2 DEF CallsAt
    <2> QED BY <2>1, <2>2
  <1> QED BY <1>1, <1>3 DEF CallsAt, WholeOf

\* One more plugin in a phase: all of its calls, or some of them.
LEMMA PluginDone ==
    ASSUME NEW ps \in Seq(Info), NEW reg \in Regs, NEW st \in Phases, NEW k \in 0..(Len(ps) - 1)
    PROVE  /\ CallsAt(ps, reg, st, k) \in Calls
           /\ BlockOf(reg, st, ps[k + 1].name) \in Calls /\ ps[k + 1].name \in PluginNames
           /\ Cat(CallsAt(ps, reg, st, k), BlockOf(reg, st, ps[k + 1].name))
                = IF k + 1 = Len(ps) THEN CallsAt(ps, reg, Following(st), 0)
                  ELSE CallsAt(ps, reg, st, k + 1)
           /\ \A some \in Calls : Pre(some, BlockOf(reg, st, ps[k + 1].name)) =>
                 Pre(Cat(CallsAt(ps, reg, st, k), some), Upto5(ps, reg))
  <1> DEFINE p == ps[k + 1].name
             b == BlockOf(reg, st, p)
             F(i) == FirstOf(ps, reg, st, i)
             D == Before(ps, reg, st)
             W == WholeOf(ps, reg, st)
  <1>1. /\ k \in 0..Len(ps) /\ k + 1 \in 0..Len(ps) /\ k < Len(ps) /\ p \in PluginNames
    <2>1. k + 1 \in 1..Len(ps) /\ ps[k + 1] \in Info
      OBVIOUS
    <2> QED BY <2>1 DEF Info
  <1>2. b \in Calls
    BY <1>1, BlockIsCalls
  <1>3. F(k) \in Calls /\ F(k + 1) \in Calls /\ F(k + 1) = Cat(F(k), b)
    BY <1>1, FirstNext
  <1>4. D \in Calls /\ Pre(D, Upto5(ps, reg)) /\ W \in Calls /\ Upto5(ps, reg) \in Calls
    BY BeforeIs, UptoIs
  <1>5. Pre(F(k + 1), W)
    BY <1>1, FirstIsPre
  <1>6. Cat(D, W) \in Calls /\ Pre(Cat(D, W), Upto5(ps, reg))
    BY PhaseEnds, BeforeIs
  <1>7. CallsAt(ps, reg, st, k) = Cat(D, F(k)) /\ CallsAt(ps, reg, st, k + 1) = Cat(D, F(k + 1))
    BY DEF CallsAt
  <1>8. k + 1 = Len(ps) => CallsAt(ps, reg, st, k + 1) = CallsAt(ps, reg, Following(st), 0)
    BY PhaseEnds
  <1> HIDE DEF b, F, D, W, p
  <1>9. Cat(D, F(k)) \in Calls
    BY <1>3, <1>4, CatCalls
  <1>10. Cat(Cat(D, F(k)), b) = Cat(D, F(k + 1))
    BY <1>2, <1>3, <1>4, CatIsAssociative DEF Calls
  <1>11. ASSUME NEW some \in Calls, Pre(some, b)
         PROVE  Pre(Cat(Cat(D, F(k)), some), Upto5(ps, reg))
    <2>1. Pre(Cat(Cat(D, F(k)), some), Cat(D, F(k + 1)))
      BY <1>2, <1>9, <1>10, <1>11, PreOfCat
    <2>2. Pre(Cat(D, F(k + 1)), Cat(D, W))
      BY <1>3, <1>4, <1>5, PreOfCat
    <2>3. Cat(Cat(D, F(k)), some) \in Calls /\ Cat(D, F(k + 1)) \in Calls
      BY <1>3, <1>4, <1>9, CatCalls
    <2>4. Pre(Cat(Cat(D, F(k)), some), Cat(D, W))
      BY <1>6, <2>1, <2>2, <2>3, PreTransitive
    <2> QED BY <1>4, <1>6, <2>3, <2>4, PreTransitive
  <1>12. Cat(Cat(D, F(k)), b) = IF k + 1 = Len(ps) THEN CallsAt(ps, reg, Following(st), 0)
                                ELSE CallsAt(ps, reg, st, k + 1)
    BY <1>7, <1>8, <1>10
  <1> QED BY <1>1, <1>2, <1>7, <1>9, <1>11, <1>12 DEF b, p

\* What plugins register when they start concerns the later phases only.
LEMMA StartsOnly ==
    ASSUME NEW ps \in Seq(Info), NEW reg \in Regs, NEW reg2 \in Regs, NEW st \in {"init", "start"}, NEW k
    PROVE  CallsAt(ps, reg, st, k) = CallsAt(ps, reg2, st, k) /\ Before(ps, reg, "pre") = Before(ps, reg2, "pre")
  <1>1. \A p : /\ BlockOf(reg, "init", p) = BlockOf(reg2, "init", p)
               /\ BlockOf(reg, "start", p) = BlockOf(reg2, "start", p)
    BY DEF BlockOf
  <1>2. \A i : /\ FirstOf(ps, reg, "init", i) = FirstOf(ps, reg2, "init", i)
               /\ FirstOf(ps, reg, "start", i) = FirstOf(ps, reg2, "start", i)
    BY <1>1 DEF FirstOf
  <1>3. /\ WholeOf(ps, reg, "init") = WholeOf(ps, reg2, "init")
        /\ WholeOf(ps, reg, "start") = WholeOf(ps, reg2, "start")
    BY <1>2 DEF WholeOf
  <1> QED BY <1>2, <1>3 DEF CallsAt, Before, Upto2, Phases

-------------------------------------------------------------------------------
(* The invariant.                                                              *)

Stages == Phases \union {"args", "config", "build", "ready", "spawn", "child", "wait", "code", "exited"}

\* The entries that a selection allows.
Allowed(names) == {info \in Info : names # NoSelection /\ info.enabled => info.name \in names}

AgentTypes ==
    /\ command \in {"run", "exec", "watch"}
    /\ set \in Sets /\ set \in Seq(Allowed(selection))
    /\ configOrder \in Seq(PluginNames) /\ Len(configOrder) =< Len(set)
    /\ \A i \in 1..Len(configOrder) : set[i].name = configOrder[i]
    /\ plugins \in Seq(Info) /\ Distinct(plugins)
    /\ selection # NoSelection => \A i \in DOMAIN plugins : plugins[i].name \in selection
    /\ registered \in Regs
    /\ stage \in Stages /\ at \in Nat
    /\ stage = "args" => selection = NoSelection
    /\ stage \in {"args", "config"} => plugins = <<>> /\ configOrder = <<>>
    /\ stage \in Phases => IF plugins = <<>> THEN at = 0 ELSE at < Len(plugins)
    /\ stage \notin Phases \union {"exited"} => at = 0
    /\ stage \in {"spawn", "child"} => command # "run"

CallsAsScheduled ==
    IF stage = "exited" THEN calls \in Calls /\ Pre(calls, Upto5(plugins, registered))
    ELSE calls = CallsAt(plugins, registered, stage, at)

\* The places where c stops the plugin p.
StopsIn(c, p) == {k \in DOMAIN c : c[k] = <<"stop", p>>}

NoStop(c) == \A k \in DOMAIN c : c[k][1] # "stop"

StopsLast ==
    /\ stage \in {"stop", "code"} => pipeline = "dropped"
    /\ stage \notin {"stop", "code", "exited"} => NoStop(calls)
    /\ stage = "exited" => NoStop(calls) \/ pipeline = "dropped"
    /\ stage = "exited" =>
          IF FailedEarly THEN NoStop(calls)
          ELSE \A i \in DOMAIN plugins : \E k : StopsIn(calls, plugins[i].name) = {k}
    /\ stage = "stop" =>
          \A i \in DOMAIN plugins :
              IF i =< at THEN \E k : StopsIn(calls, plugins[i].name) = {k}
              ELSE StopsIn(calls, plugins[i].name) = {}
    /\ stage = "code" => \A i \in DOMAIN plugins : \E k : StopsIn(calls, plugins[i].name) = {k}

\* The events that have been published when a command reaches a stage.
Published(st, c) ==
    IF st = "child" THEN <<"start">>
    ELSE IF st \in {"wait", "stop", "code", "exited"} /\ c # "run" THEN <<"start", "end">> ELSE <<>>

SubscribersTold ==
    stage # "exited" \/ ~FailedEarly =>
        \A p \in PluginNames :
            eventsHeard[p] = IF registered[p].subscribes THEN Published(stage, command) ELSE <<>>

\* Errors come at the shutdown, and only a process that has been spawned has a child.
OutcomeInv ==
    /\ stage \notin {"stop", "code", "exited"} => errors = <<>>
    /\ stage \notin {"child", "wait", "stop", "code", "exited"} => child = "none"
    /\ child = "running" => stage = "child"

AgentInv == AgentTypes /\ CallsAsScheduled /\ StopsLast /\ SubscribersTold

-------------------------------------------------------------------------------
(* The steps of a phase.                                                       *)

LEMMA CallsAreCalls == ASSUME AgentInv PROVE calls \in Calls
  <1>1. CASE stage = "exited"
    BY <1>1 DEF AgentInv, CallsAsScheduled
  <1>2. CASE stage \in Phases
    <2>1. at \in 0..Len(plugins) /\ plugins \in Seq(Info) /\ registered \in Regs
      BY <1>2 DEF AgentInv, AgentTypes
    <2>2. /\ Before(plugins, registered, stage) \in Calls
          /\ FirstOf(plugins, registered, stage, at) \in Calls
      BY <1>2, <2>1, BeforeIs, FirstNext
    <2>3. calls = Cat(Before(plugins, registered, stage), FirstOf(plugins, registered, stage, at))
      BY <1>2 DEF AgentInv, CallsAsScheduled, CallsAt, Phases
    <2> QED BY <2>2, <2>3, CatCalls
  <1>3. CASE stage \notin Phases \union {"exited"}
    <2>1. calls = Before(plugins, registered, stage)
      BY <1>3 DEF AgentInv, CallsAsScheduled, CallsAt
    <2> QED BY <2>1, BeforeIs DEF AgentInv, AgentTypes
  <1> QED BY <1>1, <1>2, <1>3

\* The whole schedule begins with what has been called.
LEMMA CallsArePre == ASSUME AgentInv PROVE Pre(calls, Upto5(plugins, registered))
  <1>1. plugins \in Seq(Info) /\ registered \in Regs
    BY DEF AgentInv, AgentTypes
  <1>2. CASE stage = "exited"
    BY <1>2 DEF AgentInv, CallsAsScheduled
  <1>3. CASE stage \in Phases /\ plugins # <<>>
    <2>1. at \in 0..(Len(plugins) - 1)
      BY <1>1, <1>3 DEF AgentInv, AgentTypes
    <2>2. calls = CallsAt(plugins, registered, stage, at)
      BY <1>3 DEF AgentInv, CallsAsScheduled, Phases
    <2> DEFINE b == BlockOf(registered, stage, plugins[at + 1].name)
    <2>3. b \in Calls /\ calls \in Calls
          /\ \A some \in Calls : Pre(some, b) => Pre(Cat(calls, some), Upto5(plugins, registered))
      BY <1>1, <1>3, <2>1, <2>2, PluginDone
    <2> HIDE DEF b
    <2>4. Pre(<<>>, b) /\ <<>> \in Calls /\ Cat(calls, <<>>) = calls
      <3>1. b = Cat(<<>>, b) /\ <<>> \in Calls /\ Cat(calls, <<>>) = calls
        BY <2>3, EmptyCall
      <3> QED BY <2>3, <3>1 DEF Pre
    <2> QED BY <2>3, <2>4
  <1>4. CASE stage \in Phases /\ plugins = <<>>
    <2>1. calls = Cat(Before(plugins, registered, stage), <<>>)
      <3>1. at = 0 /\ calls = CallsAt(plugins, registered, stage, at)
        BY <1>4 DEF AgentInv, AgentTypes, CallsAsScheduled, Phases
      <3>2. FirstOf(plugins, registered, stage, 0) = <<>>
        <4>1. 0 \in 0..Len(plugins)
          BY <1>1
        <4> QED BY <1>1, <1>4, <4>1, FirstNext
      <3> QED BY <1>4, <3>1, <3>2 DEF CallsAt
    <2>2. calls = Before(plugins, registered, stage)
      BY <1>1, <2>1, BeforeIs, EmptyCall
    <2> QED BY <1>1, <2>2, BeforeIs
  <1>5. CASE stage \notin Phases \union {"exited"}
    <2>1. calls = Before(plugins, registered, stage)
      BY <1>5 DEF AgentInv, CallsAsScheduled, CallsAt
    <2> QED BY <1>1, <2>1, BeforeIs
  <1> QED BY <1>2, <1>3, <1>4, <1>5

\* A plugin has made all the calls of its phase.
LEMMA Advance ==
    ASSUME AgentInv, stage \in Phases, plugins # <<>>,
           calls' = Cat(calls, BlockOf(registered, stage, Current)), StepTo(Following(stage)),
           plugins' = plugins, registered' \in Regs, registered' = registered \/ stage = "start"
    PROVE  /\ CallsAsScheduled'
           /\ stage' \in Stages /\ stage' \notin {"args", "config", "exited", "spawn", "child"} /\ at' \in Nat
           /\ stage' \in Phases => at' < Len(plugins)
           /\ stage' \notin Phases => at' = 0
  <1>1. /\ plugins \in Seq(Info) /\ registered \in Regs /\ at \in 0..(Len(plugins) - 1)
        /\ Len(plugins) \in Nat /\ Len(plugins) > 0
    BY DEF AgentInv, AgentTypes
  <1>2. calls = CallsAt(plugins, registered, stage, at)
    BY DEF AgentInv, CallsAsScheduled, Phases
  <1>3. calls' = IF at + 1 = Len(plugins) THEN CallsAt(plugins, registered, Following(stage), 0)
                 ELSE CallsAt(plugins, registered, stage, at + 1)
    BY <1>1, <1>2, PluginDone DEF Current
  <1>4. Following(stage) \in {"start", "pre", "build", "ready", "code"}
    BY DEF Following, Phases
  <1>5. /\ stage' = IF at + 1 = Len(plugins) THEN Following(stage) ELSE stage
        /\ at' = IF at + 1 = Len(plugins) THEN 0 ELSE at + 1
    BY DEF StepTo
  <1>6. calls' = CallsAt(plugins, registered, stage', at')
    BY <1>3, <1>5
  <1>7. CallsAt(plugins, registered, stage', at') = CallsAt(plugins, registered', stage', at')
    <2>1. CASE registered' = registered
      BY <2>1
    <2>2. CASE stage = "start" /\ at + 1 # Len(plugins)
      <3>1. stage' = "start"
        BY <1>5, <2>2
      <3> QED BY <1>1, <3>1, StartsOnly
    <2>3. CASE stage = "start" /\ at + 1 = Len(plugins)
      <3>1. stage' = "pre" /\ at' = 0
        BY <1>5, <2>3 DEF Following
      <3>2. Before(plugins, registered, "pre") = Before(plugins, registered', "pre")
        BY <1>1, StartsOnly
      <3>3. /\ CallsAt(plugins, registered, "pre", 0) = Before(plugins, registered, "pre")
            /\ CallsAt(plugins, registered', "pre", 0) = Before(plugins, registered', "pre")
        BY <1>1, PhaseEnds DEF Phases, Following
      <3> QED BY <3>1, <3>2, <3>3
    <2> QED BY <2>1, <2>2, <2>3
  <1>8. stage' # "exited" /\ stage' \in Stages /\ stage' \notin {"args", "config", "exited", "spawn", "child"}
    BY <1>4, <1>5 DEF Phases, Stages
  <1>9. CallsAsScheduled'
    BY <1>6, <1>7, <1>8 DEF CallsAsScheduled
  <1>10. at' \in Nat /\ at' < Len(plugins) /\ (stage' \notin Phases => at' = 0)
    BY <1>1, <1>5
  <1> QED BY <1>8, <1>9, <1>10

\* A plugin has made some of the calls of its phase, and the agent has ended.
LEMMA EndsIn ==
    ASSUME AgentInv, stage \in Phases, plugins # <<>>, NEW some \in Calls,
           Pre(some, BlockOf(registered, stage, Current)), calls' = Cat(calls, some),
           stage' = "exited", UNCHANGED <<plugins, registered>>
    PROVE  CallsAsScheduled'
  <1>1. /\ plugins \in Seq(Info) /\ registered \in Regs /\ at \in 0..(Len(plugins) - 1)
    BY DEF AgentInv, AgentTypes
  <1>2. calls = CallsAt(plugins, registered, stage, at)
    BY DEF AgentInv, CallsAsScheduled, Phases
  <1>3. calls \in Calls /\ Pre(Cat(calls, some), Upto5(plugins, registered))
    BY <1>1, <1>2, PluginDone DEF Current
  <1>4. Cat(calls, some) \in Calls
    BY <1>3, CatCalls
  <1> QED BY <1>3, <1>4 DEF CallsAsScheduled

\* The agent has ended between two calls.
LEMMA EndsAfter ==
    ASSUME AgentInv, stage' = "exited", UNCHANGED <<plugins, registered, calls>>
    PROVE  CallsAsScheduled'
  BY CallsAreCalls, CallsArePre DEF CallsAsScheduled

\* What a plugin is called adds no stop before the plugins are stopped.
LEMMA NoStopCat ==
    ASSUME NEW b \in Calls, NEW c \in Calls, NoStop(b), NoStop(c)
    PROVE  NoStop(Cat(b, c))
  <1>1. /\ Len(b) \in Nat /\ Len(c) \in Nat /\ DOMAIN b = 1..Len(b) /\ DOMAIN c = 1..Len(c)
        /\ DOMAIN Cat(b, c) = 1..(Len(b) + Len(c))
        /\ \A i \in 1..Len(b) : Cat(b, c)[i] = b[i]
        /\ \A i \in 1..Len(c) : Cat(b, c)[Len(b) + i] = c[i]
    BY DEF Cat, Calls
  <1> DEFINE m == Len(b)
             n == Len(c)
  <1> HIDE DEF m, n
  <1>2. ASSUME NEW i \in 1..(m + n) PROVE Cat(b, c)[i][1] # "stop"
    <2>1. CASE i \in 1..m
      BY <1>1, <2>1 DEF NoStop, m
    <2>2. CASE i \notin 1..m
      <3>1. i - m \in 1..n /\ m + (i - m) = i
        BY <1>1, <2>2 DEF m, n
      <3>2. Cat(b, c)[i] = c[i - m]
        BY <1>1, <3>1 DEF m, n
      <3> QED BY <1>1, <3>1, <3>2 DEF NoStop, n
    <2> QED BY <2>1, <2>2
  <1> QED BY <1>1, <1>2 DEF NoStop, m, n

\* Nothing but the last phase calls stop.
LEMMA HookHasNoStop ==
    ASSUME NEW hook, hook # "stop", NEW action, action # "stop", NEW p, NEW n \in Nat
    PROVE  NoStop(<<<<hook, p>>>>) /\ NoStop(Actions(action, p, n))
  <1>1. NoStop(<<<<hook, p>>>>)
    BY DEF NoStop
  <1>2. NoStop(Actions(action, p, n))
    BY DEF NoStop, Actions
  <1> QED BY <1>1, <1>2

-------------------------------------------------------------------------------
(* The steps.                                                                  *)

LEMMA ParseArgsKeepsInv ==
    ASSUME AgentInv, NEW c \in {"run", "exec", "watch"}, NEW names \in Selections, ParseArgs(c, names)
    PROVE  AgentInv'
  <1>1. /\ stage = "args" /\ stage' = "config" /\ command' = c /\ selection' = names
        /\ set' = IF names = NoSelection THEN set ELSE EnableOnly(set, names)
        /\ UNCHANGED <<plugins, at, registered, pipeline, child, errors, exit, calls, eventsHeard>>
    BY DEF ParseArgs
  <1>2. set' \in Sets /\ set' \in Seq(Allowed(names))
    <2>1. set \in Sets /\ set \in Seq(Info)
      BY DEF AgentInv, AgentTypes, Sets
    <2>2. EnableOnly(set, names) \in Sets
      BY <2>1, EnableKeeps
    <2>3. CASE names = NoSelection
      <3>1. \A info \in Info : info \in Allowed(NoSelection)
        BY DEF Allowed
      <3> QED BY <1>1, <2>1, <2>3, <3>1
    <2>4. CASE names # NoSelection
      <3> DEFINE qs == EnableOnly(set, names)
      <3>1. qs \in Seq(Info) /\ DOMAIN qs = 1..Len(qs) /\ Len(qs) \in Nat
        BY <2>2 DEF Sets
      <3>2. \A i \in DOMAIN set : set[i] \in Info
        BY <2>1
      <3>3. DOMAIN qs = DOMAIN set /\ \A i \in DOMAIN set : qs[i] = [set[i] EXCEPT !.enabled = set[i].name \in names]
        BY DEF EnableOnly
      <3>4. \A i \in DOMAIN set : qs[i].enabled => qs[i].name \in names
        BY <3>2, <3>3 DEF Info
      <3> HIDE DEF qs
      <3>5. \A i \in 1..Len(qs) : qs[i] \in Allowed(names)
        BY <3>1, <3>3, <3>4 DEF Allowed
      <3>6. qs \in Seq(Allowed(names))
        BY <3>1, <3>5
      <3> QED BY <1>1, <2>2, <2>4, <3>6 DEF qs
    <2> QED BY <2>3, <2>4
  <1>3. AgentTypes'
    <2>1. configOrder' = <<>> /\ configOrder \in Seq(PluginNames)
      BY <1>1 DEF ParseArgs, AgentInv, AgentTypes
    <2>2. Len(set') \in Nat /\ Len(<<>>) = 0
      BY <1>2 DEF Sets
    <2>3. UNCHANGED configOrder
      BY DEF ParseArgs
    <2> QED BY <1>1, <1>2, <2>1, <2>2, <2>3 DEF AgentInv, AgentTypes, Stages, Phases
  <1>4. CallsAsScheduled' /\ StopsLast' /\ SubscribersTold'
    BY <1>1 DEF AgentInv, CallsAsScheduled, CallsAt, Before, Phases, StopsLast, SubscribersTold,
                Published
  <1> QED BY <1>3, <1>4 DEF AgentInv

\* The agent ends in a stage where nothing is called, before the process runs.
LEMMA ExitKeepsInv ==
    ASSUME AgentInv, OutcomeInv, NEW code \in {"failure", "panic"}, Exit(code),
           stage \notin {"child", "wait", "stop", "code", "exited"},
           UNCHANGED <<agentConfig, plugins, registered, calls, errors, child>>, at' \in Nat
    PROVE  AgentInv'
  <1>1. /\ stage' = "exited" /\ exit' = code
        /\ pipeline' = IF pipeline = "none" THEN "none" ELSE "dropped"
    BY DEF Exit
  <1>2. AgentTypes'
    BY <1>1 DEF AgentInv, AgentTypes, agentConfig, Stages, Phases
  <1>3. CallsAsScheduled'
    BY <1>1, EndsAfter
  <1>4. FailedEarly'
    BY <1>1 DEF OutcomeInv, FailedEarly
  <1>5. StopsLast'
    BY <1>1, <1>4 DEF AgentInv, StopsLast
  <1>6. SubscribersTold'
    BY <1>1, <1>4 DEF SubscribersTold
  <1> QED BY <1>2, <1>3, <1>5, <1>6 DEF AgentInv

\* The step LoadConfig keeps the invariant.
LEMMA LoadConfigKeepsInv ==
    ASSUME AgentInv, OutcomeInv, NEW file \in ConfigFiles, LoadConfig(file)
    PROVE  AgentInv'
  <1>0. at \in Nat /\ set \in Sets /\ set \in Seq(Allowed(selection))
    BY DEF AgentInv, AgentTypes
  <1>1. CASE \E i \in DOMAIN file : file[i].name \notin PluginNames
    <2>1. Exit("failure") /\ stage = "config"
          /\ UNCHANGED <<agentConfig, plugins, registered, calls, at, errors, child>>
      BY <1>1 DEF LoadConfig, agentConfig
    <2> QED BY <1>0, <2>1, ExitKeepsInv
  <1>2. CASE ~\E i \in DOMAIN file : file[i].name \notin PluginNames
    <2> DEFINE status == IF selection = NoSelection THEN EnableFrom(set, file) ELSE set
               order == [i \in DOMAIN file |-> file[i].name]
               ordered == ReorderPartial(status, order)
    <2>1. /\ stage = "config" /\ stage' = "init" /\ at' = 0
          /\ set' = ordered /\ configOrder' = order /\ plugins' = EnabledOf(ordered)
          /\ UNCHANGED <<command, selection, registered, child, errors, calls, eventsHeard, pipeline, exit>>
      BY <1>2, Zenon DEF LoadConfig
    <2>2. status \in Sets /\ status \in Seq(Allowed(selection))
      <3>1. CASE selection = NoSelection
        <4>1. status \in Sets /\ status \in Seq(Info)
          BY <1>0, <3>1, EnableKeeps DEF Sets
        <4>2. \A info \in Info : info \in Allowed(NoSelection)
          BY DEF Allowed
        <4> HIDE DEF status
        <4> QED BY <3>1, <4>1, <4>2
      <3>2. CASE selection # NoSelection
        BY <1>0, <3>2
      <3> QED BY <3>1, <3>2
    <2>3. order \in Seq(PluginNames) /\ \A i, j \in DOMAIN order : order[i] = order[j] => i = j
      <3>1. file \in Seq(ToSet(file)) /\ \A i, j \in DOMAIN file : file[i].name = file[j].name => i = j
        BY AgentAssumption
      <3>2. DOMAIN file = 1..Len(file) /\ Len(file) \in Nat
        BY <3>1
      <3> QED BY <1>2, <3>1, <3>2
    <2> HIDE DEF status, order
    <2>4. /\ ordered \in Sets /\ ordered \in Seq(Allowed(selection))
          /\ Len(order) =< Len(ordered) /\ \A i \in 1..Len(order) : ordered[i].name = order[i]
      <3>1. Allowed(selection) \subseteq Info
        BY DEF Allowed
      <3> QED BY <2>2, <2>3, <3>1, ReorderKeeps
    <2> HIDE DEF ordered
    <2> DEFINE chosen == EnabledOf(ordered)
    <2>5. /\ chosen \in Seq(Info) /\ Distinct(chosen)
          /\ \A name \in NamesIn(chosen) :
                \E i \in DOMAIN ordered : ordered[i].name = name /\ ordered[i].enabled
      BY <2>4, EnabledOfIs DEF Sets
    <2> HIDE DEF chosen
    <2>6. ASSUME NEW i \in DOMAIN chosen, selection # NoSelection PROVE chosen[i].name \in selection
      <3>1. chosen[i].name \in NamesIn(chosen)
        BY DEF NamesIn
      <3>2. PICK j \in DOMAIN ordered : ordered[j].name = chosen[i].name /\ ordered[j].enabled
        BY <2>5, <3>1
      <3>3. ordered[j] \in Allowed(selection)
        BY <2>4
      <3> QED BY <2>6, <3>2, <3>3 DEF Allowed
    <2>7. plugins' = chosen
      BY <2>1 DEF chosen
    <2>8. AgentTypes'
      <3>1. IF plugins' = <<>> THEN at' = 0 ELSE at' < Len(plugins')
        BY <2>1, <2>5, <2>7
      <3> QED BY <2>1, <2>3, <2>4, <2>5, <2>6, <2>7, <3>1 DEF AgentInv, AgentTypes, Stages, Phases
    <2>9. calls = <<>>
      BY <2>1 DEF AgentInv, CallsAsScheduled, CallsAt, Before, Phases
    <2>10. CallsAsScheduled'
      <3>1. registered \in Regs
        BY DEF AgentInv, AgentTypes
      <3>2. 0 \in 0..Len(chosen)
        BY <2>5
      <3>3. FirstOf(chosen, registered, "init", 0) = <<>>
        BY <2>5, <3>1, <3>2, FirstNext DEF Phases
      <3>4. Cat(<<>>, <<>>) = <<>>
        <4>1. <<>> \in Calls
          BY DEF Calls
        <4> QED BY <4>1, EmptyCall
      <3> QED BY <2>1, <2>7, <2>9, <3>3, <3>4 DEF CallsAsScheduled, CallsAt, Before, Phases
    <2>11. StopsLast' /\ SubscribersTold'
      BY <2>1 DEF AgentInv, StopsLast, SubscribersTold, Published
    <2> QED BY <2>8, <2>10, <2>11 DEF AgentInv
  <1> QED BY <1>1, <1>2

\* The step SkipPhase keeps the invariant.
LEMMA SkipPhaseKeepsInv == ASSUME AgentInv, SkipPhase PROVE AgentInv'
  <1>1. /\ plugins = <<>> /\ stage \in Phases /\ stage' = Following(stage)
        /\ UNCHANGED <<agentConfig, plugins, at, registered, pipeline, child, errors, exit, calls, eventsHeard>>
    BY DEF SkipPhase, Following, Phases
  <1>2. /\ plugins \in Seq(Info) /\ registered \in Regs /\ at = 0 /\ Len(plugins) = 0
    BY <1>1 DEF AgentInv, AgentTypes
  <1>3. /\ stage' \in Stages /\ stage' \in {"start", "pre", "build", "ready", "code"}
        /\ stage' = "code" => stage = "stop"
    BY <1>1 DEF Following, Phases, Stages
  <1>4. AgentTypes'
    BY <1>1, <1>2, <1>3 DEF AgentInv, AgentTypes, agentConfig, Phases
  <1>5. CallsAsScheduled'
    <2>1. calls = CallsAt(plugins, registered, stage, 0)
      BY <1>1, <1>2 DEF AgentInv, CallsAsScheduled, Phases
    <2>2. CallsAt(plugins, registered, stage, 0) = CallsAt(plugins, registered, stage', 0)
      BY <1>1, <1>2, PhaseEnds
    <2> QED BY <1>1, <1>2, <1>3, <2>1, <2>2 DEF CallsAsScheduled
  <1>6. StopsLast'
    <2>1. StopsLast /\ DOMAIN plugins = {}
      BY <1>1 DEF AgentInv
    <2>2. CASE stage = "stop"
      <3>1. stage' = "code"
        BY <1>1, <2>2 DEF Following
      <3> QED BY <1>1, <2>1, <2>2, <3>1 DEF StopsLast
    <2>3. CASE stage # "stop"
      <3>1. stage' \in {"start", "pre", "build", "ready"} /\ NoStop(calls)
        BY <1>1, <1>3, <2>1, <2>3 DEF StopsLast, Phases
      <3>2. NoStop(calls')
        BY <1>1, <3>1
      <3> QED BY <3>1, <3>2 DEF StopsLast
    <2> QED BY <2>2, <2>3
  <1>7. SubscribersTold'
    <2>1. Published(stage', command) = Published(stage, command)
      <3>1. CASE stage = "stop"
        <4>1. stage' = "code"
          BY <1>1, <3>1 DEF Following
        <4> QED BY <3>1, <4>1 DEF Published
      <3>2. CASE stage # "stop"
        <4>1. stage \in {"init", "start", "pre", "post"} /\ stage' \in {"start", "pre", "build", "ready"}
          BY <1>1, <1>3, <3>2 DEF Phases
        <4> QED BY <4>1 DEF Published
      <3> QED BY <3>1, <3>2
    <2>2. command' = command /\ eventsHeard' = eventsHeard /\ registered' = registered
      BY <1>1 DEF agentConfig
    <2>3. stage # "exited" /\ SubscribersTold
      BY <1>1 DEF Phases, AgentInv
    <2> QED BY <2>1, <2>2, <2>3 DEF SubscribersTold
  <1> QED BY <1>4, <1>5, <1>6, <1>7 DEF AgentInv

\* The calls of a plugin before the last phase stop nothing.
LEMMA BlockHasNoStop ==
    ASSUME NEW reg \in Regs, NEW phase \in Phases \ {"stop"}, NEW p \in PluginNames
    PROVE  NoStop(BlockOf(reg, phase, p)) /\ BlockOf(reg, phase, p) \in Calls
  <1>1. reg[p].pre \in Nat /\ reg[p].post \in Nat
    BY DEF Regs, Behaviour
  <1>2. /\ NoStop(<<<<phase, p>>>>) /\ NoStop(Actions("preAction", p, reg[p].pre))
        /\ NoStop(Actions("postAction", p, reg[p].post))
    BY <1>1, HookHasNoStop
  <1>3. /\ <<<<phase, p>>>> \in Calls /\ Actions("preAction", p, reg[p].pre) \in Calls
        /\ Actions("postAction", p, reg[p].post) \in Calls /\ BlockOf(reg, phase, p) \in Calls
    BY <1>1, BlockIsCalls
  <1>4. \A b \in Calls, c \in Calls : NoStop(b) /\ NoStop(c) => NoStop(Cat(b, c))
    BY NoStopCat
  <1>5. BlockOf(reg, phase, p) =
           IF phase = "pre" THEN Cat(<<<<phase, p>>>>, Actions("preAction", p, reg[p].pre))
           ELSE IF phase = "post" THEN Cat(<<<<phase, p>>>>, Actions("postAction", p, reg[p].post))
           ELSE <<<<phase, p>>>>
    BY DEF BlockOf
  <1> QED BY <1>2, <1>3, <1>4, <1>5

\* The first actions of a plugin are the beginning of all of its actions.
LEMMA SomeActions ==
    ASSUME NEW action \in {"preAction", "postAction"}, NEW p \in PluginNames, NEW n \in Nat, NEW done \in 0..n
    PROVE  Pre(Actions(action, p, done), Actions(action, p, n))
  <1> DEFINE more == [i \in 1..(n - done) |-> <<action, p, done + i>>]
  <1>1. n - done \in Nat /\ done \in Nat
    OBVIOUS
  <1>2. more \in Calls
    <2>1. \A i \in 1..(n - done) : <<action, p, done + i>> \in CallSet
      BY DEF CallSet
    <2> HIDE DEF CallSet
    <2>2. more \in Seq(CallSet)
      BY <1>1, <2>1
    <2> QED BY <2>2 DEF Calls
  <1>3. Actions(action, p, n) = Cat(Actions(action, p, done), more)
    BY <1>1 DEF Actions, Cat
  <1> QED BY <1>2, <1>3 DEF Pre

\* A plugin has done what it does in a phase before the last one.
LEMMA PluginGoesOn ==
    ASSUME AgentInv, stage \in Phases \ {"stop"}, plugins # <<>>,
           calls' = Cat(calls, BlockOf(registered, stage, Current)), StepTo(Following(stage)),
           UNCHANGED <<agentConfig, plugins, pipeline, eventsHeard>>,
           registered' \in Regs, registered' = registered \/ stage = "start"
    PROVE  AgentInv'
  <1>1. /\ CallsAsScheduled'
        /\ stage' \in Stages /\ stage' \notin {"args", "config", "exited", "spawn", "child"} /\ at' \in Nat
        /\ stage' \in Phases => at' < Len(plugins)
        /\ stage' \notin Phases => at' = 0
    BY Advance
  <1>2. AgentTypes'
    BY <1>1 DEF AgentInv, AgentTypes, agentConfig
  <1>3. stage' \in {"init", "start", "pre", "build", "post", "ready"}
    BY DEF StepTo, Following, Phases
  <1>4. Current \in PluginNames
    <2>1. plugins \in Seq(Info) /\ at \in Nat /\ at < Len(plugins)
      BY DEF AgentInv, AgentTypes
    <2>2. plugins[at + 1] \in Info
      BY <2>1
    <2> QED BY <2>2 DEF Current, Info
  <1>5. NoStop(calls')
    <2>1. NoStop(calls)
      BY DEF AgentInv, StopsLast, Phases
    <2>2. calls \in Calls /\ registered \in Regs
      BY CallsAreCalls DEF AgentInv, AgentTypes
    <2> QED BY <1>4, <2>1, <2>2, BlockHasNoStop, NoStopCat
  <1>6. StopsLast'
    BY <1>3, <1>5 DEF StopsLast
  <1>7. SubscribersTold'
    <2>1. stage \in {"init", "start", "pre", "post"}
      BY DEF Phases
    <2>2. \A p \in PluginNames : eventsHeard[p] = <<>>
      BY <2>1 DEF AgentInv, SubscribersTold, Published
    <2>3. Published(stage', command') = <<>>
      BY <1>3 DEF Published
    <2> QED BY <2>2, <2>3 DEF SubscribersTold
  <1> QED BY <1>1, <1>2, <1>6, <1>7 DEF AgentInv

\* A plugin has failed in a phase before the last one.
LEMMA PluginFails ==
    ASSUME AgentInv, OutcomeInv, stage \in Phases \ {"stop"}, plugins # <<>>, NEW some \in Calls,
           Pre(some, BlockOf(registered, stage, Current)), NoStop(some),
           calls' = Cat(calls, some), Exit("failure"),
           UNCHANGED <<agentConfig, plugins, registered, at, errors, child>>
    PROVE  AgentInv'
  <1>1. stage' = "exited" /\ FailedEarly'
    BY DEF Exit, OutcomeInv, FailedEarly, Phases
  <1>2. CallsAsScheduled'
    BY <1>1, EndsIn
  <1>3. AgentTypes'
    BY <1>1 DEF AgentInv, AgentTypes, agentConfig, Stages, Phases
  <1>4. StopsLast'
    <2>1. NoStop(calls) /\ calls \in Calls
      BY CallsAreCalls DEF AgentInv, StopsLast, Phases
    <2>2. NoStop(calls')
      BY <2>1, NoStopCat
    <2> QED BY <1>1, <2>2 DEF StopsLast
  <1>5. SubscribersTold'
    BY <1>1 DEF SubscribersTold
  <1> QED BY <1>2, <1>3, <1>4, <1>5 DEF AgentInv

\* What is current in a phase with plugins.
LEMMA CurrentIs ==
    ASSUME AgentInv, stage \in Phases, plugins # <<>>
    PROVE  /\ Current \in PluginNames /\ registered \in Regs /\ calls \in Calls
           /\ registered[Current].pre \in Nat /\ registered[Current].post \in Nat
           /\ <<<<stage, Current>>>> \in Calls
           /\ Append(calls, <<stage, Current>>) = Cat(calls, <<<<stage, Current>>>>)
  <1>1. Current \in PluginNames
    <2>1. plugins \in Seq(Info) /\ at \in Nat /\ at < Len(plugins)
      BY DEF AgentInv, AgentTypes
    <2>2. plugins[at + 1] \in Info
      BY <2>1
    <2> QED BY <2>2 DEF Current, Info
  <1>2. calls \in Calls /\ registered \in Regs
    BY CallsAreCalls DEF AgentInv, AgentTypes
  <1>3. <<stage, Current>> \in CallSet
    BY <1>1 DEF CallSet
  <1>4. Append(calls, <<stage, Current>>) = Cat(calls, <<<<stage, Current>>>>)
    <2> HIDE DEF CallSet, Current
    <2> QED BY <1>2, <1>3 DEF Calls, Cat
  <1> QED BY <1>1, <1>2, <1>4, BlockIsCalls DEF Regs, Behaviour

\* The step InitPlugin keeps the invariant.
LEMMA InitPluginKeepsInv == ASSUME AgentInv, OutcomeInv, InitPlugin PROVE AgentInv'
  <1>1. /\ stage = "init" /\ plugins # <<>> /\ calls' = Append(calls, <<"init", Current>>)
        /\ UNCHANGED <<agentConfig, plugins, registered, child, errors, eventsHeard>>
        /\ \/ StepTo("start") /\ pipeline' = pipeline
           \/ Exit("failure") /\ at' = at
    BY DEF InitPlugin, Called
  <1> DEFINE b == <<<<"init", Current>>>>
  <1>2. b = BlockOf(registered, stage, Current)
    BY <1>1 DEF BlockOf
  <1>3. registered \in Regs /\ b \in Calls /\ calls' = Cat(calls, b) /\ Current \in PluginNames
    BY <1>1, CurrentIs DEF Phases
  <1>4. stage \in Phases \ {"stop"} /\ Following(stage) = "start"
    BY <1>1 DEF Phases, Following
  <1>5. Pre(b, b) /\ NoStop(b)
    BY <1>2, <1>3, <1>4, CatCalls, BlockHasNoStop
  <1> HIDE DEF b
  <1>6. CASE StepTo("start") /\ pipeline' = pipeline
    BY <1>1, <1>2, <1>3, <1>4, <1>6, PluginGoesOn
  <1>7. CASE Exit("failure") /\ at' = at
    BY <1>1, <1>2, <1>3, <1>4, <1>5, <1>7, PluginFails
  <1> QED BY <1>1, <1>6, <1>7

\* The step StartPlugin keeps the invariant.
LEMMA StartPluginKeepsInv ==
    ASSUME AgentInv, OutcomeInv, NEW b \in Behaviours, StartPlugin(b)
    PROVE  AgentInv'
  <1>1. /\ stage = "start" /\ plugins # <<>> /\ calls' = Append(calls, <<"start", Current>>)
        /\ UNCHANGED <<agentConfig, plugins, child, errors, eventsHeard>>
        /\ \/ registered' = [registered EXCEPT ![Current] = b] /\ StepTo("pre") /\ pipeline' = pipeline
           \/ Exit("failure") /\ UNCHANGED <<at, registered>>
    BY DEF StartPlugin, Called
  <1> DEFINE h == <<<<"start", Current>>>>
  <1>2. h = BlockOf(registered, stage, Current)
    BY <1>1 DEF BlockOf
  <1>3. registered \in Regs /\ h \in Calls /\ calls' = Cat(calls, h) /\ Current \in PluginNames
    BY <1>1, CurrentIs DEF Phases
  <1>4. stage \in Phases \ {"stop"} /\ Following(stage) = "pre"
    BY <1>1 DEF Phases, Following
  <1>5. Pre(h, h) /\ NoStop(h)
    BY <1>2, <1>3, <1>4, CatCalls, BlockHasNoStop
  <1> HIDE DEF h
  <1>6. CASE registered' = [registered EXCEPT ![Current] = b] /\ StepTo("pre") /\ pipeline' = pipeline
    <2>1. b \in Behaviour
      BY AgentAssumption DEF Behaviour
    <2>2. registered' \in Regs
      BY <1>3, <1>6, <2>1 DEF Regs
    <2> QED BY <1>1, <1>2, <1>3, <1>4, <1>6, <2>2, PluginGoesOn
  <1>7. CASE Exit("failure") /\ UNCHANGED <<at, registered>>
    BY <1>1, <1>2, <1>3, <1>4, <1>5, <1>7, PluginFails
  <1> QED BY <1>1, <1>6, <1>7

\* The hook of a plugin, and its actions.
LEMMA HookAndActionsKeepInv ==
    ASSUME AgentInv, OutcomeInv, plugins # <<>>, NEW action, NEW n \in Nat, NEW next,
           \/ stage = "pre" /\ action = "preAction" /\ n = registered[Current].pre /\ next = "build"
           \/ stage = "post" /\ action = "postAction" /\ n = registered[Current].post /\ next = "ready",
           HookAndActions(stage, action, n, next),
           UNCHANGED <<agentConfig, plugins, registered, child, errors, eventsHeard>>
    PROVE  AgentInv'
  <1> DEFINE h == <<<<stage, Current>>>>
             A(i) == Actions(action, Current, i)
  <1>1. /\ stage \in Phases \ {"stop"} /\ Following(stage) = next
        /\ action \in {"preAction", "postAction"} /\ stage # "stop" /\ action # "stop"
    BY DEF Phases, Following
  <1>2. /\ Current \in PluginNames /\ registered \in Regs /\ calls \in Calls /\ h \in Calls
    BY <1>1, CurrentIs
  <1>3. \A i \in Nat : A(i) \in Calls /\ NoStop(A(i)) /\ NoStop(h)
    BY <1>1, <1>2, BlockIsCalls, HookHasNoStop
  <1>4. BlockOf(registered, stage, Current) = Cat(h, A(n))
    BY DEF BlockOf
  <1>5. \A i : calls \o <<<<stage, Current>>>> \o [j \in 1..i |-> <<action, Current, j>>] = Cat(Cat(calls, h), A(i))
    BY DEF Cat, Actions
  <1>6. \/ calls' = Cat(Cat(calls, h), A(n)) /\ StepTo(next) /\ pipeline' = pipeline
        \/ /\ \E done \in 0..n : calls' = Cat(Cat(calls, h), A(done))
           /\ Exit("failure") /\ at' = at
    BY <1>5 DEF HookAndActions
  <1> HIDE DEF A, h
  <1>7. \A i \in Nat : Cat(Cat(calls, h), A(i)) = Cat(calls, Cat(h, A(i)))
    BY <1>2, <1>3, CatIsAssociative DEF Calls
  <1>8. CASE calls' = Cat(Cat(calls, h), A(n)) /\ StepTo(next) /\ pipeline' = pipeline
    <2>1. calls' = Cat(calls, BlockOf(registered, stage, Current))
      BY <1>4, <1>7, <1>8
    <2> QED BY <1>1, <1>2, <1>8, <2>1, PluginGoesOn
  <1>9. ASSUME NEW done \in 0..n, calls' = Cat(Cat(calls, h), A(done)), Exit("failure"), at' = at
        PROVE  AgentInv'
    <2>1. done \in Nat /\ calls' = Cat(calls, Cat(h, A(done)))
      BY <1>7, <1>9
    <2>2. Cat(h, A(done)) \in Calls /\ NoStop(Cat(h, A(done)))
      BY <1>2, <1>3, <2>1, CatCalls, NoStopCat
    <2>3. Pre(A(done), A(n))
      BY <1>1, <1>2, SomeActions DEF A
    <2>4. Pre(Cat(h, A(done)), Cat(h, A(n)))
      BY <1>2, <1>3, <2>1, <2>3, PreOfCat
    <2> QED BY <1>1, <1>4, <1>9, <2>1, <2>2, <2>4, PluginFails
  <1> QED BY <1>6, <1>8, <1>9

\* The step PreStart keeps the invariant.
LEMMA PreStartKeepsInv == ASSUME AgentInv, OutcomeInv, PreStart PROVE AgentInv'
  <1>1. /\ stage = "pre" /\ plugins # <<>>
        /\ HookAndActions("pre", "preAction", registered[Current].pre, "build")
        /\ UNCHANGED <<agentConfig, plugins, registered, child, errors, eventsHeard>>
    BY DEF PreStart
  <1>2. registered[Current].pre \in Nat
    BY <1>1, CurrentIs DEF Phases
  <1> QED BY <1>1, <1>2, HookAndActionsKeepInv

\* The step PostStart keeps the invariant.
LEMMA PostStartKeepsInv == ASSUME AgentInv, OutcomeInv, PostStart PROVE AgentInv'
  <1>1. /\ stage = "post" /\ plugins # <<>>
        /\ HookAndActions("post", "postAction", registered[Current].post, "ready")
        /\ UNCHANGED <<agentConfig, plugins, registered, child, errors, eventsHeard>>
    BY DEF PostStart
  <1>2. registered[Current].post \in Nat
    BY <1>1, CurrentIs DEF Phases
  <1> QED BY <1>1, <1>2, HookAndActionsKeepInv

\* At the first plugin of a stage, the calls made are those of the stages before.
LEMMA StageStarts ==
    ASSUME NEW ps \in Seq(Info), NEW reg \in Regs, NEW st
    PROVE  CallsAt(ps, reg, st, 0) = Before(ps, reg, st)
  <1>1. CASE st \in Phases
    <2>1. 0 \in 0..Len(ps)
      OBVIOUS
    <2>2. FirstOf(ps, reg, st, 0) = <<>>
      BY <1>1, <2>1, FirstNext
    <2>3. Cat(Before(ps, reg, st), <<>>) = Before(ps, reg, st)
      BY BeforeIs, EmptyCall
    <2> QED BY <1>1, <2>2, <2>3 DEF CallsAt
  <1>2. CASE st \notin Phases
    BY <1>2 DEF CallsAt
  <1> QED BY <1>1, <1>2

\* The agent goes from one stage to another one, and calls nothing.
LEMMA StageEnds ==
    ASSUME AgentInv, stage \notin Phases \union {"exited"}, UNCHANGED <<agentConfig, plugins, registered, calls>>,
           at' = 0, stage' \in Stages \ {"exited", "args", "config", "init", "start", "pre"},
           Before(plugins, registered, stage) = Before(plugins, registered, stage'),
           stage' \in {"spawn", "child"} => command # "run"
    PROVE  AgentTypes' /\ CallsAsScheduled'
  <1>1. AgentTypes'
    <2>1. Len(plugins) \in Nat /\ (plugins # <<>> => 0 < Len(plugins))
      BY DEF AgentInv, AgentTypes
    <2> QED BY <2>1 DEF AgentInv, AgentTypes, agentConfig
  <1>2. calls = Before(plugins, registered, stage)
    BY DEF AgentInv, CallsAsScheduled, CallsAt
  <1>3. CallsAt(plugins, registered, stage', 0) = Before(plugins, registered, stage')
    BY StageStarts DEF AgentInv, AgentTypes
  <1> QED BY <1>1, <1>2, <1>3 DEF CallsAsScheduled

\* The step Build keeps the invariant.
LEMMA BuildKeepsInv == ASSUME AgentInv, OutcomeInv, Build PROVE AgentInv'
  <1>1. /\ stage = "build"
        /\ UNCHANGED <<agentConfig, plugins, at, registered, child, errors, calls, eventsHeard>>
        /\ (stage' = "post" \/ Exit("failure"))
    BY DEF Build
  <1>2. CASE Exit("failure")
    <2>1. at' \in Nat
      BY <1>1 DEF AgentInv, AgentTypes
    <2> QED BY <1>1, <1>2, <2>1, ExitKeepsInv
  <1>3. CASE stage' = "post"
    <2>1. at = 0
      BY <1>1 DEF AgentInv, AgentTypes, Phases
    <2>2. AgentTypes' /\ CallsAsScheduled'
      <3>1. Before(plugins, registered, stage) = Before(plugins, registered, stage')
        BY <1>1, <1>3 DEF Before
      <3> QED BY <1>1, <1>3, <2>1, <3>1, StageEnds DEF Phases, Stages
    <2>3. NoStop(calls)
      BY <1>1 DEF AgentInv, StopsLast
    <2>4. StopsLast'
      BY <1>1, <1>3, <2>3 DEF StopsLast
    <2>5. SubscribersTold'
      BY <1>1, <1>3 DEF AgentInv, SubscribersTold, Published
    <2> QED BY <2>2, <2>4, <2>5 DEF AgentInv
  <1> QED BY <1>1, <1>2, <1>3

\* The step PipelineEnds keeps the invariant.
LEMMA PipelineEndsKeepsInv == ASSUME AgentInv, PipelineEnds PROVE AgentInv'
  <1>1. /\ pipeline = "running" /\ stage # "exited"
        /\ UNCHANGED <<stage, command, selection, set, configOrder, plugins, at, registered, child,
                       errors, exit, calls, eventsHeard>>
    BY DEF PipelineEnds, agentConfig
  <1>2. AgentTypes' /\ CallsAsScheduled' /\ SubscribersTold'
    BY <1>1 DEF AgentInv, AgentTypes, CallsAsScheduled, SubscribersTold
  <1>3. StopsLast'
    <2>1. stage \notin {"stop", "code", "exited"} /\ NoStop(calls)
      BY <1>1 DEF AgentInv, StopsLast
    <2> QED BY <1>1, <2>1 DEF StopsLast
  <1> QED BY <1>2, <1>3 DEF AgentInv

\* The step Ready keeps the invariant.
LEMMA ReadyKeepsInv == ASSUME AgentInv, Ready PROVE AgentInv'
  <1>1. /\ stage = "ready" /\ stage' = IF command = "run" THEN "wait" ELSE "spawn"
        /\ UNCHANGED <<agentConfig, plugins, at, registered, pipeline, calls, eventsHeard>>
    BY DEF Ready
  <1>2. at = 0
    BY <1>1 DEF AgentInv, AgentTypes, Phases
  <1>3. AgentTypes' /\ CallsAsScheduled'
    <2>1. Before(plugins, registered, stage) = Before(plugins, registered, stage')
      BY <1>1 DEF Before
    <2> QED BY <1>1, <1>2, <2>1, StageEnds DEF Phases, Stages
  <1>4. NoStop(calls)
    BY <1>1 DEF AgentInv, StopsLast
  <1>5. StopsLast'
    BY <1>1, <1>4 DEF StopsLast
  <1>6. SubscribersTold'
    BY <1>1 DEF AgentInv, SubscribersTold, Published, agentConfig
  <1> QED BY <1>3, <1>5, <1>6 DEF AgentInv

\* An event that is published is heard by every subscriber, and by nobody else.
LEMMA PublishedMeans ==
    ASSUME NEW event, PublishEvent(event), NEW old, NEW new, new = Append(old, event),
           registered \in Regs,
           \A p \in PluginNames : eventsHeard[p] = IF registered[p].subscribes THEN old ELSE <<>>
    PROVE  \A p \in PluginNames : eventsHeard'[p] = IF registered[p].subscribes THEN new ELSE <<>>
  BY DEF PublishEvent, Subscribers

\* The step Spawn keeps the invariant.
LEMMA SpawnKeepsInv == ASSUME AgentInv, OutcomeInv, Spawn PROVE AgentInv'
  <1>1. /\ stage = "spawn" /\ UNCHANGED <<agentConfig, plugins, at, registered, errors, calls>>
        /\ \/ stage' = "child" /\ PublishEvent("start")
           \/ Exit("panic") /\ UNCHANGED child
    BY DEF Spawn
  <1>2. CASE Exit("panic") /\ UNCHANGED child
    <2>1. at' \in Nat
      BY <1>1 DEF AgentInv, AgentTypes
    <2> QED BY <1>1, <1>2, <2>1, ExitKeepsInv
  <1>3. CASE stage' = "child" /\ PublishEvent("start")
    <2>1. at = 0 /\ command # "run" /\ registered \in Regs
      BY <1>1 DEF AgentInv, AgentTypes, Phases
    <2>2. AgentTypes' /\ CallsAsScheduled'
      <3>1. Before(plugins, registered, stage) = Before(plugins, registered, stage')
        BY <1>1, <1>3 DEF Before
      <3> QED BY <1>1, <1>3, <2>1, <3>1, StageEnds DEF Phases, Stages
    <2>3. NoStop(calls)
      BY <1>1 DEF AgentInv, StopsLast
    <2>4. StopsLast'
      BY <1>1, <1>3, <2>3 DEF StopsLast
    <2>5. SubscribersTold'
      <3>1. \A p \in PluginNames : eventsHeard[p] = IF registered[p].subscribes THEN <<>> ELSE <<>>
        BY <1>1 DEF AgentInv, SubscribersTold, Published
      <3>2. <<"start">> = Append(<<>>, "start")
        OBVIOUS
      <3>3. \A p \in PluginNames : eventsHeard'[p] = IF registered[p].subscribes THEN <<"start">> ELSE <<>>
        BY <1>3, <2>1, <3>1, <3>2, PublishedMeans, Zenon
      <3>4. Published(stage', command') = <<"start">>
        BY <1>3 DEF Published
      <3> QED BY <1>1, <3>3, <3>4 DEF SubscribersTold
    <2> QED BY <2>2, <2>4, <2>5 DEF AgentInv
  <1> QED BY <1>1, <1>2, <1>3

\* The step ChildExits keeps the invariant.
LEMMA ChildExitsKeepsInv == ASSUME AgentInv, OutcomeInv, ChildExits PROVE AgentInv'
  <1>1. /\ stage = "child"
        /\ UNCHANGED <<stage, command, selection, set, configOrder, plugins, at, registered, pipeline,
                       calls, eventsHeard>>
    BY DEF ChildExits, agentConfig, OutcomeInv
  <1> QED BY <1>1 DEF AgentInv, AgentTypes, CallsAsScheduled, StopsLast, SubscribersTold

\* The step AfterChild keeps the invariant.
LEMMA AfterChildKeepsInv == ASSUME AgentInv, AfterChild PROVE AgentInv'
  <1>1. /\ stage = "child" /\ UNCHANGED <<agentConfig, plugins, at, registered, calls>>
        /\ stage' = "wait" /\ PublishEvent("end")
    BY DEF AfterChild
  <1>2. at = 0 /\ command # "run" /\ registered \in Regs
    BY <1>1 DEF AgentInv, AgentTypes, Phases
  <1>3. AgentTypes' /\ CallsAsScheduled'
    <2>1. Before(plugins, registered, stage) = Before(plugins, registered, stage')
      BY <1>1 DEF Before
    <2> QED BY <1>1, <1>2, <2>1, StageEnds DEF Phases, Stages
  <1>4. NoStop(calls)
    BY <1>1 DEF AgentInv, StopsLast
  <1>5. StopsLast'
    BY <1>1, <1>4 DEF StopsLast
  <1>6. SubscribersTold'
    <2>1. \A p \in PluginNames : eventsHeard[p] = IF registered[p].subscribes THEN <<"start">> ELSE <<>>
      BY <1>1 DEF AgentInv, SubscribersTold, Published
    <2>2. <<"start", "end">> = Append(<<"start">>, "end")
      OBVIOUS
    <2>3. \A p \in PluginNames :
             eventsHeard'[p] = IF registered[p].subscribes THEN <<"start", "end">> ELSE <<>>
      BY <1>1, <1>2, <2>1, <2>2, PublishedMeans, Zenon
    <2>4. Published(stage', command') = <<"start", "end">>
      BY <1>1, <1>2 DEF Published, agentConfig
    <2> QED BY <1>1, <2>3, <2>4 DEF SubscribersTold
  <1> QED BY <1>3, <1>5, <1>6 DEF AgentInv

\* When nothing has been stopped, no plugin has.
LEMMA NoStopIsNone == ASSUME NEW c, NoStop(c), NEW p PROVE StopsIn(c, p) = {}
  <1>1. \A k \in DOMAIN c : c[k] # <<"stop", p>>
    <2> SUFFICES ASSUME NEW k \in DOMAIN c, c[k] = <<"stop", p>> PROVE FALSE
      OBVIOUS
    <2>1. c[k][1] = "stop"
      OBVIOUS
    <2> QED BY <2>1 DEF NoStop
  <1> QED BY <1>1 DEF StopsIn

\* The step WaitPipeline keeps the invariant.
LEMMA WaitPipelineKeepsInv == ASSUME AgentInv, WaitPipeline PROVE AgentInv'
  <1>1. /\ stage = "wait" /\ stage' = "stop" /\ at' = 0 /\ pipeline' = "dropped"
        /\ UNCHANGED <<agentConfig, plugins, registered, calls, eventsHeard>>
    BY DEF WaitPipeline
  <1>2. at = 0
    BY <1>1 DEF AgentInv, AgentTypes, Phases
  <1>3. AgentTypes' /\ CallsAsScheduled'
    <2>1. Before(plugins, registered, stage) = Before(plugins, registered, stage')
      BY <1>1 DEF Before
    <2> QED BY <1>1, <1>2, <2>1, StageEnds DEF Phases, Stages
  <1>4. StopsLast'
    <2>1. NoStop(calls)
      BY <1>1 DEF AgentInv, StopsLast
    <2>2. \A i \in DOMAIN plugins : ~(i =< 0) /\ StopsIn(calls, plugins[i].name) = {}
      <3>1. DOMAIN plugins = 1..Len(plugins) /\ Len(plugins) \in Nat
        BY DEF AgentInv, AgentTypes
      <3> QED BY <2>1, <3>1, NoStopIsNone
    <2>3. \A i \in DOMAIN plugins' :
              IF i =< at' THEN \E k : StopsIn(calls', plugins'[i].name) = {k}
              ELSE StopsIn(calls', plugins'[i].name) = {}
      BY <1>1, <2>2
    <2> QED BY <1>1, <2>3 DEF StopsLast
  <1>5. SubscribersTold'
    BY <1>1 DEF AgentInv, SubscribersTold, Published, agentConfig
  <1> QED BY <1>3, <1>4, <1>5 DEF AgentInv

\* One more stop.
LEMMA StopIsAdded ==
    ASSUME NEW c \in Calls, NEW p \in PluginNames, NEW q
    PROVE  StopsIn(Append(c, <<"stop", p>>), q)
             = IF q = p THEN StopsIn(c, q) \union {Len(c) + 1} ELSE StopsIn(c, q)
  <1>1. <<"stop", p>> \in CallSet
    BY DEF CallSet, Phases
  <1> DEFINE d == Append(c, <<"stop", p>>)
             n == Len(c)
  <1>2. /\ n \in Nat /\ DOMAIN c = 1..n /\ DOMAIN d = 1..(n + 1) /\ d[n + 1] = <<"stop", p>>
        /\ \A k \in 1..n : d[k] = c[k]
    <2> HIDE DEF CallSet
    <2> QED BY <1>1 DEF Calls
  <1>3. <<"stop", p>> = <<"stop", q>> <=> q = p
    OBVIOUS
  <1> HIDE DEF d, n
  <1>4. StopsIn(d, q) = {k \in 1..(n + 1) : d[k] = <<"stop", q>>} /\ StopsIn(c, q) = {k \in 1..n : c[k] = <<"stop", q>>}
    BY <1>2 DEF StopsIn
  <1>5. StopsIn(d, q) = IF q = p THEN StopsIn(c, q) \union {n + 1} ELSE StopsIn(c, q)
    <2>1. CASE q = p
      <3>1. \A k : k \in StopsIn(d, q) <=> k \in StopsIn(c, q) \/ k = n + 1
        BY <1>2, <1>4, <2>1
      <3> QED BY <2>1, <3>1
    <2>2. CASE q # p
      <3>1. \A k : k \in StopsIn(d, q) <=> k \in StopsIn(c, q)
        BY <1>2, <1>3, <1>4, <2>2
      <3> QED BY <2>2, <3>1
    <2> QED BY <2>1, <2>2
  <1> QED BY <1>5 DEF d, n

\* The step StopPlugin keeps the invariant.
LEMMA StopPluginKeepsInv == ASSUME AgentInv, StopPlugin PROVE AgentInv'
  <1>1. /\ stage = "stop" /\ plugins # <<>> /\ calls' = Append(calls, <<"stop", Current>>)
        /\ StepTo("code") /\ UNCHANGED <<agentConfig, plugins, registered, pipeline, eventsHeard>>
    BY DEF StopPlugin, Called
  <1>2. /\ registered \in Regs /\ calls \in Calls /\ Current \in PluginNames
        /\ calls' = Cat(calls, <<<<"stop", Current>>>>)
    BY <1>1, CurrentIs DEF Phases
  <1>3. calls' = Cat(calls, BlockOf(registered, stage, Current))
    BY <1>1, <1>2 DEF BlockOf
  <1>4. stage \in Phases /\ Following(stage) = "code"
    BY <1>1 DEF Phases, Following
  <1>5. /\ CallsAsScheduled'
        /\ stage' \in Stages /\ stage' \notin {"args", "config", "exited", "spawn", "child"} /\ at' \in Nat
        /\ stage' \in Phases => at' < Len(plugins)
        /\ stage' \notin Phases => at' = 0
    BY <1>1, <1>2, <1>3, <1>4, Advance
  <1>6. AgentTypes'
    BY <1>1, <1>5 DEF AgentInv, AgentTypes, agentConfig
  <1>7. /\ at \in Nat /\ Len(plugins) \in Nat /\ at < Len(plugins) /\ DOMAIN plugins = 1..Len(plugins)
        /\ Distinct(plugins)
    BY <1>1 DEF AgentInv, AgentTypes, Phases
  <1>8. ASSUME NEW i \in DOMAIN plugins
        PROVE  IF i =< at + 1 THEN \E k : StopsIn(calls', plugins[i].name) = {k}
               ELSE StopsIn(calls', plugins[i].name) = {}
    <2>1. IF i =< at THEN \E k : StopsIn(calls, plugins[i].name) = {k}
          ELSE StopsIn(calls, plugins[i].name) = {}
      BY <1>1 DEF AgentInv, StopsLast
    <2>2. plugins[i].name = Current <=> i = at + 1
      BY <1>7 DEF Current, Distinct
    <2> DEFINE q == plugins[i].name
               new == Len(calls) + 1
    <2>3. StopsIn(calls', q) = IF q = Current THEN StopsIn(calls, q) \union {new} ELSE StopsIn(calls, q)
      <3>1. \A r : StopsIn(Append(calls, <<"stop", Current>>), r)
                     = IF r = Current THEN StopsIn(calls, r) \union {Len(calls) + 1} ELSE StopsIn(calls, r)
        BY <1>2, StopIsAdded
      <3> HIDE DEF q
      <3> QED BY <1>1, <3>1
    <2> HIDE DEF q, new
    <2>4. CASE i = at + 1
      <3>1. StopsIn(calls, q) = {}
        BY <1>7, <2>1, <2>4 DEF q
      <3>2. StopsIn(calls', q) = {new}
        BY <2>2, <2>3, <2>4, <3>1 DEF q
      <3>3. \E k : StopsIn(calls', q) = {k}
        BY <3>2
      <3>4. i =< at + 1
        BY <1>7, <2>4
      <3> QED BY <3>3, <3>4, Zenon DEF q
    <2>5. CASE i # at + 1
      <3>1. StopsIn(calls', q) = StopsIn(calls, q)
        BY <2>2, <2>3, <2>5 DEF q
      <3> QED BY <1>7, <2>1, <2>5, <3>1 DEF q
    <2> QED BY <2>4, <2>5
  <1>9. StopsLast'
    <2>1. pipeline' = "dropped"
      BY <1>1 DEF AgentInv, StopsLast
    <2>2. CASE at + 1 = Len(plugins)
      <3>1. stage' = "code"
        BY <1>1, <2>2 DEF StepTo
      <3>2. \A i \in DOMAIN plugins : \E k : StopsIn(calls', plugins[i].name) = {k}
        <4>1. \A i \in DOMAIN plugins : i =< at + 1
          BY <1>7, <2>2
        <4> QED BY <1>8, <4>1
      <3> QED BY <1>1, <2>1, <3>1, <3>2 DEF StopsLast
    <2>3. CASE at + 1 # Len(plugins)
      <3>1. stage' = "stop" /\ at' = at + 1
        BY <1>1, <2>3 DEF StepTo
      <3> QED BY <1>1, <1>8, <2>1, <3>1 DEF StopsLast
    <2> QED BY <2>2, <2>3
  <1>10. SubscribersTold'
    <2>1. stage' \in {"stop", "code"}
      BY <1>1 DEF StepTo
    <2>2. Published(stage', command) = Published(stage, command)
      BY <1>1, <2>1 DEF Published
    <2> QED BY <1>1, <2>1, <2>2 DEF AgentInv, SubscribersTold, agentConfig
  <1> QED BY <1>5, <1>6, <1>9, <1>10 DEF AgentInv

\* The step ExitCode keeps the invariant.
LEMMA ExitCodeKeepsInv == ASSUME AgentInv, ExitCode PROVE AgentInv'
  <1>1. stage = "code" /\ UNCHANGED <<agentConfig, plugins, at, registered, calls, child, errors, eventsHeard>>
    BY DEF ExitCode
  <1>2. PICK code : Exit(code)
    BY Zenon DEF ExitCode
  <1>3. stage' = "exited" /\ pipeline' = "dropped"
    BY <1>1, <1>2 DEF Exit, AgentInv, StopsLast
  <1>4. ~FailedEarly'
    <2>1. exit' = "success" \/ errors # <<>> \/ child = "ko"
      BY DEF ExitCode, Exit
    <2> QED BY <1>1, <2>1 DEF FailedEarly
  <1>5. AgentTypes'
    BY <1>1, <1>3 DEF AgentInv, AgentTypes, agentConfig, Stages, Phases
  <1>6. CallsAsScheduled'
    BY <1>1, <1>3, EndsAfter
  <1>7. StopsLast'
    BY <1>1, <1>3, <1>4 DEF AgentInv, StopsLast
  <1>8. SubscribersTold'
    BY <1>1, <1>3 DEF AgentInv, SubscribersTold, Published, agentConfig
  <1> QED BY <1>5, <1>6, <1>7, <1>8 DEF AgentInv

\* The step LoadError keeps the invariant.
LEMMA LoadErrorKeepsInv == ASSUME AgentInv, OutcomeInv, LoadError PROVE AgentInv'
  <1>1. /\ stage = "config" /\ Exit("failure")
        /\ UNCHANGED <<agentConfig, plugins, at, registered, calls, child, errors>>
    BY DEF LoadError
  <1>2. at' \in Nat
    BY <1>1 DEF AgentInv, AgentTypes
  <1> QED BY <1>1, <1>2, ExitKeepsInv

\* The invariant of the agent holds when it starts.
LEMMA AgentInitHasInv == ASSUME AgentInit PROVE AgentInv
  <1> DEFINE n == Len(Bundled)
  <1>1. n \in Nat /\ DOMAIN Bundled = 1..n /\ \A i, j \in 1..n : Bundled[i] = Bundled[j] => i = j
    BY AgentAssumption DEF IsInjective
  <1>2. \A i \in 1..n : Bundled[i] \in PluginNames
    BY <1>1 DEF PluginNames, ToSet
  <1> HIDE DEF n
  <1>3. set = [i \in 1..n |-> [name |-> Bundled[i], enabled |-> TRUE]]
    BY <1>1 DEF AgentInit
  <1>4. /\ DOMAIN set = 1..n /\ Len(set) = n /\ \A i \in 1..n : set[i] \in Info /\ set[i].name = Bundled[i]
    BY <1>1, <1>2, <1>3 DEF Info
  <1>5. set \in Seq(Info)
    BY <1>1, <1>2, <1>3 DEF Info
  <1>6. Distinct(set) /\ NamesIn(set) = PluginNames
    <2>1. Distinct(set)
      BY <1>1, <1>4 DEF Distinct
    <2>2. NamesIn(set) = {Bundled[i] : i \in 1..n}
      BY <1>4 DEF NamesIn
    <2>3. PluginNames = {Bundled[i] : i \in 1..n}
      BY <1>1 DEF PluginNames, ToSet
    <2> QED BY <2>1, <2>2, <2>3
  <1>7. selection = NoSelection /\ set \in Sets /\ set \in Seq(Allowed(selection))
    <2>1. selection = NoSelection
      BY DEF AgentInit
    <2>2. \A info \in Info : info \in Allowed(NoSelection)
      BY DEF Allowed
    <2>3. set \in Sets
      BY <1>4, <1>5, <1>6 DEF Sets, n
    <2> QED BY <1>5, <2>1, <2>2, <2>3
  <1>8. /\ stage = "args" /\ command = "run" /\ plugins = <<>> /\ at = 0 /\ calls = <<>>
        /\ registered = [p \in PluginNames |-> Nothing] /\ configOrder = <<>>
        /\ eventsHeard = [p \in PluginNames |-> <<>>]
    BY DEF AgentInit
  <1>9. AgentTypes
    <2>1. registered \in Regs
      BY <1>8 DEF Regs, Behaviour, Nothing
    <2>2. plugins \in Seq(Info) /\ Distinct(plugins)
      BY <1>8 DEF Distinct
    <2>3. configOrder \in Seq(PluginNames) /\ Len(configOrder) = 0
      BY <1>8
    <2>4. Len(set) \in Nat
      BY <1>7 DEF Sets
    <2> QED BY <1>7, <1>8, <2>1, <2>2, <2>3, <2>4 DEF AgentTypes, Stages, Phases
  <1>10. CallsAsScheduled
    BY <1>8 DEF CallsAsScheduled, CallsAt, Before, Phases
  <1>11. StopsLast
    BY <1>8 DEF StopsLast, NoStop
  <1>12. SubscribersTold
    BY <1>8 DEF SubscribersTold, Published
  <1> QED BY <1>9, <1>10, <1>11, <1>12 DEF AgentInv

\* Errors and the process come in their stages.
LEMMA OutcomeInvariant == AgentSpec => []OutcomeInv
  <1>1. AgentInit => OutcomeInv
    BY DEF AgentInit, OutcomeInv
  <1>2. ASSUME OutcomeInv, [AgentNext]_agentVars PROVE OutcomeInv'
    <2>1. CASE UNCHANGED agentVars \/ PipelineEnds
      BY <1>2, <2>1 DEF agentVars, PipelineEnds, OutcomeInv
    <2>2. CASE \E c \in {"run", "exec", "watch"}, names \in Selections : ParseArgs(c, names)
      BY <1>2, <2>2 DEF ParseArgs, OutcomeInv
    <2>3. ASSUME LoadError \/ \E f \in ConfigFiles : LoadConfig(f) PROVE OutcomeInv'
      <3>1. stage = "config" /\ stage' \in {"exited", "init"} /\ UNCHANGED <<child, errors>>
        BY <1>2, <2>3 DEF LoadError, LoadConfig, Exit
      <3> QED BY <1>2, <3>1 DEF OutcomeInv
    <2>4. CASE SkipPhase
      BY <1>2, <2>4 DEF SkipPhase, OutcomeInv
    <2>5. ASSUME InitPlugin \/ (\E b \in Behaviours : StartPlugin(b)) \/ PreStart \/ Build \/ PostStart
          PROVE  OutcomeInv'
      <3>1. /\ stage \in {"init", "start", "pre", "build", "post"} /\ UNCHANGED <<child, errors>>
            /\ stage' \in {"init", "start", "pre", "build", "post", "ready", "exited"}
        BY <1>2, <2>5 DEF InitPlugin, StartPlugin, PreStart, Build, PostStart, HookAndActions, StepTo, Exit
      <3> QED BY <1>2, <3>1 DEF OutcomeInv
    <2>6. CASE Ready \/ Spawn \/ ChildExits \/ AfterChild
      BY <1>2, <2>6 DEF Ready, Spawn, ChildExits, AfterChild, Exit, OutcomeInv
    <2>7. CASE WaitPipeline \/ StopPlugin
      BY <1>2, <2>7 DEF WaitPipeline, StopPlugin, StepTo, OutcomeInv
    <2>8. CASE ExitCode
      BY <1>2, <2>8 DEF ExitCode, Exit, OutcomeInv
    <2> QED BY <1>2, <2>1, <2>2, <2>3, <2>4, <2>5, <2>6, <2>7, <2>8 DEF AgentNext
  <1> QED BY <1>1, <1>2, PTL DEF AgentSpec

\* Every step of the agent keeps its invariant.
LEMMA AgentNextKeepsInv == ASSUME AgentInv, OutcomeInv, [AgentNext]_agentVars PROVE AgentInv'
  <1>1. CASE AgentNext
    <2>1. CASE \E c \in {"run", "exec", "watch"}, names \in Selections : ParseArgs(c, names)
      BY <2>1, ParseArgsKeepsInv
    <2>2. CASE LoadError \/ \E f \in ConfigFiles : LoadConfig(f)
      BY <2>2, LoadErrorKeepsInv, LoadConfigKeepsInv
    <2>3. CASE SkipPhase \/ InitPlugin \/ \E b \in Behaviours : StartPlugin(b)
      BY <2>3, SkipPhaseKeepsInv, InitPluginKeepsInv, StartPluginKeepsInv
    <2>4. CASE PreStart \/ Build \/ PostStart \/ PipelineEnds
      BY <2>4, PreStartKeepsInv, BuildKeepsInv, PostStartKeepsInv, PipelineEndsKeepsInv
    <2>5. CASE Ready \/ Spawn \/ ChildExits \/ AfterChild
      BY <2>5, ReadyKeepsInv, SpawnKeepsInv, ChildExitsKeepsInv, AfterChildKeepsInv
    <2>6. CASE WaitPipeline \/ StopPlugin \/ ExitCode
      BY <2>6, WaitPipelineKeepsInv, StopPluginKeepsInv, ExitCodeKeepsInv
    <2> QED BY <1>1, <2>1, <2>2, <2>3, <2>4, <2>5, <2>6 DEF AgentNext
  <1>2. CASE UNCHANGED agentVars
    BY <1>2 DEF agentVars, agentConfig, AgentInv, AgentTypes, CallsAsScheduled, StopsLast, SubscribersTold,
                FailedEarly
  <1> QED BY <1>1, <1>2

\* The phases of the property are those of the invariant.
LEMMA ScheduleIs ==
    ASSUME AgentInv
    PROVE  Upto5(plugins, registered) =
             (Hook("init") \o Hook("start")
              \o WithActions("pre", "preAction", LAMBDA p : registered[p].pre)
              \o WithActions("post", "postAction", LAMBDA p : registered[p].post)
              \o Hook("stop"))
  <1>1. DOMAIN plugins = 1..Len(plugins) /\ \A i \in 1..Len(plugins) : Enabled[i] = plugins[i].name
    BY DEF AgentInv, AgentTypes, Enabled
  <1>2. ASSUME NEW h \in {"init", "start", "stop"}
        PROVE  WholeOf(plugins, registered, h) = Hook(h)
    <2>1. \A p : BlockOf(registered, h, p) = <<<<h, p>>>>
      BY DEF BlockOf
    <2>2. [i \in 1..Len(plugins) |-> BlockOf(registered, h, plugins[i].name)]
            = [i \in DOMAIN plugins |-> <<<<h, Enabled[i]>>>>]
      BY <1>1, <2>1
    <2> QED BY <2>2 DEF WholeOf, FirstOf, Hook, Phase
  <1>3. WholeOf(plugins, registered, "pre") = WithActions("pre", "preAction", LAMBDA p : registered[p].pre)
    <2>1. \A p : BlockOf(registered, "pre", p)
                   = <<<<"pre", p>>>> \o [i \in 1..registered[p].pre |-> <<"preAction", p, i>>]
      BY DEF BlockOf, Cat, Actions
    <2>2. [i \in 1..Len(plugins) |-> BlockOf(registered, "pre", plugins[i].name)]
            = [i \in DOMAIN plugins |->
                 <<<<"pre", Enabled[i]>>>> \o [j \in 1..registered[Enabled[i]].pre |-> <<"preAction", Enabled[i], j>>]]
      BY <1>1, <2>1
    <2> QED BY <2>2 DEF WholeOf, FirstOf, WithActions, Phase
  <1>4. WholeOf(plugins, registered, "post") = WithActions("post", "postAction", LAMBDA p : registered[p].post)
    <2>1. \A p : BlockOf(registered, "post", p)
                   = <<<<"post", p>>>> \o [i \in 1..registered[p].post |-> <<"postAction", p, i>>]
      BY DEF BlockOf, Cat, Actions
    <2>2. [i \in 1..Len(plugins) |-> BlockOf(registered, "post", plugins[i].name)]
            = [i \in DOMAIN plugins |->
                 <<<<"post", Enabled[i]>>>> \o [j \in 1..registered[Enabled[i]].post |-> <<"postAction", Enabled[i], j>>]]
      BY <1>1, <2>1
    <2> QED BY <2>2 DEF WholeOf, FirstOf, WithActions, Phase
  <1> HIDE DEF Hook, WithActions
  <1>5. /\ WholeOf(plugins, registered, "init") = Hook("init")
        /\ WholeOf(plugins, registered, "start") = Hook("start")
        /\ WholeOf(plugins, registered, "stop") = Hook("stop")
    BY <1>2
  <1> QED BY <1>3, <1>4, <1>5 DEF Upto5, Upto4, Upto3, Upto2, Cat

\* The invariant of the agent implies the two properties about its plugins.
LEMMA AgentInvImplies == ASSUME AgentInv PROVE Schedule /\ StoppedAndTold
  <1>1. SetIsComplete
    <2>1. set \in Sets
      BY DEF AgentInv, AgentTypes
    <2>2. ToSet([i \in DOMAIN set |-> set[i].name]) = NamesIn(set)
      BY DEF ToSet, NamesIn
    <2> DEFINE names == [i \in DOMAIN set |-> set[i].name]
    <2>3. /\ names \in Seq(PluginNames) /\ Len(names) = Len(set)
          /\ \A i \in 1..Len(set) : names[i] = set[i].name
      <3>1. /\ DOMAIN set = 1..Len(set) /\ Len(set) \in Nat
            /\ \A i \in 1..Len(set) : set[i].name \in PluginNames
        <4>1. set \in Seq(Info) /\ \A info \in Info : info.name \in PluginNames
          BY <2>1 DEF Sets, Info
        <4> HIDE DEF Info
        <4> QED BY <4>1
      <3> QED BY <3>1
    <2>4. IsPrefix(configOrder, names)
      <3>1. /\ configOrder \in Seq(PluginNames) /\ Len(configOrder) =< Len(set)
            /\ \A i \in 1..Len(configOrder) : set[i].name = configOrder[i]
        BY DEF AgentInv, AgentTypes
      <3>2. \A i \in 1..Len(configOrder) : i \in 1..Len(set)
        BY <2>1, <3>1 DEF Sets
      <3> HIDE DEF names
      <3> QED BY <2>3, <3>1, <3>2, PrefixMeans
    <2> QED BY <2>1, <2>2, <2>4 DEF SetIsComplete, Sets, AgentInv, AgentTypes
  <1>2. IsPrefix(calls, Upto5(plugins, registered))
    <2>1. calls \in Calls /\ Pre(calls, Upto5(plugins, registered)) /\ Upto5(plugins, registered) \in Calls
      BY CallsAreCalls, CallsArePre, UptoIs DEF AgentInv, AgentTypes
    <2> QED BY <2>1, PreIsPrefix
  <1>3. (\E i \in DOMAIN calls : calls[i][1] = "stop") => pipeline = "dropped"
    BY DEF AgentInv, StopsLast, NoStop
  <1>4. Schedule
    BY <1>1, <1>2, <1>3, ScheduleIs DEF Schedule
  <1> DEFINE late == stage = "code" \/ (stage = "exited" /\ ~FailedEarly)
  <1>5. ASSUME late, NEW i \in DOMAIN plugins PROVE Stops(plugins[i].name) = 1
    <2>1. PICK k : StopsIn(calls, plugins[i].name) = {k}
      BY <1>5 DEF AgentInv, StopsLast
    <2> QED BY <2>1, FS_Singleton DEF Stops, StopsIn
  <1>6. ASSUME late, NEW p \in Subscribers
        PROVE  eventsHeard[p] = IF command = "run" THEN <<>> ELSE <<"start", "end">>
    BY <1>6 DEF AgentInv, SubscribersTold, Published, Subscribers
  <1>7. ASSUME stage = "exited", FailedEarly, NEW i \in DOMAIN plugins
        PROVE  Stops(plugins[i].name) = 0
    <2>1. StopsIn(calls, plugins[i].name) = {}
      BY <1>7, NoStopIsNone DEF AgentInv, StopsLast
    <2> QED BY <2>1, FS_EmptySet DEF Stops, StopsIn
  <1> HIDE DEF late
  <1>8. StoppedAndTold
    <2>1. CASE stage \notin {"code", "exited"} BY <2>1 DEF StoppedAndTold
    <2>2. CASE late
      <3>1. stage # "exited" \/ ~FailedEarly BY <2>2 DEF late
      <3> QED BY <1>5, <1>6, <2>2, <3>1 DEF StoppedAndTold
    <2>3. CASE stage = "exited" /\ FailedEarly BY <1>7, <2>3 DEF StoppedAndTold
    <2>4. stage = "code" \/ stage = "exited" \/ stage \notin {"code", "exited"} OBVIOUS
    <2> QED BY Zenon, <2>1, <2>2, <2>3, <2>4 DEF late
  <1> QED BY <1>4, <1>8

\* Whatever fails, the agent follows the schedule.
THEOREM AgentFollowsSchedule == AgentSpec => []Schedule
  <1>1. AgentInit => AgentInv
    BY AgentInitHasInv
  <1>2. AgentInv /\ OutcomeInv /\ [AgentNext]_agentVars => AgentInv'
    BY AgentNextKeepsInv
  <1>3. AgentInv => Schedule
    BY AgentInvImplies
  <1> QED BY <1>1, <1>2, <1>3, OutcomeInvariant, PTL DEF AgentSpec

\* An agent that has ended stopped every plugin once, even after the error or the panic of
\* another, and told every subscriber of the start and the end; or its start-up failed, or it
\* could not spawn or watch the process, and no plugin was stopped.
THEOREM PluginsAreStopped == AgentSpec => []StoppedAndTold
  <1>1. AgentInit => AgentInv
    BY AgentInitHasInv
  <1>2. AgentInv /\ OutcomeInv /\ [AgentNext]_agentVars => AgentInv'
    BY AgentNextKeepsInv
  <1>3. AgentInv => StoppedAndTold
    BY AgentInvImplies
  <1> QED BY <1>1, <1>2, <1>3, OutcomeInvariant, PTL DEF AgentSpec

-------------------------------------------------------------------------------
(* The parts together: a step of the core is one of its part, or stutters for it.*)

LEMMA CoreRunsCoop == CoreSpec => Spec
  <1>1. CoreInit => Init
    BY DEF CoreInit
  <1>2. [CoreNext]_coreVars => [Next]_vars
    <2> SUFFICES ASSUME [CoreNext]_coreVars PROVE Next \/ UNCHANGED vars
      OBVIOUS
    <2>1. CASE RunCoop
      BY <2>1 DEF RunCoop, Next
    <2>2. CASE UNCHANGED coreVars
      BY <2>2 DEF coreVars
    <2>3. CASE RunRegistry
      BY <2>3 DEF RunRegistry, OnlyRegistry
    <2>4. CASE RunRelay
      BY <2>4 DEF RunRelay, OnlyRelay
    <2>5. CASE RunAgent
      BY <2>5 DEF RunAgent, OnlyAgent
    <2>6. CASE RunCommands
      BY <2>6 DEF RunCommands, OnlyCommands
    <2>7. CASE RunTriggers
      BY <2>7 DEF RunTriggers, OnlyTriggers
    <2>8. CASE RunCsv
      BY <2>8 DEF RunCsv, OnlyCsv
    <2>9. CASE RunRemote
      BY <2>9 DEF RunRemote, OnlyRemote
    <2>10. CASE RunAggregation
      BY <2>10 DEF RunAggregation, OnlyAggregation
    <2>11. CASE RunAttribution
      BY <2>11 DEF RunAttribution, OnlyAttribution
    <2>12. CASE RunPoints
      BY <2>12 DEF RunPoints, OnlyPoints
    <2>13. CASE RunFormat
      BY <2>13 DEF RunFormat, OnlyFormat
    <2> QED
      BY <2>1, <2>2, <2>3, <2>4, <2>5, <2>6, <2>7, <2>8, <2>9, <2>10, <2>11, <2>12, <2>13 DEF CoreNext
  <1> QED BY <1>1, <1>2, PTL DEF CoreSpec, Spec

\* A run of the composition is a run of the registry.
LEMMA CoreRunsRegistry == CoreSpec => RegistrySpec
  <1>1. CoreInit => RegistryInit
    BY DEF CoreInit
  <1>2. [CoreNext]_coreVars => [RegistryNext]_registryVars
    <2> SUFFICES ASSUME [CoreNext]_coreVars PROVE RegistryNext \/ UNCHANGED registryVars
      OBVIOUS
    <2>1. CASE RunRegistry
      BY <2>1 DEF RunRegistry, RegistryNext
    <2>2. CASE UNCHANGED coreVars
      BY <2>2 DEF coreVars
    <2>3. CASE RunCoop
      BY <2>3 DEF RunCoop, OnlyCoop
    <2>4. CASE RunRelay
      BY <2>4 DEF RunRelay, OnlyRelay
    <2>5. CASE RunAgent
      BY <2>5 DEF RunAgent, OnlyAgent
    <2>6. CASE RunCommands
      BY <2>6 DEF RunCommands, OnlyCommands
    <2>7. CASE RunTriggers
      BY <2>7 DEF RunTriggers, OnlyTriggers
    <2>8. CASE RunCsv
      BY <2>8 DEF RunCsv, OnlyCsv
    <2>9. CASE RunRemote
      BY <2>9 DEF RunRemote, OnlyRemote
    <2>10. CASE RunAggregation
      BY <2>10 DEF RunAggregation, OnlyAggregation
    <2>11. CASE RunAttribution
      BY <2>11 DEF RunAttribution, OnlyAttribution
    <2>12. CASE RunPoints
      BY <2>12 DEF RunPoints, OnlyPoints
    <2>13. CASE RunFormat
      BY <2>13 DEF RunFormat, OnlyFormat
    <2> QED
      BY <2>1, <2>2, <2>3, <2>4, <2>5, <2>6, <2>7, <2>8, <2>9, <2>10, <2>11, <2>12, <2>13 DEF CoreNext
  <1> QED BY <1>1, <1>2, PTL DEF CoreSpec, RegistrySpec

\* A run of the composition is a run of the relay.
LEMMA CoreRunsRelay == CoreSpec => RelaySpec
  <1>1. CoreInit => RelayInit
    BY DEF CoreInit
  <1>2. [CoreNext]_coreVars => [RelayNext]_relayVars
    <2> SUFFICES ASSUME [CoreNext]_coreVars PROVE RelayNext \/ UNCHANGED relayVars
      OBVIOUS
    <2>1. CASE RunRelay
      BY <2>1 DEF RunRelay, RelayNext
    <2>2. CASE UNCHANGED coreVars
      BY <2>2 DEF coreVars
    <2>3. CASE RunCoop
      BY <2>3 DEF RunCoop, OnlyCoop
    <2>4. CASE RunRegistry
      BY <2>4 DEF RunRegistry, OnlyRegistry
    <2>5. CASE RunAgent
      BY <2>5 DEF RunAgent, OnlyAgent
    <2>6. CASE RunCommands
      BY <2>6 DEF RunCommands, OnlyCommands
    <2>7. CASE RunTriggers
      BY <2>7 DEF RunTriggers, OnlyTriggers
    <2>8. CASE RunCsv
      BY <2>8 DEF RunCsv, OnlyCsv
    <2>9. CASE RunRemote
      BY <2>9 DEF RunRemote, OnlyRemote
    <2>10. CASE RunAggregation
      BY <2>10 DEF RunAggregation, OnlyAggregation
    <2>11. CASE RunAttribution
      BY <2>11 DEF RunAttribution, OnlyAttribution
    <2>12. CASE RunPoints
      BY <2>12 DEF RunPoints, OnlyPoints
    <2>13. CASE RunFormat
      BY <2>13 DEF RunFormat, OnlyFormat
    <2> QED
      BY <2>1, <2>2, <2>3, <2>4, <2>5, <2>6, <2>7, <2>8, <2>9, <2>10, <2>11, <2>12, <2>13 DEF CoreNext
  <1> QED BY <1>1, <1>2, PTL DEF CoreSpec, RelaySpec

\* A run of the composition is a run of the triggers.
LEMMA CoreRunsTriggers == CoreSpec => TriggerSpecsSpec
  <1>1. CoreInit => TriggerSpecsInit
    BY DEF CoreInit
  <1>2. [CoreNext]_coreVars => [TriggerSpecsNext]_triggerSpecVars
    <2> SUFFICES ASSUME [CoreNext]_coreVars PROVE TriggerSpecsNext \/ UNCHANGED triggerSpecVars
      OBVIOUS
    <2>1. CASE RunTriggers
      BY <2>1 DEF RunTriggers, TriggerSpecsNext
    <2>2. CASE UNCHANGED coreVars
      BY <2>2 DEF coreVars
    <2>3. CASE RunCoop
      BY <2>3 DEF RunCoop, OnlyCoop
    <2>4. CASE RunRegistry
      BY <2>4 DEF RunRegistry, OnlyRegistry
    <2>5. CASE RunRelay
      BY <2>5 DEF RunRelay, OnlyRelay
    <2>6. CASE RunAgent
      BY <2>6 DEF RunAgent, OnlyAgent
    <2>7. CASE RunCommands
      BY <2>7 DEF RunCommands, OnlyCommands
    <2>8. CASE RunCsv
      BY <2>8 DEF RunCsv, OnlyCsv
    <2>9. CASE RunRemote
      BY <2>9 DEF RunRemote, OnlyRemote
    <2>10. CASE RunAggregation
      BY <2>10 DEF RunAggregation, OnlyAggregation
    <2>11. CASE RunAttribution
      BY <2>11 DEF RunAttribution, OnlyAttribution
    <2>12. CASE RunPoints
      BY <2>12 DEF RunPoints, OnlyPoints
    <2>13. CASE RunFormat
      BY <2>13 DEF RunFormat, OnlyFormat
    <2> QED
      BY <2>1, <2>2, <2>3, <2>4, <2>5, <2>6, <2>7, <2>8, <2>9, <2>10, <2>11, <2>12, <2>13 DEF CoreNext
  <1> QED BY <1>1, <1>2, PTL DEF CoreSpec, TriggerSpecsSpec

\* A run of the composition is a run of the commands.
LEMMA CoreRunsCommands == CoreSpec => CommandsSpec
  <1>1. CoreInit => CommandsInit
    BY DEF CoreInit
  <1>2. [CoreNext]_coreVars => [CommandsNext]_commandsVars
    <2> SUFFICES ASSUME [CoreNext]_coreVars PROVE CommandsNext \/ UNCHANGED commandsVars
      OBVIOUS
    <2>1. CASE RunCommands
      BY <2>1 DEF RunCommands, CommandsNext
    <2>2. CASE UNCHANGED coreVars
      BY <2>2 DEF coreVars
    <2>3. CASE RunCoop
      BY <2>3 DEF RunCoop, OnlyCoop
    <2>4. CASE RunRegistry
      BY <2>4 DEF RunRegistry, OnlyRegistry
    <2>5. CASE RunRelay
      BY <2>5 DEF RunRelay, OnlyRelay
    <2>6. CASE RunAgent
      BY <2>6 DEF RunAgent, OnlyAgent
    <2>7. CASE RunTriggers
      BY <2>7 DEF RunTriggers, OnlyTriggers
    <2>8. CASE RunCsv
      BY <2>8 DEF RunCsv, OnlyCsv
    <2>9. CASE RunRemote
      BY <2>9 DEF RunRemote, OnlyRemote
    <2>10. CASE RunAggregation
      BY <2>10 DEF RunAggregation, OnlyAggregation
    <2>11. CASE RunAttribution
      BY <2>11 DEF RunAttribution, OnlyAttribution
    <2>12. CASE RunPoints
      BY <2>12 DEF RunPoints, OnlyPoints
    <2>13. CASE RunFormat
      BY <2>13 DEF RunFormat, OnlyFormat
    <2> QED
      BY <2>1, <2>2, <2>3, <2>4, <2>5, <2>6, <2>7, <2>8, <2>9, <2>10, <2>11, <2>12, <2>13 DEF CoreNext
  <1> QED BY <1>1, <1>2, PTL DEF CoreSpec, CommandsSpec

\* A run of the composition is a run of the agent.
LEMMA CoreRunsAgent == CoreSpec => AgentSpec
  <1>1. CoreInit => AgentInit
    BY DEF CoreInit
  <1>2. [CoreNext]_coreVars => [AgentNext]_agentVars
    <2> SUFFICES ASSUME [CoreNext]_coreVars PROVE AgentNext \/ UNCHANGED agentVars
      OBVIOUS
    <2>1. CASE RunAgent
      BY <2>1 DEF RunAgent, AgentNext
    <2>2. CASE UNCHANGED coreVars
      BY <2>2 DEF coreVars
    <2>3. CASE RunCoop
      BY <2>3 DEF RunCoop, OnlyCoop
    <2>4. CASE RunRegistry
      BY <2>4 DEF RunRegistry, OnlyRegistry
    <2>5. CASE RunRelay
      BY <2>5 DEF RunRelay, OnlyRelay
    <2>6. CASE RunCommands
      BY <2>6 DEF RunCommands, OnlyCommands
    <2>7. CASE RunTriggers
      BY <2>7 DEF RunTriggers, OnlyTriggers
    <2>8. CASE RunCsv
      BY <2>8 DEF RunCsv, OnlyCsv
    <2>9. CASE RunRemote
      BY <2>9 DEF RunRemote, OnlyRemote
    <2>10. CASE RunAggregation
      BY <2>10 DEF RunAggregation, OnlyAggregation
    <2>11. CASE RunAttribution
      BY <2>11 DEF RunAttribution, OnlyAttribution
    <2>12. CASE RunPoints
      BY <2>12 DEF RunPoints, OnlyPoints
    <2>13. CASE RunFormat
      BY <2>13 DEF RunFormat, OnlyFormat
    <2> QED
      BY <2>1, <2>2, <2>3, <2>4, <2>5, <2>6, <2>7, <2>8, <2>9, <2>10, <2>11, <2>12, <2>13 DEF CoreNext
  <1> QED BY <1>1, <1>2, PTL DEF CoreSpec, AgentSpec

\* A run of the composition is a run of the aggregation.
LEMMA CoreRunsAggregation == CoreSpec => AggregationSpec
  <1>1. CoreInit => AggregationInit
    BY DEF CoreInit
  <1>2. [CoreNext]_coreVars => [AggregationNext]_aggVars
    <2> SUFFICES ASSUME [CoreNext]_coreVars PROVE AggregationNext \/ UNCHANGED aggVars
      OBVIOUS
    <2>1. CASE RunAggregation
      BY <2>1 DEF RunAggregation, AggregationNext
    <2>2. CASE UNCHANGED coreVars
      BY <2>2 DEF coreVars
    <2>3. CASE RunCoop
      BY <2>3 DEF RunCoop, OnlyCoop
    <2>4. CASE RunRegistry
      BY <2>4 DEF RunRegistry, OnlyRegistry
    <2>5. CASE RunRelay
      BY <2>5 DEF RunRelay, OnlyRelay
    <2>6. CASE RunAgent
      BY <2>6 DEF RunAgent, OnlyAgent
    <2>7. CASE RunCommands
      BY <2>7 DEF RunCommands, OnlyCommands
    <2>8. CASE RunTriggers
      BY <2>8 DEF RunTriggers, OnlyTriggers
    <2>9. CASE RunCsv
      BY <2>9 DEF RunCsv, OnlyCsv
    <2>10. CASE RunRemote
      BY <2>10 DEF RunRemote, OnlyRemote
    <2>11. CASE RunAttribution
      BY <2>11 DEF RunAttribution, OnlyAttribution
    <2>12. CASE RunPoints
      BY <2>12 DEF RunPoints, OnlyPoints
    <2>13. CASE RunFormat
      BY <2>13 DEF RunFormat, OnlyFormat
    <2> QED
      BY <2>1, <2>2, <2>3, <2>4, <2>5, <2>6, <2>7, <2>8, <2>9, <2>10, <2>11, <2>12, <2>13 DEF CoreNext
  <1> QED BY <1>1, <1>2, PTL DEF CoreSpec, AggregationSpec

\* A run of the composition is a run of the attribution.
LEMMA CoreRunsAttribution == CoreSpec => AttributionSpec
  <1>1. CoreInit => AttributionInit
    BY DEF CoreInit
  <1>2. [CoreNext]_coreVars => [AttributionNext]_attrVars
    <2> SUFFICES ASSUME [CoreNext]_coreVars PROVE AttributionNext \/ UNCHANGED attrVars
      OBVIOUS
    <2>1. CASE RunAttribution
      BY <2>1 DEF RunAttribution, AttributionNext
    <2>2. CASE UNCHANGED coreVars
      BY <2>2 DEF coreVars
    <2>3. CASE RunCoop
      BY <2>3 DEF RunCoop, OnlyCoop
    <2>4. CASE RunRegistry
      BY <2>4 DEF RunRegistry, OnlyRegistry
    <2>5. CASE RunRelay
      BY <2>5 DEF RunRelay, OnlyRelay
    <2>6. CASE RunAgent
      BY <2>6 DEF RunAgent, OnlyAgent
    <2>7. CASE RunCommands
      BY <2>7 DEF RunCommands, OnlyCommands
    <2>8. CASE RunTriggers
      BY <2>8 DEF RunTriggers, OnlyTriggers
    <2>9. CASE RunCsv
      BY <2>9 DEF RunCsv, OnlyCsv
    <2>10. CASE RunRemote
      BY <2>10 DEF RunRemote, OnlyRemote
    <2>11. CASE RunAggregation
      BY <2>11 DEF RunAggregation, OnlyAggregation
    <2>12. CASE RunPoints
      BY <2>12 DEF RunPoints, OnlyPoints
    <2>13. CASE RunFormat
      BY <2>13 DEF RunFormat, OnlyFormat
    <2> QED
      BY <2>1, <2>2, <2>3, <2>4, <2>5, <2>6, <2>7, <2>8, <2>9, <2>10, <2>11, <2>12, <2>13 DEF CoreNext
  <1> QED BY <1>1, <1>2, PTL DEF CoreSpec, AttributionSpec

\* A run of the composition is a run of the other transforms.
LEMMA CoreRunsPoints == CoreSpec => PointTransformsSpec
  <1>1. CoreInit => PointTransformsInit
    BY DEF CoreInit
  <1>2. [CoreNext]_coreVars => [PointTransformsNext]_pointVars
    <2> SUFFICES ASSUME [CoreNext]_coreVars PROVE PointTransformsNext \/ UNCHANGED pointVars
      OBVIOUS
    <2>1. CASE RunPoints
      BY <2>1 DEF RunPoints, PointTransformsNext
    <2>2. CASE UNCHANGED coreVars
      BY <2>2 DEF coreVars
    <2>3. CASE RunCoop
      BY <2>3 DEF RunCoop, OnlyCoop
    <2>4. CASE RunRegistry
      BY <2>4 DEF RunRegistry, OnlyRegistry
    <2>5. CASE RunRelay
      BY <2>5 DEF RunRelay, OnlyRelay
    <2>6. CASE RunAgent
      BY <2>6 DEF RunAgent, OnlyAgent
    <2>7. CASE RunCommands
      BY <2>7 DEF RunCommands, OnlyCommands
    <2>8. CASE RunTriggers
      BY <2>8 DEF RunTriggers, OnlyTriggers
    <2>9. CASE RunCsv
      BY <2>9 DEF RunCsv, OnlyCsv
    <2>10. CASE RunRemote
      BY <2>10 DEF RunRemote, OnlyRemote
    <2>11. CASE RunAggregation
      BY <2>11 DEF RunAggregation, OnlyAggregation
    <2>12. CASE RunAttribution
      BY <2>12 DEF RunAttribution, OnlyAttribution
    <2>13. CASE RunFormat
      BY <2>13 DEF RunFormat, OnlyFormat
    <2> QED
      BY <2>1, <2>2, <2>3, <2>4, <2>5, <2>6, <2>7, <2>8, <2>9, <2>10, <2>11, <2>12, <2>13 DEF CoreNext
  <1> QED BY <1>1, <1>2, PTL DEF CoreSpec, PointTransformsSpec

\* A run of the composition is a run of the output to a CSV file.
LEMMA CoreRunsCsv == CoreSpec => CsvSpec
  <1>1. CoreInit => CsvInit
    BY DEF CoreInit
  <1>2. [CoreNext]_coreVars => [CsvNext]_csvVars
    <2> SUFFICES ASSUME [CoreNext]_coreVars PROVE CsvNext \/ UNCHANGED csvVars
      OBVIOUS
    <2>1. CASE RunCsv
      BY <2>1 DEF RunCsv, CsvNext
    <2>2. CASE UNCHANGED coreVars
      BY <2>2 DEF coreVars
    <2>3. CASE RunCoop
      BY <2>3 DEF RunCoop, OnlyCoop
    <2>4. CASE RunRegistry
      BY <2>4 DEF RunRegistry, OnlyRegistry
    <2>5. CASE RunRelay
      BY <2>5 DEF RunRelay, OnlyRelay
    <2>6. CASE RunAgent
      BY <2>6 DEF RunAgent, OnlyAgent
    <2>7. CASE RunCommands
      BY <2>7 DEF RunCommands, OnlyCommands
    <2>8. CASE RunTriggers
      BY <2>8 DEF RunTriggers, OnlyTriggers
    <2>9. CASE RunPoints
      BY <2>9 DEF RunPoints, OnlyPoints
    <2>10. CASE RunRemote
      BY <2>10 DEF RunRemote, OnlyRemote
    <2>11. CASE RunAggregation
      BY <2>11 DEF RunAggregation, OnlyAggregation
    <2>12. CASE RunAttribution
      BY <2>12 DEF RunAttribution, OnlyAttribution
    <2>13. CASE RunFormat
      BY <2>13 DEF RunFormat, OnlyFormat
    <2> QED
      BY <2>1, <2>2, <2>3, <2>4, <2>5, <2>6, <2>7, <2>8, <2>9, <2>10, <2>11, <2>12, <2>13 DEF CoreNext
  <1> QED BY <1>1, <1>2, PTL DEF CoreSpec, CsvSpec

\* A run of the composition is a run of the formats of the relay.
LEMMA CoreRunsFormat == CoreSpec => RelayFormatSpec
  <1>1. CoreInit => RelayFormatInit
    BY DEF CoreInit
  <1>2. [CoreNext]_coreVars => [RelayFormatNext]_relayFormatVars
    <2> SUFFICES ASSUME [CoreNext]_coreVars PROVE RelayFormatNext \/ UNCHANGED relayFormatVars
      OBVIOUS
    <2>1. CASE RunFormat
      BY <2>1 DEF RunFormat, RelayFormatNext
    <2>2. CASE UNCHANGED coreVars
      BY <2>2 DEF coreVars
    <2>3. CASE RunCoop
      BY <2>3 DEF RunCoop, OnlyCoop
    <2>4. CASE RunRegistry
      BY <2>4 DEF RunRegistry, OnlyRegistry
    <2>5. CASE RunRelay
      BY <2>5 DEF RunRelay, OnlyRelay
    <2>6. CASE RunAgent
      BY <2>6 DEF RunAgent, OnlyAgent
    <2>7. CASE RunCommands
      BY <2>7 DEF RunCommands, OnlyCommands
    <2>8. CASE RunTriggers
      BY <2>8 DEF RunTriggers, OnlyTriggers
    <2>9. CASE RunCsv
      BY <2>9 DEF RunCsv, OnlyCsv
    <2>10. CASE RunRemote
      BY <2>10 DEF RunRemote, OnlyRemote
    <2>11. CASE RunAggregation
      BY <2>11 DEF RunAggregation, OnlyAggregation
    <2>12. CASE RunAttribution
      BY <2>12 DEF RunAttribution, OnlyAttribution
    <2>13. CASE RunPoints
      BY <2>13 DEF RunPoints, OnlyPoints
    <2> QED
      BY <2>1, <2>2, <2>3, <2>4, <2>5, <2>6, <2>7, <2>8, <2>9, <2>10, <2>11, <2>12, <2>13 DEF CoreNext
  <1> QED BY <1>1, <1>2, PTL DEF CoreSpec, RelayFormatSpec

\* A run of the composition is a run of the outputs to services.
LEMMA CoreRunsRemote == CoreSpec => RemoteSpec
  <1>1. CoreInit => RemoteInit
    BY DEF CoreInit
  <1>2. [CoreNext]_coreVars => [RemoteNext]_remoteVars
    <2> SUFFICES ASSUME [CoreNext]_coreVars PROVE RemoteNext \/ UNCHANGED remoteVars
      OBVIOUS
    <2>1. CASE RunRemote
      BY <2>1 DEF RunRemote, RemoteNext
    <2>2. CASE UNCHANGED coreVars
      BY <2>2 DEF coreVars
    <2>3. CASE RunCoop
      BY <2>3 DEF RunCoop, OnlyCoop
    <2>4. CASE RunRegistry
      BY <2>4 DEF RunRegistry, OnlyRegistry
    <2>5. CASE RunRelay
      BY <2>5 DEF RunRelay, OnlyRelay
    <2>6. CASE RunAgent
      BY <2>6 DEF RunAgent, OnlyAgent
    <2>7. CASE RunCommands
      BY <2>7 DEF RunCommands, OnlyCommands
    <2>8. CASE RunTriggers
      BY <2>8 DEF RunTriggers, OnlyTriggers
    <2>9. CASE RunCsv
      BY <2>9 DEF RunCsv, OnlyCsv
    <2>10. CASE RunPoints
      BY <2>10 DEF RunPoints, OnlyPoints
    <2>11. CASE RunAggregation
      BY <2>11 DEF RunAggregation, OnlyAggregation
    <2>12. CASE RunAttribution
      BY <2>12 DEF RunAttribution, OnlyAttribution
    <2>13. CASE RunFormat
      BY <2>13 DEF RunFormat, OnlyFormat
    <2> QED
      BY <2>1, <2>2, <2>3, <2>4, <2>5, <2>6, <2>7, <2>8, <2>9, <2>10, <2>11, <2>12, <2>13 DEF CoreNext
  <1> QED BY <1>1, <1>2, PTL DEF CoreSpec, RemoteSpec

\* No point has a metric that its reader does not know: not the listeners of the registry,
\* and not the servers of the relays.
THEOREM MetricsStayKnown == CoreSpec => []MetricsAreKnown
  BY CoreRunsRegistry, CoreRunsRelay, ListenersKnow, RelayedMetricsAreKnown, PTL
  DEF MetricsAreKnown

\* Each part of the agent runs as it does alone: what holds of the trigger holds here too.
THEOREM TriggersStayInTime == CoreSpec => [](BoundedTurn /\ TriggersInTime)
  BY CoreRunsCoop, CoreRunsTriggers, TurnIsBounded, TriggersKeepTime, PTL

\* The same for the commands.
THEOREM CommandsStayObeyed == CoreSpec => []CommandsReachTheNamed
  BY CoreRunsCommands, CommandsAreObeyed, PTL

\* The same for the agent, whatever the parts beside it do.
THEOREM AgentStaysOnSchedule == CoreSpec => [](Schedule /\ StoppedAndTold)
  BY CoreRunsAgent, AgentFollowsSchedule, PluginsAreStopped, PTL

\* The transforms count each point once, in any buffers: a point is in one window, a consumer is
\* given its part of it once, and what is made from it is made once.
THEOREM PointsStayCountedOnce == CoreSpec => []PointsCountOnce
  BY CoreRunsAggregation, CoreRunsAttribution, CoreRunsPoints, WindowsStayWhole,
     AttributionIsExact, BuffersStayConsistent, PTL
  DEF PointsCountOnce

\* What is told of the points is what they say: in the columns of the CSV file, in the gauges, rows
\* and lines of the services, and in the messages of the relay.
THEOREM PointsStayTold == CoreSpec => []PointsAreTold
  BY CoreRunsCsv, CoreRunsRemote, CoreRunsFormat, CsvStaysReadable, RowsStayRight,
     LinesStayRight, ScrapesStayWhole, RelayKeepsAll, PTL
  DEF PointsAreTold
===============================================================================
