-------------------------------- MODULE Attribution --------------------------------
(***************************************************************************)
(* The transform of the plugin energy-attribution, for one resource, and   *)
(* the interpolation of time series (src/core/alumet/src/timeseries) it is *)
(* built on: the formula is evaluated for each consumer at the timestamps  *)
(* of a reference metric of the resource, where the metrics of the         *)
(* consumer are interpolated.  A point is its timestamp; those of a series *)
(* come in order, so that a series is the set of its points.               *)
(***************************************************************************)
EXTENDS Integers, Sequences, FiniteSets, FiniteSetsExt, Functions

CONSTANTS
    AttributionSetups     \* records [consumers, metrics, retention, max, points, failing]: who
                          \* sends points, of which metrics, the retention time, bounds of the
                          \* timestamps and of the points of a series that come together, and
                          \* the timestamps at which the formula cannot be evaluated

ASSUME AttributionAssumption ==
    \A s \in AttributionSetups :
        s.retention \in Nat /\ s.max \in Nat /\ IsFiniteSet(s.consumers)

NeverAttributed == 0

VARIABLES
    attrSetup,       \* the setup
    attrGeneral,     \* points of the reference
    attrConsumers,   \* consumers with points: their points by metric, their last_attributed_t
    attrOut,         \* attributed points: consumer, timestamp, and by metric the points used
    attrSeen,        \* all the points of the consumers, by consumer and metric
    attrOwed,        \* pairs of a consumer and a timestamp that could be, or has been, attributed
    attrTold         \* whether a pair is attributed twice, and whether an evaluation has failed

attrVars == <<attrSetup, attrGeneral, attrConsumers, attrOut, attrSeen, attrOwed, attrTold>>

Nobody == [c \in {} |-> {}]

AttributionInit ==
    /\ attrSetup \in AttributionSetups
    /\ attrGeneral = {} /\ attrConsumers = Nobody /\ attrOut = {} /\ attrOwed = {}
    /\ attrSeen = [c \in attrSetup.consumers |-> [m \in attrSetup.metrics |-> {}]]
    /\ attrTold = [twice |-> FALSE, failed |-> FALSE]

-------------------------------------------------------------------------------
(* Time series.                                                                *)

Missing == <<>>

\* Timeseries::find_points_around, from the point at start: the points before and after t, the
\* same one when a point is at t.
FindAround(points, start, t) ==
    LET before == {p \in points : start =< p /\ p < t}
        notBefore == {p \in points : start =< p /\ p >= t}
    IN IF notBefore = {} THEN Missing
       ELSE IF t \in notBefore THEN <<t, t>>
       ELSE IF before = {} THEN Missing
       ELSE <<Max(before), Min(notBefore)>>

\* Mutant of NextStart: the next search starts at the point after.
NextStartAfter(around) == around[2]

\* The next search starts at the point before, which may be used again.
NextStart(around) == around[1]

\* What is found at t, and where the next search starts.
SearchNext(points, r, t) ==
    LET around == FindAround(points, r.start, t) IN
    [start |-> IF around = Missing THEN r.start ELSE NextStart(around), around |-> around]

\* Timeseries::interpolate_at: for each timestamp, in order, the points around it.
InterpolateAt(points, times) ==
    LET search[t \in 0..Max(times \union {0})] ==
            IF t = 0 THEN [start |-> 0, around |-> Missing]
            ELSE IF t \in times THEN SearchNext(points, search[t - 1], t) ELSE search[t - 1]
    IN [t \in times |-> search[t].around]

\* MultiSyncInterpolator::interpolation_boundaries: the timestamps of the reference at which
\* every series can be interpolated, and that are new.
Synchronised(general, reference, series) ==
    LET all == {general} \union series
        inf == Max({Min(s) : s \in all})
        sup == Min({Max(s) : s \in all})
    IN {t \in reference : inf =< t /\ t =< sup}

-------------------------------------------------------------------------------
(* The transform.                                                              *)

\* Mutant of RemoveBefore: the point at the timestamp is removed too.
RemoveBeforeOrAt(points, t) == {p \in points : p > t}

\* ByMetricBuffer::remove_before, for a series.
RemoveBefore(points, t) == {p \in points : p >= t}

\* Mutant of IsNew: the last timestamp that has been attributed is done again.
IsNewOrLast(consumer, t) == t >= consumer.last

\* ByMetricBuffer::is_new.
IsNew(consumer, t) == t > consumer.last

\* remove_before on all the series of a consumer; those that are empty go.
KeptSeries(data, t) ==
    LET kept == {m \in DOMAIN data : RemoveBefore(data[m], t) # {}} IN
    [m \in kept |-> RemoveBefore(data[m], t)]

\* AttributionState::extend, with the points of a batch by consumer and metric.
Extended(batch) ==
    LET Had(c) == IF c \in DOMAIN attrConsumers THEN attrConsumers[c].data ELSE Nobody
        Got(c) == {m \in attrSetup.metrics : batch[c][m] # {}}
        present == {c \in attrSetup.consumers : DOMAIN Had(c) \union Got(c) # {}}
    IN [c \in present |->
         [last |-> IF c \in DOMAIN attrConsumers THEN attrConsumers[c].last ELSE NeverAttributed,
          data |-> [m \in DOMAIN Had(c) \union Got(c) |->
                      (IF m \in DOMAIN Had(c) THEN Had(c)[m] ELSE {}) \union batch[c][m]]]]

\* PreparedFormula::evaluate: a metric that is missing is a variable without a value.
Evaluates(consumer, t) ==
    t \notin attrSetup.failing /\ DOMAIN consumer.data = attrSetup.metrics

\* The loop of GenericAttributionTransform::apply for a consumer, after the state r of the
\* loop; an error ends the loop, and leaves the points that are already attributed.
AttributeTo(r, c, general, expired) ==
    LET consumer == r.consumers[c]
        times == Synchronised(general, {t \in general : IsNew(consumer, t)}, Range(consumer.data))
        good == {t \in times : \A u \in times : u =< t => Evaluates(consumer, u)}
        around == [m \in DOMAIN consumer.data |-> InterpolateAt(consumer.data[m], times)]
        out == {[consumer |-> c, t |-> t, from |-> [m \in DOMAIN consumer.data |-> around[m][t]]] :
                  t \in good}
        last == IF times = {} THEN consumer.last ELSE Max(times)
        useless == IF times = {} THEN expired ELSE Max({last, expired})
    IN IF r.failed THEN r
       ELSE [out |-> r.out \union out, failed |-> good # times,
             consumers |-> IF good # times THEN r.consumers
                           ELSE [r.consumers EXCEPT ![c] =
                                   [last |-> last, data |-> KeptSeries(consumer.data, useless)]]]

\* The whole loop, the consumers being taken in an order.
Attributed(start, general, expired, order) ==
    LET done[i \in 0..Len(order)] ==
            IF i = 0 THEN [consumers |-> start, out |-> {}, failed |-> FALSE]
            ELSE AttributeTo(done[i - 1], order[i], general, expired)
    IN done[Len(order)]

\* Mutant of UselessBefore: the reference is kept for the fastest consumer only.
UselessBeforeLatest(consumers, expired) ==
    IF consumers = Nobody THEN expired ELSE Max({consumers[c].last : c \in DOMAIN consumers})

\* The timestamp before which the points of the resource are not needed; a consumer that has
\* no attribution yet keeps them all.
UselessBefore(consumers, expired) ==
    IF consumers = Nobody THEN expired ELSE Min({consumers[c].last : c \in DOMAIN consumers})

\* Whether a series has lost the point before the timestamp of a pair, of old age.
ExpiredIn(seen, general, w) ==
    \E m \in attrSetup.metrics :
        Max({p \in seen[w[1]][m] : p =< w[2]}) < Max(general) - attrSetup.retention

Expired(w) == ExpiredIn(attrSeen, attrGeneral, w)

Orders(S) == {s \in [1..Cardinality(S) -> S] : Range(s) = S}

\* GenericAttributionTransform::apply.  Without the reference there is nothing to do; after an
\* error nothing is cleaned up.
ApplyAttribution(reference, batch, order) ==
    LET general == attrGeneral \union reference
        start == Extended(batch)
        expired == Max(general) - attrSetup.retention
        done == Attributed(start, general, expired, order)
        with == {c \in DOMAIN done.consumers : done.consumers[c].data # Nobody}
        left == [c \in with |-> done.consumers[c]]
    IN /\ order \in Orders(DOMAIN start)
       /\ IF general = {}
          THEN attrConsumers' = start /\ attrGeneral' = general /\ UNCHANGED <<attrOut, attrTold>>
          ELSE /\ attrConsumers' = IF done.failed THEN done.consumers ELSE left
               /\ attrGeneral' = IF done.failed THEN general
                                 ELSE RemoveBefore(general, UselessBefore(left, expired))
               /\ attrOut' = attrOut \union done.out
               /\ attrTold' = [failed |-> attrTold.failed \/ done.failed,
                    twice |-> attrTold.twice \/ \E o \in attrOut, p \in done.out :
                                 o.consumer = p.consumer /\ o.t = p.t]
       /\ attrSeen' = [c \in attrSetup.consumers |-> [m \in attrSetup.metrics |->
                         attrSeen[c][m] \union batch[c][m]]]
       /\ attrOwed' = {w \in attrOwed : ~Expired(w)} \union
                       {w \in (DOMAIN start) \X general :
                         /\ DOMAIN start[w[1]].data = attrSetup.metrics
                         /\ \A m \in attrSetup.metrics : \E p \in start[w[1]].data[m] : p =< w[2]}
       /\ UNCHANGED attrSetup

\* Some points of a series, after those before.
After(seen) ==
    LET new == {t \in 1..attrSetup.max : \A s \in seen : s < t} IN
    {S \in SUBSET new : Cardinality(S) =< attrSetup.points}

AttributionBatches ==
    {batch \in [attrSetup.consumers -> [attrSetup.metrics -> UNION {After(attrSeen[c][m]) :
                    c \in attrSetup.consumers, m \in attrSetup.metrics}]] :
        \A c \in attrSetup.consumers, m \in attrSetup.metrics : batch[c][m] \in After(attrSeen[c][m])}

AttributionNext ==
    \E reference \in After(attrGeneral), batch \in AttributionBatches :
        \E order \in UNION {Orders(S) : S \in SUBSET attrSetup.consumers} :
            ApplyAttribution(reference, batch, order)

AttributionSpec == AttributionInit /\ [][AttributionNext]_attrVars

-------------------------------------------------------------------------------
(* Properties.                                                                 *)

\* The points that o has used are the nearest ones of those seen.
UsesNearest(seen, o) ==
    \A m \in DOMAIN o.from :
        /\ o.from[m] # Missing
        /\ o.from[m][1] =< o.t /\ o.t =< o.from[m][2]
        /\ \A p \in seen[o.consumer][m] :
              (p =< o.t => p =< o.from[m][1]) /\ (p >= o.t => p >= o.from[m][2])

\* A consumer is given its part of a point of the reference once, as long as the formula has
\* always been evaluated; and from the nearest points that its series have ever had.
AttributedOnce ==
    /\ attrTold.twice => attrTold.failed
    /\ \A o \in attrOut : UsesNearest(attrSeen, o)

IsAttributed(out, w) == \E o \in out : o.consumer = w[1] /\ o.t = w[2]

\* The pair can be attributed once the next points have come.
CanWait(consumers, general, w) ==
    /\ w[2] \in general /\ w[1] \in DOMAIN consumers
    /\ IsNew(consumers[w[1]], w[2])
    /\ DOMAIN consumers[w[1]].data = attrSetup.metrics
    /\ \A m \in attrSetup.metrics : \E p \in consumers[w[1]].data[m] : p =< w[2]

\* A point that the pair needs has got older than the retention time before the next ones came.
LostByAge(seen, general, w) ==
    /\ ExpiredIn(seen, general, w)
    /\ \E m \in attrSetup.metrics : \A p \in seen[w[1]][m] : p < w[2]

\* A series has a gap around the timestamp of the pair, in which another one has been attributed.
Overtaken(out, seen, w) ==
    \E o \in out, m \in attrSetup.metrics :
        /\ o.consumer = w[1] /\ o.t < w[2]
        /\ \A p \in seen[w[1]][m] : p =< w[2] => p < o.t

\* A timestamp at which the series of a consumer had started is attributed, or still can be
\* once the next points have come, or a point it needs gets older than the retention time
\* before that, or a point it needs has been removed by the clean-up after an attribution in a
\* gap of a series: the losses are these two, and no other.  The second one is a defect, which
\* NeededIsKept states.
NothingOwedIsLost ==
    \A w \in attrOwed :
        \/ IsAttributed(attrOut, w)
        \/ CanWait(attrConsumers, attrGeneral, w)
        \/ LostByAge(attrSeen, attrGeneral, w)
        \/ Overtaken(attrOut, attrSeen, w)

\* Attributed timestamps never cost a later one the point it needs: "It's only ok to remove all
\* the points where p.t < ref_last, the others are needed for the interpolation"
\* (formula/transform.rs:235).
NeededIsKept ==
    \A w \in attrOwed :
        \/ IsAttributed(attrOut, w)
        \/ CanWait(attrConsumers, attrGeneral, w)
        \/ LostByAge(attrSeen, attrGeneral, w)
================================================================================
