-------------------------------- MODULE Aggregation --------------------------------
(***************************************************************************)
(* The transform of the plugin aggregation (src/plugins/aggregation): the  *)
(* points of the chosen metrics are kept, and replaced by one point for    *)
(* each window of time that is over.  A key stands for a metric, a         *)
(* resource, a consumer and attributes; its points come in the order of    *)
(* their timestamps, as from one source.  The table of the metrics is in a *)
(* RwLock: the transform locks it to read it, and again without releasing  *)
(* the first lock, while another thread may wait to write into it.         *)
(***************************************************************************)
EXTENDS Integers, Sequences, SequencesExt, FiniteSets, Filtering

CONSTANTS
    AggKeys,         \* keys of the points
    AggInterval,     \* length of a window
    AggValues,       \* values of the points
    MaxAggTime,      \* bound: timestamps
    MaxAggPoints     \* bound: points of a key

ASSUME AggIntervalAssumption == AggInterval \in Nat \ {0}

VARIABLES
    aggFunction,     \* "sum" or "mean"
    aggTable,        \* keys whose metric is in the correspondence table
    aggLock,         \* of the table: read by the transform, keys for which a writer waits
    aggBuffer,       \* the internal buffer, by key
    aggBatch,        \* points by key of the buffer that the transform is working on
    aggReceived,     \* points that the transform has dealt with, by key, before and after its
                     \* metric is in the table
    aggOut           \* points after the transform: aggregated ones and others

aggVars == <<aggFunction, aggTable, aggLock, aggBuffer, aggBatch, aggReceived, aggOut>>

AggPoint == [t : 0..MaxAggTime, v : AggValues]

AggregationInit ==
    /\ aggFunction \in {"sum", "mean"} /\ aggTable = {}
    /\ aggLock = [read |-> FALSE, waiting |-> {}]
    /\ aggBuffer = [k \in AggKeys |-> <<>>] /\ aggBatch = [k \in AggKeys |-> <<>>]
    /\ aggReceived = [k \in AggKeys |-> [before |-> <<>>, after |-> <<>>]]
    /\ aggOut = [k \in AggKeys |-> [windows |-> <<>>, through |-> <<>>]]

\* sum and mean; the quotient of two integers is rounded down.
Aggregate(function, points) ==
    LET sum == FoldLeft(LAMBDA n, p : n + p.v, 0, points) IN
    IF function = "sum" THEN sum ELSE sum \div Len(points)

\* Mutant of WindowStart: a window starts at its first point.
WindowStartAtFirst(t) == t

\* compute_min_timestamp.
WindowStart(t) == t - (t % AggInterval)

\* Mutant of ContainsEnough: the last point must be after the start of the next window.
ContainsEnoughAfter(points, start) == Last(points).t - start > AggInterval

\* contains_enough_data.
ContainsEnough(points, start) == Last(points).t - start >= AggInterval

\* get_ids: the points before the first one that is outside of the window.
WindowLength(points, start) ==
    (CHOOSE j \in DOMAIN points :
        /\ points[j].t - start >= AggInterval
        /\ \A i \in 1..(j - 1) : points[i].t - start < AggInterval) - 1

\* Whether the window of the first point is over.
WindowIsOver(points) ==
    points # <<>> /\ ContainsEnough(points, WindowStart(Head(points).t))

\* One turn of the loop: the points of the window make one point.
NextWindow(function, r) ==
    LET start == WindowStart(Head(r.left).t)
        n == WindowLength(r.left, start)
    IN [windows |-> Append(r.windows, [t |-> start, v |-> Aggregate(function, SubSeq(r.left, 1, n))]),
        left |-> SubSeq(r.left, n + 1, Len(r.left))]

\* AggregationTransform::buffer_bouncer, for a key: the aggregated points, and what is left; a
\* turn takes a point at least.
Bounced(function, points) ==
    LET turns[i \in 0..Len(points)] ==
            IF i = 0 THEN [windows |-> <<>>, left |-> points]
            ELSE IF WindowIsOver(turns[i - 1].left) THEN NextWindow(function, turns[i - 1])
            ELSE turns[i - 1]
    IN turns[Len(points)]

\* AggregationTransform::apply, until buffer_bouncer: the table is read, and a writer that waits
\* goes first.
StoreBatch(batch) ==
    /\ ~aggLock.read /\ aggLock.waiting = {}
    /\ aggLock' = [aggLock EXCEPT !.read = TRUE]
    /\ aggBatch' = batch
    /\ aggBuffer' = [k \in AggKeys |-> aggBuffer[k] \o IF k \in aggTable THEN batch[k] ELSE <<>>]
    /\ UNCHANGED <<aggFunction, aggTable, aggReceived, aggOut>>

\* buffer_bouncer, then the end of apply.  It locks the table again: if a writer has come in
\* between it waits for the writer, which waits for apply.
BounceBuffer ==
    /\ aggLock.read /\ aggLock.waiting = {}
    /\ aggLock' = [aggLock EXCEPT !.read = FALSE]
    /\ aggBatch' = [k \in AggKeys |-> <<>>]
    /\ LET bounced == [k \in AggKeys |-> Bounced(aggFunction, aggBuffer[k])]
           Added(k) == IF k \in aggTable THEN aggBatch[k] ELSE <<>>
           Passed(k) == IF k \in aggTable THEN <<>> ELSE aggBatch[k]
       IN /\ aggReceived' = [k \in AggKeys |-> [before |-> aggReceived[k].before \o Passed(k),
                                                after |-> aggReceived[k].after \o Added(k)]]
          /\ aggBuffer' = [k \in AggKeys |-> bounced[k].left]
          /\ aggOut' = [k \in AggKeys |-> [windows |-> aggOut[k].windows \o bounced[k].windows,
                                           through |-> aggOut[k].through \o Passed(k)]]
    /\ UNCHANGED <<aggFunction, aggTable>>

\* register_new_metrics, once the pipeline runs: it asks to write the next metric.
AskToWrite(k) ==
    /\ k \notin aggTable /\ aggLock.waiting = {}
    /\ aggLock' = [aggLock EXCEPT !.waiting = {k}]
    /\ UNCHANGED <<aggFunction, aggTable, aggBuffer, aggBatch, aggReceived, aggOut>>

\* Mutant of IsFree: the transform releases the table before it bounces its buffer.
IsFreeAtOnce(lock) == TRUE

IsFree(lock) == ~lock.read

\* register_new_metrics: the metric enters the table.
FillTable ==
    /\ aggLock.waiting # {} /\ IsFree(aggLock)
    /\ aggTable' = aggTable \union aggLock.waiting
    /\ aggLock' = [aggLock EXCEPT !.waiting = {}]
    /\ UNCHANGED <<aggFunction, aggBuffer, aggBatch, aggReceived, aggOut>>

\* At most two points of each key, not older than those before.
AggBatches ==
    {batch \in [AggKeys -> UNION {[1..n -> AggPoint] : n \in 0..2}] :
        \A k \in AggKeys :
            LET all == aggReceived[k].before \o aggReceived[k].after \o batch[k] IN
            /\ Len(all) =< MaxAggPoints
            /\ \A i \in 2..Len(all) : all[i - 1].t =< all[i].t}

AggregationNext ==
    \/ \E batch \in AggBatches : StoreBatch(batch)
    \/ BounceBuffer
    \/ \E k \in AggKeys : AskToWrite(k)
    \/ FillTable

AggregationSpec == AggregationInit /\ [][AggregationNext]_aggVars

-------------------------------------------------------------------------------
(* Properties.                                                                 *)

WindowOf(t) == (t \div AggInterval) * AggInterval
WindowPoints(points, start) == Only(points, {p \in Range(points) : WindowOf(p.t) = start})

\* Of the buffers that the transform has dealt with, each window between the first and the last
\* point that are aggregated gives one point, in order and at once, made of all the points of
\* the window whatever the buffers in which they have come; the points that come before the
\* table is filled are left as they are, whatever happens to the table during a buffer.  It does
\* not say that the transform ends with a buffer: a writer that comes while it has the table
\* blocks both for ever.
WindowsAreWhole ==
    \A k \in AggKeys :
        LET points == aggReceived[k].after
            starts == {WindowOf(p.t) : p \in Range(points)}
            windows == aggOut[k].windows
        IN /\ {w.t : w \in Range(windows)} = {t \in starts : \E u \in starts : u > t}
           /\ \A i, j \in DOMAIN windows : i < j => windows[i].t < windows[j].t
           /\ \A w \in Range(windows) : w.v = Aggregate(aggFunction, WindowPoints(points, w.t))
           /\ aggOut[k].through = aggReceived[k].before
================================================================================
