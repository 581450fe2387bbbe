------------------------------ MODULE PointTransforms ------------------------------
(***************************************************************************)
(* The transforms that work point by point: filter, energy-to-carbon and   *)
(* energy-estimation-tdp, run in some order by the transform task, which   *)
(* reads once per buffer which of them are enabled.                        *)
(***************************************************************************)
EXTENDS Integers, Sequences, SequencesExt, FiniteSets, Filtering

CONSTANTS
    PointOrders,       \* orders of transforms: sequences of "filter", "carbon" and "tdp"
    PointMetrics,      \* metrics of the points of the sources: "energy", "cpu", "other"
    MaxPointBatches,   \* bounds: buffers, points of a buffer and changes of the flags
    MaxPointsIn,
    MaxToggles

\* The builder refuses a name that is taken, and the registry the metrics of a transform that a
\* source has created with another meaning.
ASSUME PointAssumption ==
    /\ \A order \in PointOrders :
          /\ order \in Seq({"filter", "carbon", "tdp"})
          /\ \A i, j \in DOMAIN order : order[i] = order[j] => i = j
    /\ PointMetrics \cap {"estimate", "carbon"} = {}

VARIABLES
    pointSetup,    \* order, metrics that the filter accepts, whether the unit of "cpu" is known
    pointFlags,    \* transforms that are enabled
    pointTask,     \* buffer, flags read for it, next transform, cached conversion factor
    pointIn,       \* the buffers that have come, with the flags at that time
    pointOut,      \* the buffers that have been sent to the outputs
    pointToggles

pointVars == <<pointSetup, pointFlags, pointTask, pointIn, pointOut, pointToggles>>

\* The metrics of the transforms; the first two are in joules.
Joules == {"energy", "estimate"}
AllPointMetrics == PointMetrics \union {"estimate", "carbon"}

PointTransformsInit ==
    /\ pointSetup \in [order : PointOrders, second : BOOLEAN,
                       keep : {AllPointMetrics, AllPointMetrics \ {"energy"}, {"cpu", "carbon"}}]
    /\ pointFlags = Range(pointSetup.order)
    /\ pointTask = [buffer |-> <<>>, flags |-> {}, next |-> 0, factor |-> FALSE]
    /\ pointIn = <<>> /\ pointOut = <<>> /\ pointToggles = 0

\* A point: its metric, and the point of the source that it is or that it is made from.
Derive(metric, p) == [metric |-> metric, source |-> p.source]

OfMetrics(points, metrics) == Only(points, {p \in Range(points) : p.metric \in metrics})

\* FilterTransform::apply; FilterMode::Exclude is the Include of the others.
Filtered(points) == OfMetrics(points, pointSetup.keep)

\* Mutant of WithCarbon: the points that are not in joules do not go on.
WithCarbonOnly(points) ==
    LET energy == OfMetrics(points, Joules) IN
    energy \o [i \in DOMAIN energy |-> Derive("carbon", energy[i])]

\* EnergyToCarbonTransform::apply.
WithCarbon(points) ==
    LET energy == OfMetrics(points, Joules) IN
    points \o [i \in DOMAIN energy |-> Derive("carbon", energy[i])]

\* EnergyEstimationTdpTransform::apply, once it knows the conversion factor.
WithEstimates(points) ==
    LET usage == OfMetrics(points, {"cpu"}) IN
    points \o [i \in DOMAIN usage |-> Derive("estimate", usage[i])]

\* run_all_in_order takes the next buffer, and reads the flags.
TakeBuffer(metrics) ==
    LET points == [i \in DOMAIN metrics |->
                     [metric |-> metrics[i], source |-> <<Len(pointIn) + 1, i>>]] IN
    /\ pointTask.next = 0 /\ Len(pointIn) < MaxPointBatches
    /\ pointTask' = [pointTask EXCEPT !.buffer = points, !.flags = pointFlags, !.next = 1]
    /\ pointIn' = Append(pointIn, [points |-> points, flags |-> pointFlags])
    /\ UNCHANGED <<pointSetup, pointFlags, pointOut, pointToggles>>

\* Mutant of IsEnabled: the flags are read again for each transform.
IsEnabledNow(t) == t \in pointFlags

\* The flags of the buffer.
IsEnabled(t) == t \in pointTask.flags

\* The next transform, if it is enabled: the estimation leaves the buffer as it is, with an
\* error that does not end the task, if cpu is not a time.
RunTransform ==
    LET t == pointSetup.order[pointTask.next]
        known == pointTask.factor \/ pointSetup.second
        buffer == CASE t = "filter" -> Filtered(pointTask.buffer)
                    [] t = "carbon" -> WithCarbon(pointTask.buffer)
                    [] OTHER -> IF known THEN WithEstimates(pointTask.buffer) ELSE pointTask.buffer
    IN /\ pointTask.next \in DOMAIN pointSetup.order
       /\ pointTask' = [pointTask EXCEPT
            !.next = @ + 1,
            !.buffer = IF IsEnabled(t) THEN buffer ELSE @,
            !.factor = IF IsEnabled(t) /\ t = "tdp" THEN known ELSE @]
       /\ UNCHANGED <<pointSetup, pointFlags, pointIn, pointOut, pointToggles>>

SendBuffer ==
    /\ pointTask.next = Len(pointSetup.order) + 1
    /\ pointOut' = Append(pointOut, pointTask.buffer)
    /\ pointTask' = [pointTask EXCEPT !.next = 0, !.buffer = <<>>]
    /\ UNCHANGED <<pointSetup, pointFlags, pointIn, pointToggles>>

\* A command enables or disables a transform at any time.
ToggleTransform(t) ==
    /\ t \in Range(pointSetup.order) /\ pointToggles < MaxToggles
    /\ pointToggles' = pointToggles + 1
    /\ pointFlags' = (pointFlags \ {t}) \union ({t} \ pointFlags)
    /\ UNCHANGED <<pointSetup, pointTask, pointIn, pointOut>>

PointTransformsNext ==
    \/ \E metrics \in UNION {[1..n -> PointMetrics] : n \in 0..MaxPointsIn} : TakeBuffer(metrics)
    \/ RunTransform \/ SendBuffer
    \/ \E t \in {"filter", "carbon", "tdp"} : ToggleTransform(t)

PointTransformsSpec == PointTransformsInit /\ [][PointTransformsNext]_pointVars

-------------------------------------------------------------------------------
(* Properties.                                                                 *)

\* The place at which a transform works on a buffer, if it is enabled.
PlaceOf(setup, in, t) == IF t \in in.flags THEN SelectInSeq(setup.order, LAMBDA u : u = t) ELSE 0

\* The estimation does nothing if cpu is not a time.
EstimationPlace(setup, in) == IF setup.second THEN PlaceOf(setup, in, "tdp") ELSE 0

\* Whether a point that appears at a place is still there at a later one.
Passes(setup, in, metric, from, to) ==
    PlaceOf(setup, in, "filter") > from /\ PlaceOf(setup, in, "filter") < to => metric \in setup.keep

\* Whether a buffer is to hold the point of a metric made from p when it comes to a place, by
\* the transforms enabled when it came: there from the start, or made by one of them, after
\* which no filter refuses it; a made point needs what it is made from at that place.
IsDue(setup, in, place, p, metric) ==
    LET carbon == PlaceOf(setup, in, "carbon") tdp == EstimationPlace(setup, in) IN
    \/ metric = p.metric /\ Passes(setup, in, metric, 0, place)
    \/ /\ metric = "estimate" /\ p.metric = "cpu"
       /\ tdp # 0 /\ tdp < place
       /\ Passes(setup, in, "cpu", 0, tdp) /\ Passes(setup, in, metric, tdp, place)
    \/ /\ metric = "carbon"
       /\ carbon # 0 /\ carbon < place /\ Passes(setup, in, metric, carbon, place)
       /\ \/ p.metric = "energy" /\ Passes(setup, in, "energy", 0, carbon)
          \/ /\ p.metric = "cpu" /\ tdp # 0 /\ tdp < carbon
             /\ Passes(setup, in, "cpu", 0, tdp) /\ Passes(setup, in, "estimate", tdp, carbon)

DuePoints(setup, in, place) ==
    UNION {{Derive(m, p) : m \in {m \in AllPointMetrics : IsDue(setup, in, place, p, m)}} : p \in Range(in.points)}

\* Each buffer goes to the outputs once, as the transforms that were enabled when it came make
\* it, whatever is enabled or disabled meanwhile: no point is lost, made twice or made from
\* one that the filter had refused.
BuffersAreConsistent ==
    \A i \in DOMAIN pointOut :
        /\ Range(pointOut[i]) = DuePoints(pointSetup, pointIn[i], Len(pointSetup.order) + 1)
        /\ Len(pointOut[i]) = Cardinality(Range(pointOut[i]))
================================================================================
