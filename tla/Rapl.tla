---------------------------------- MODULE Rapl ----------------------------------
(***************************************************************************)
(* The rapl plugin: at its start it finds the RAPL domains that the two    *)
(* interfaces of the kernel (perf_events and powercap) report, keeps those *)
(* on which they agree and opens the counters of one interface; then its   *)
(* source computes the energy from counters that wrap around, is reset, or *)
(* fails in the middle of a poll and ends.                                 *)
(*                                                                         *)
(* A counter is a pair <<domain, socket>>; psys belongs to socket 0.       *)
(***************************************************************************)
EXTENDS Integers, Sequences, SequencesExt, FiniteSetsExt, Functions

CONSTANTS
    RaplDomains,   \* "package", "pp0", "pp1", "dram", "platform"
    Sockets,       \* number of CPU sockets
    CounterMax     \* largest value of a counter (max_energy_range_uj, u64::MAX)

ASSUME RaplAssumption == {Sockets, CounterMax} \subseteq Nat \ {0} /\ IsFiniteSet(RaplDomains)

VARIABLES
    rapl,        \* "start", "polling", "refused" or "ended"
    probe,       \* the interface used, and the counters opened, in order
    hardware,    \* the value that each counter holds
    previous,    \* CounterDiff.previous_value, Unread before the first read
    report,      \* the points and the totals that the last poll pushed
    counted      \* history: energy counted by the hardware since the last read

readings == <<hardware, previous, report, counted>>
raplVars == <<rapl, probe, readings>>

Unread == -1
Empty == [x \in {} |-> 0]
NoReport == [points |-> Empty, totals |-> Empty, counted |-> Empty]
Counters == RaplDomains \X (0..(Sockets - 1))
NoProbe == [interface |-> "none", counters |-> <<>>]

RaplInit ==
    /\ rapl = "start" /\ probe = NoProbe
    /\ hardware = [c \in Counters |-> 0] /\ counted = [c \in Counters |-> 0]
    /\ previous = [c \in Counters |-> Unread]
    /\ report = NoReport

-------------------------------------------------------------------------------
(* The start.  The domains of an interface are a set, or CannotList.       *)

CannotList == {"error"}

\* get_available_domains: the domains to measure with each interface, and which
\* interfaces may be used.
Agreement(events, zones, usePerf) ==
    LET perfOnly == [perf |-> events, powercap |-> {}, usePerf |-> usePerf, usePowercap |-> TRUE]
        powercapOnly == [perf |-> {}, powercap |-> zones, usePerf |-> FALSE, usePowercap |-> TRUE]
    IN CASE zones = CannotList -> perfOnly
         [] events = CannotList -> powercapOnly
         [] events # zones /\ events = {} -> powercapOnly
         [] events # zones /\ zones = {} -> [perfOnly EXCEPT !.usePowercap = FALSE]
         [] OTHER -> [perf |-> events \intersect zones, powercap |-> events \intersect zones,
                      usePerf |-> usePerf, usePowercap |-> TRUE]

\* One event per domain and socket, in the order of the events.
PerfCounters(domains) == {c \in Counters : c[1] \in domains}

\* One zone per domain and package; psys is a zone without a package.
Zones(domains) == {c \in Counters : c[1] \in domains /\ (c[1] = "platform" => c[2] = 0)}

\* PerfEventProbe::new and PowercapProbe::new; opening a counter may fail.
PerfProbe(a, perfOpens) ==
    IF perfOpens THEN [interface |-> "perf", counters |-> SetToSeq(PerfCounters(a.perf))] ELSE NoProbe
PowercapProbe(a, powercapOpens) ==
    IF powercapOpens /\ a.powercap # {}
    THEN [interface |-> "powercap", counters |-> SetToSeq(Zones(a.powercap))] ELSE NoProbe

\* perf_events are preferred; powercap is the fallback when both may be used.
Choose(a, perfOpens, powercapOpens) ==
    CASE a.usePerf /\ a.usePowercap ->
            IF PerfProbe(a, perfOpens) # NoProbe THEN PerfProbe(a, perfOpens) ELSE PowercapProbe(a, powercapOpens)
      [] a.usePerf /\ ~a.usePowercap -> PerfProbe(a, perfOpens)
      [] ~a.usePerf /\ a.usePowercap -> PowercapProbe(a, powercapOpens)
      [] OTHER -> NoProbe

\* RaplPlugin::start, with perf_events disabled or not in the configuration.
StartRapl(events, zones, noPerf, perfOpens, powercapOpens) ==
    /\ rapl = "start"
    /\ probe' = IF events = CannotList /\ zones = CannotList THEN NoProbe
                ELSE Choose(Agreement(events, zones, ~noPerf), perfOpens, powercapOpens)
    /\ rapl' = IF probe' = NoProbe THEN "refused" ELSE "polling"
    /\ UNCHANGED readings

-------------------------------------------------------------------------------
(* The source.                                                             *)

\* The hardware counts energy, and its counter wraps around.  CounterDiff cannot see
\* more than one turn: a poll comes before.
Consume(c) ==
    /\ rapl = "polling"
    /\ c \in ToSet(probe.counters)
    /\ counted[c] < CounterMax
    /\ hardware' = [hardware EXCEPT ![c] = (@ + 1) % (CounterMax + 1)]
    /\ counted' = [counted EXCEPT ![c] = @ + 1]
    /\ report' = NoReport
    /\ UNCHANGED <<rapl, probe, previous>>

\* Mutant of Difference: the value zero is not counted when the counter wraps around.
DifferenceWithoutZero(before, now) == IF now < before THEN CounterMax - before + now ELSE now - before

\* CounterDiff::update, when there is a previous value.
Difference(before, now) == IF now < before THEN CounterMax - before + now + 1 ELSE now - before

\* Mutant of Total: the value of the last socket replaces those of the others.
TotalOfLast(points, d) == points[CHOOSE c \in DOMAIN points : c[1] = d]

\* DomainTotals: the sum over the sockets.
Total(points, d) == MapThenSumSet(LAMBDA c : points[c], {c \in DOMAIN points : c[1] = d})

\* The loop reads n counters: all of them, or the next read fails, and the error is fatal:
\* the source ends and the points pushed go with its buffer.  A first value only
\* initializes the difference.
RaplPoll(n) ==
    /\ rapl = "polling" /\ n \in 0..Len(probe.counters)
    /\ LET read == ToSet(SubSeq(probe.counters, 1, n))
           known == {c \in read : previous[c] # Unread}
           points == [c \in known |-> Difference(previous[c], hardware[c])]
           fatal == n < Len(probe.counters)
       IN /\ previous' = [c \in Counters |-> IF c \in read THEN hardware[c] ELSE previous[c]]
          /\ report' = IF fatal THEN NoReport
                       ELSE [points |-> points,
                             totals |-> [d \in {c[1] : c \in known} |-> Total(points, d)],
                             counted |-> Restrict(counted, known)]
          /\ counted' = [c \in Counters |-> IF c \in read THEN 0 ELSE counted[c]]
          /\ rapl' = IF fatal THEN "ended" ELSE rapl
    /\ UNCHANGED <<probe, hardware>>

\* Source::reset, when the source is paused and resumed.
ResetRapl ==
    /\ rapl = "polling"
    /\ previous' = [c \in Counters |-> Unread]
    /\ counted' = [c \in Counters |-> 0]
    /\ report' = NoReport
    /\ UNCHANGED <<rapl, probe, hardware>>

RaplNext ==
    \/ \E events, zones \in (SUBSET RaplDomains) \union {CannotList}, noPerf, perf, powercap \in BOOLEAN :
          StartRapl(events, zones, noPerf, perf, powercap)
    \/ \E c \in Counters : Consume(c)
    \/ \E n \in 0..Cardinality(Counters) : RaplPoll(n)
    \/ ResetRapl

RaplSpec == RaplInit /\ [][RaplNext]_raplVars

-------------------------------------------------------------------------------
(* Properties.                                                             *)

\* A point is the energy that the hardware counted since the last time that this
\* counter was read, although it wraps around and the source is reset; and the total of
\* a domain is the sum of the points of its sockets.
EnergyIsConserved ==
    /\ report.points = report.counted
    /\ \A d \in DOMAIN report.totals :
          report.totals[d] = MapThenSumSet(LAMBDA c : report.counted[c], {c \in DOMAIN report.counted : c[1] = d})
================================================================================
