----------------------------- MODULE SourcesProofs -----------------------------
(***************************************************************************)
(* The sources of the plugins tell what their devices have counted, and    *)
(* end for a reason, whatever fails, goes away or wraps around, and for    *)
(* any number of devices, interfaces, processes and lines.                 *)
(*                                                                         *)
(* One section per source: an inductive invariant, a lemma for each action *)
(* and a theorem of the source alone; then the theorems of all of them.    *)
(***************************************************************************)
EXTENDS MCSources, FiniteSetTheorems, TLAPS

-------------------------------------------------------------------------------
(* The energy of the processors.                                              *)

\* The totals of a poll are those of the energy that the hardware counted.
TotalsAreCounted ==
    /\ report.points = report.counted
    /\ \A d \in DOMAIN report.totals : report.totals[d] = Total(report.counted, d)

\* What the hardware counted since a counter was read is the difference of the counter.
RaplInv ==
    /\ hardware \in [Counters -> 0..CounterMax]
    /\ counted \in [Counters -> 0..CounterMax]
    /\ previous \in [Counters -> 0..CounterMax \union {Unread}]
    /\ probe.counters \in Seq(Counters)
    /\ \A c \in Counters : previous[c] # Unread => Difference(previous[c], hardware[c]) = counted[c]
    /\ TotalsAreCounted

\* The width of the counters and the number of sockets are positive.
LEMMA MaxIsNat == CounterMax \in Nat \ {0} /\ Sockets \in Nat \ {0}
  BY RaplAssumption

\* A report of nothing tells the right totals.
LEMMA NothingIsConserved == ASSUME report' = NoReport PROVE TotalsAreCounted'
  <1>1. report'.points = report'.counted /\ report'.totals = Empty
    BY DEF NoReport
  <1>2. DOMAIN Empty = {}
    BY DEF Empty
  <1> QED BY <1>1, <1>2 DEF TotalsAreCounted

\* The invariant holds initially.
LEMMA RaplInitOK == RaplInit => RaplInv
  <1> SUFFICES ASSUME RaplInit PROVE RaplInv
    OBVIOUS
  <1>1. /\ hardware \in [Counters -> 0..CounterMax] /\ counted \in [Counters -> 0..CounterMax]
        /\ previous \in [Counters -> 0..CounterMax \union {Unread}]
        /\ \A c \in Counters : previous[c] = Unread
    BY MaxIsNat DEF RaplInit
  <1>2. probe.counters \in Seq(Counters)
    BY DEF RaplInit, NoProbe
  <1>3. TotalsAreCounted
    <2>1. report.points = report.counted /\ report.totals = Empty
      BY DEF RaplInit, NoReport
    <2>2. DOMAIN Empty = {}
      BY DEF Empty
    <2> QED BY <2>1, <2>2 DEF TotalsAreCounted
  <1> QED BY <1>1, <1>2, <1>3 DEF RaplInv

-------------------------------------------------------------------------------
(* The counters opened.                                                       *)

LEMMA CountersAreFinite == IsFiniteSet(Counters)
  <1>1. IsFiniteSet(0..(Sockets - 1))
    BY MaxIsNat, FS_Interval
  <1> QED BY <1>1, FS_Product, RaplAssumption DEF Counters

\* The sequence of a finite set is a sequence of its elements.
LEMMA SequenceOfSet == ASSUME NEW S, IsFiniteSet(S) PROVE SetToSeq(S) \in Seq(S)
  <1> DEFINE n == Cardinality(S)
  <1>1. n \in Nat /\ ExistsBijection(1..n, S)
    BY FS_CardinalityType
  <1> HIDE DEF n
  <1>2. \E f \in [1..n -> S] : IsInjective(f)
    BY <1>1 DEF ExistsBijection, Bijection, Injection
  <1>3. SetToSeq(S) \in [1..n -> S]
    BY <1>2 DEF SetToSeq, n
  <1> QED BY <1>1, <1>3

\* The counters a probe opens are counters.
LEMMA OpenedCounters ==
    ASSUME NEW S \in SUBSET Counters
    PROVE  SetToSeq(S) \in Seq(Counters)
  <1>1. IsFiniteSet(S)
    BY CountersAreFinite, FS_Subset
  <1>2. SetToSeq(S) \in Seq(S)
    BY <1>1, SequenceOfSet
  <1> QED BY <1>2

\* The probes of both interfaces hold counters.
LEMMA ProbesOpenCounters ==
    /\ NoProbe.counters \in Seq(Counters)
    /\ \A a0, opens : PerfProbe(a0, opens).counters \in Seq(Counters)
    /\ \A a0, opens : PowercapProbe(a0, opens).counters \in Seq(Counters)
  <1>1. NoProbe.counters \in Seq(Counters)
    BY DEF NoProbe
  <1>2. ASSUME NEW domains
        PROVE  /\ SetToSeq(PerfCounters(domains)) \in Seq(Counters)
               /\ SetToSeq(Zones(domains)) \in Seq(Counters)
    <2>1. PerfCounters(domains) \in SUBSET Counters /\ Zones(domains) \in SUBSET Counters
      BY DEF PerfCounters, Zones
    <2> QED BY <2>1, OpenedCounters
  <1>3. ASSUME NEW a0, NEW opens PROVE PerfProbe(a0, opens).counters \in Seq(Counters)
    BY <1>1, <1>2 DEF PerfProbe
  <1>4. ASSUME NEW a0, NEW opens PROVE PowercapProbe(a0, opens).counters \in Seq(Counters)
    BY <1>1, <1>2 DEF PowercapProbe
  <1> QED BY <1>1, <1>3, <1>4

\* The step StartRapl keeps the invariant.
LEMMA StartRaplKeepsInv ==
    ASSUME RaplInv, NEW perfDomains, NEW zones, NEW noPerf, NEW perfOpens, NEW powercapOpens,
           StartRapl(perfDomains, zones, noPerf, perfOpens, powercapOpens)
    PROVE  RaplInv'
  <1> DEFINE ag == Agreement(perfDomains, zones, ~noPerf)
  <1>1. probe' \in {NoProbe, PerfProbe(ag, perfOpens), PowercapProbe(ag, powercapOpens)}
    BY DEF StartRapl, Choose
  <1>2. probe'.counters \in Seq(Counters)
    BY <1>1, ProbesOpenCounters
  <1>3. UNCHANGED readings
    BY DEF StartRapl
  <1> QED BY <1>2, <1>3 DEF RaplInv, readings, TotalsAreCounted

-------------------------------------------------------------------------------
(* The source.                                                                *)

\* A difference follows its counter over the wrap-around, up to a whole turn.
LEMMA LaterDifference ==
    ASSUME NEW before \in 0..CounterMax, NEW now \in 0..CounterMax,
           Difference(before, now) < CounterMax
    PROVE  /\ (now + 1) % (CounterMax + 1) \in 0..CounterMax
           /\ Difference(before, (now + 1) % (CounterMax + 1)) = Difference(before, now) + 1
  <1>1. CASE now = CounterMax
    <2>1. (now + 1) % (CounterMax + 1) = 0
      BY <1>1, MaxIsNat
    <2> QED BY <1>1, <2>1, MaxIsNat DEF Difference
  <1>2. CASE now < CounterMax
    <2>1. (now + 1) % (CounterMax + 1) = now + 1
      BY <1>2, MaxIsNat
    <2> QED BY <1>2, <2>1, MaxIsNat DEF Difference
  <1> QED BY <1>1, <1>2, MaxIsNat

\* The step Consume keeps the invariant.
LEMMA ConsumeKeepsInv == ASSUME RaplInv, NEW c \in Counters, Consume(c) PROVE RaplInv'
  <1> DEFINE next == (hardware[c] + 1) % (CounterMax + 1)
  <1>1. /\ counted[c] < CounterMax
        /\ hardware' = [hardware EXCEPT ![c] = next]
        /\ counted' = [counted EXCEPT ![c] = counted[c] + 1]
        /\ report' = NoReport /\ probe' = probe /\ previous' = previous
    BY DEF Consume, RaplInv
  <1>2. next \in 0..CounterMax
    BY MaxIsNat DEF RaplInv
  <1>3. previous[c] # Unread => Difference(previous[c], next) = counted[c] + 1
    <2> SUFFICES ASSUME previous[c] # Unread PROVE Difference(previous[c], next) = counted[c] + 1
      OBVIOUS
    <2>1. /\ previous[c] \in 0..CounterMax /\ hardware[c] \in 0..CounterMax
          /\ Difference(previous[c], hardware[c]) = counted[c]
      BY DEF RaplInv
    <2> QED BY <1>1, <2>1, LaterDifference
  <1> HIDE DEF next
  <1>4. hardware' \in [Counters -> 0..CounterMax] /\ counted' \in [Counters -> 0..CounterMax]
    BY <1>1, <1>2, MaxIsNat DEF RaplInv
  <1>5. \A x \in Counters : previous'[x] # Unread => Difference(previous'[x], hardware'[x]) = counted'[x]
    <2> SUFFICES ASSUME NEW x \in Counters, previous[x] # Unread
                 PROVE  Difference(previous[x], hardware'[x]) = counted'[x]
      BY <1>1
    <2>1. CASE x = c
      BY <1>1, <1>3, <2>1 DEF RaplInv
    <2>2. CASE x # c
      <3>1. hardware'[x] = hardware[x] /\ counted'[x] = counted[x]
        BY <1>1, <2>2 DEF RaplInv
      <3> QED BY <3>1 DEF RaplInv
    <2> QED BY <2>1, <2>2
  <1>6. TotalsAreCounted'
    BY <1>1, NothingIsConserved
  <1>7. previous' \in [Counters -> 0..CounterMax \union {Unread}] /\ probe'.counters \in Seq(Counters)
    BY <1>1 DEF RaplInv
  <1> QED BY <1>4, <1>5, <1>6, <1>7 DEF RaplInv

\* The step ResetRapl keeps the invariant.
LEMMA ResetRaplKeepsInv == ASSUME RaplInv, ResetRapl PROVE RaplInv'
  <1>1. /\ previous' = [c \in Counters |-> Unread] /\ counted' = [c \in Counters |-> 0]
        /\ report' = NoReport /\ probe' = probe /\ hardware' = hardware
    BY DEF ResetRapl
  <1>2. TotalsAreCounted'
    BY <1>1, NothingIsConserved
  <1> QED BY <1>1, <1>2, MaxIsNat DEF RaplInv

\* The counters read by a poll are opened counters.
LEMMA CountersRead ==
    ASSUME NEW s \in Seq(Counters), NEW n \in 0..Len(s)
    PROVE  ToSet(SubSeq(s, 1, n)) \subseteq Counters
  <1>1. SubSeq(s, 1, n) \in Seq(Counters)
    OBVIOUS
  <1> QED BY <1>1 DEF ToSet

\* The points of a poll that reads these counters, and its totals.
LEMMA RaplPollKeepsInv == ASSUME RaplInv, NEW n, RaplPoll(n) PROVE RaplInv'
  <1> DEFINE read == ToSet(SubSeq(probe.counters, 1, n))
             kept == {c \in read : previous[c] # Unread}
             pts == [c \in kept |-> Difference(previous[c], hardware[c])]
             domains == {c[1] : c \in kept}
             energy == Restrict(counted, kept)
             fatal == n < Len(probe.counters)
  <1>1. /\ n \in 0..Len(probe.counters)
        /\ previous' = [c \in Counters |-> IF c \in read THEN hardware[c] ELSE previous[c]]
        /\ report' = IF fatal THEN NoReport
                     ELSE [points |-> pts, totals |-> [d \in domains |-> Total(pts, d)], counted |-> energy]
        /\ counted' = [c \in Counters |-> IF c \in read THEN 0 ELSE counted[c]]
        /\ probe' = probe /\ hardware' = hardware
    BY DEF RaplPoll
  <1>2. read \subseteq Counters
    BY <1>1, CountersRead DEF RaplInv
  <1> HIDE DEF read
  <1>3. pts = energy
    BY <1>2 DEF RaplInv, Restrict
  <1> HIDE DEF pts, energy, domains, fatal
  <1>4. TotalsAreCounted'
    <2>1. CASE fatal
      <3>1. report' = NoReport
        BY <1>1, <2>1
      <3> QED BY <3>1, NothingIsConserved
    <2>2. CASE ~fatal
      <3>1. report' = [points |-> energy, totals |-> [d \in domains |-> Total(energy, d)], counted |-> energy]
        BY <1>1, <1>3, <2>2
      <3>2. /\ report'.points = energy /\ report'.counted = energy
            /\ DOMAIN report'.totals = domains
            /\ \A d \in domains : report'.totals[d] = Total(energy, d)
        BY <3>1
      <3>3. \A d \in DOMAIN report'.totals : report'.totals[d] = Total(report'.counted, d)
        BY <3>2
      <3> QED BY <3>2, <3>3 DEF TotalsAreCounted
    <2> QED BY <2>1, <2>2
  <1>5. /\ previous' \in [Counters -> 0..CounterMax \union {Unread}]
        /\ counted' \in [Counters -> 0..CounterMax]
    BY <1>1, MaxIsNat DEF RaplInv
  <1>6. \A c \in Counters : previous'[c] # Unread => Difference(previous'[c], hardware'[c]) = counted'[c]
    <2> SUFFICES ASSUME NEW c \in Counters, previous'[c] # Unread
                 PROVE  Difference(previous'[c], hardware[c]) = counted'[c]
      BY <1>1
    <2>1. CASE c \in read
      <3>1. previous'[c] = hardware[c] /\ counted'[c] = 0 /\ hardware[c] \in 0..CounterMax
        BY <1>1, <2>1 DEF RaplInv
      <3> QED BY <3>1, MaxIsNat DEF Difference
    <2>2. CASE c \notin read
      <3>1. previous'[c] = previous[c] /\ counted'[c] = counted[c]
        BY <1>1, <2>2
      <3> QED BY <3>1 DEF RaplInv
    <2> QED BY <2>1, <2>2
  <1>7. hardware' \in [Counters -> 0..CounterMax] /\ probe'.counters \in Seq(Counters)
    BY <1>1 DEF RaplInv
  <1> QED BY <1>4, <1>5, <1>6, <1>7 DEF RaplInv

\* Every step keeps the invariant of the RAPL source.
LEMMA RaplStep == RaplInv /\ [RaplNext]_raplVars => RaplInv'
  <1> SUFFICES ASSUME RaplInv, [RaplNext]_raplVars PROVE RaplInv'
    OBVIOUS
  <1>1. CASE RaplNext
    BY <1>1, StartRaplKeepsInv, ConsumeKeepsInv, RaplPollKeepsInv, ResetRaplKeepsInv DEF RaplNext
  <1>2. CASE UNCHANGED raplVars
    BY <1>2 DEF raplVars, readings, RaplInv, TotalsAreCounted
  <1> QED BY <1>1, <1>2

\* The totals the RAPL source reports are the energy the processors consumed, through overflows and
\* resets.
THEOREM ProcessorsAreTold == RaplSpec => []EnergyIsConserved
  <1>1. RaplInv => EnergyIsConserved
    BY DEF RaplInv, EnergyIsConserved, TotalsAreCounted, Total
  <1> QED BY <1>1, RaplInitOK, RaplStep, PTL DEF RaplSpec

-------------------------------------------------------------------------------
(* The GPUs of Nvidia.                                                        *)

\* What the polls call was found by the detection.
GpusAreInspected ==
    \A d \in Gpus : gpuSource[d] = "polling" =>
        /\ nvml \in {"full", "minimal"}
        /\ nvmlFeatures[d] = OptionalFeatures(replies[d])
        /\ nvml = "minimal" => replies[d]["power"] = "ok"

\* Before the start, nothing is read.
GpusAreUnread == nvml = "start" => \A d \in Gpus : gpuEnergy[d].read = NoValue

GpuPoint == [first : Nat \union {NoValue}, buffered : Nat, sent : Nat]
GpuReading == {e \in [now : Nat, read : Nat \union {NoValue}] : e.read =< e.now}

\* What is told is right, of one device.
ToldRight(t, e, source) ==
    IF source = "ended" THEN t.buffered = 0 /\ t.sent =< Counted(t.first, e.read)
    ELSE t.sent + t.buffered = Counted(t.first, e.read)

GpuTyped ==
    /\ gpuSource \in [Gpus -> {"none", "polling", "ended"}]
    /\ gpuEnergy \in [Gpus -> GpuReading]
    /\ gpuTold \in [Gpus -> GpuPoint]

GpuInv == GpuTyped /\ GpusAreInspected /\ GpusAreUnread /\ OnlyFaultsEndGpus /\ GpuEnergyIsTold

\* The invariant holds initially.
LEMMA GpuInitOK == NvmlInit => GpuInv
  <1> SUFFICES ASSUME NvmlInit PROVE GpuInv
    OBVIOUS
  <1>1. GpuTyped
    BY DEF NvmlInit, GpuTyped, GpuReading, GpuPoint, NoValue, NothingYet
  <1>2. \A d \in Gpus : /\ gpuSource[d] = "none" /\ gpuTold[d].buffered = 0 /\ gpuTold[d].sent = 0
                        /\ gpuEnergy[d].read = NoValue
    BY DEF NvmlInit, NothingYet
  <1> QED BY <1>1, <1>2
         DEF GpuInv, GpusAreInspected, GpusAreUnread, OnlyFaultsEndGpus, GpuEnergyIsTold, Counted

\* A device that works in minimal mode has a power to read.
LEMMA StartNvmlKeepsInv ==
    ASSUME GpuInv, NEW mode0 \in {"full", "minimal"}, NEW skipFailed, NEW given,
           StartNvml(mode0, skipFailed, given)
    PROVE  GpuInv'
  <1> DEFINE W == {d \in Gpus : Useful(given[d])}
             refuses == \/ ~skipFailed /\ \E d \in Gpus : InspectionFails(given[d])
                        \/ W = {}
                        \/ mode0 = "minimal" /\ \E d \in W : given[d]["power"] # "ok"
  <1>1. /\ nvml' = IF refuses THEN "refused" ELSE mode0
        /\ replies' = given
        /\ gpuSource' = [d \in Gpus |-> IF d \in W /\ ~refuses THEN "polling" ELSE "none"]
        /\ nvmlFeatures' = [d \in Gpus |-> IF d \in W THEN OptionalFeatures(given[d]) ELSE {}]
        /\ gpuEnergy' = gpuEnergy /\ gpuTold' = gpuTold /\ gpuFault' = gpuFault
        /\ nvml = "start"
    BY DEF StartNvml
  <1>2. ~refuses /\ mode0 = "minimal" => \A d \in W : given[d]["power"] = "ok"
    OBVIOUS
  <1>3. W \subseteq Gpus
    OBVIOUS
  <1> HIDE DEF W, refuses
  <1>4. GpuTyped'
    BY <1>1 DEF GpuInv, GpuTyped
  <1>5. GpusAreInspected'
    <2> SUFFICES ASSUME NEW d \in Gpus, gpuSource'[d] = "polling"
                 PROVE  /\ nvml' \in {"full", "minimal"}
                        /\ nvmlFeatures'[d] = OptionalFeatures(replies'[d])
                        /\ nvml' = "minimal" => replies'[d]["power"] = "ok"
      BY DEF GpusAreInspected
    <2>1. d \in W /\ ~refuses
      BY <1>1
    <2>2. nvml' = mode0 /\ nvmlFeatures'[d] = OptionalFeatures(given[d])
      BY <1>1, <2>1
    <2>3. nvmlFeatures'[d] = OptionalFeatures(replies'[d])
      BY <1>1, <2>2
    <2>4. nvml' = "minimal" => replies'[d]["power"] = "ok"
      BY <1>1, <1>2, <2>1, <2>2
    <2> QED BY <2>2, <2>3, <2>4
  <1>6. OnlyFaultsEndGpus' /\ GpusAreUnread'
    <2>1. \A d \in Gpus : gpuEnergy'[d].read = NoValue /\ gpuSource'[d] # "ended"
      BY <1>1 DEF GpuInv, GpusAreUnread
    <2> QED BY <2>1 DEF OnlyFaultsEndGpus, GpusAreUnread
  <1>7. GpuEnergyIsTold'
    <2>1. \A d \in Gpus : gpuTold[d].sent + gpuTold[d].buffered = 0 /\ gpuTold[d] \in GpuPoint
      BY <1>1 DEF GpuInv, GpusAreUnread, GpuEnergyIsTold, Counted, GpuTyped, GpuPoint
    <2>2. \A d \in Gpus : gpuEnergy'[d].read = NoValue /\ gpuSource'[d] # "ended"
      BY <1>1 DEF GpuInv, GpusAreUnread
    <2> QED BY <1>1, <2>1, <2>2 DEF GpuEnergyIsTold, Counted
  <1> QED BY <1>4, <1>5, <1>6, <1>7 DEF GpuInv

\* A function found by the detection has answered.
LEMMA FoundFunctions ==
    ASSUME NEW r
    PROVE  /\ \A c \in OptionalFeatures(r) : c \in GpuCalls /\ r[c] = "ok"
           /\ \A c \in SimpleCalls : r[c] = "ok" => c \in OptionalFeatures(r)
  <1>1. Version(r, "compute", "compute_v2") = "none" \/
        /\ Version(r, "compute", "compute_v2") \in GpuCalls
        /\ r[Version(r, "compute", "compute_v2")] = "ok"
    BY DEF Version, GpuCalls
  <1>2. Version(r, "graphics", "graphics_v2") = "none" \/
        /\ Version(r, "graphics", "graphics_v2") \in GpuCalls
        /\ r[Version(r, "graphics", "graphics_v2")] = "ok"
    BY DEF Version, GpuCalls
  <1>3. SimpleCalls \subseteq GpuCalls
    BY DEF GpuCalls
  <1> QED BY <1>1, <1>2, <1>3 DEF OptionalFeatures

\* What a device has told after a poll that has read its energy, before the task looks at
\* its result.
LEMMA PushedIsRight ==
    ASSUME GpuTyped, NEW d \in Gpus, ToldRight(gpuTold[d], gpuEnergy[d], "polling")
    PROVE  /\ [gpuEnergy[d] EXCEPT !.read = gpuEnergy[d].now] \in GpuReading
           /\ Pushed(d) \in GpuPoint
           /\ ToldRight(Pushed(d), [gpuEnergy[d] EXCEPT !.read = gpuEnergy[d].now], "polling")
  <1> DEFINE e == gpuEnergy[d]
             t == gpuTold[d]
  <1>1. /\ e \in [now : Nat, read : Nat \union {NoValue}] /\ e.read =< e.now
        /\ t \in GpuPoint
    BY DEF GpuTyped, GpuReading
  <1>2. t.sent + t.buffered = Counted(t.first, e.read)
    BY DEF ToldRight
  <1>3. [e EXCEPT !.read = e.now] \in GpuReading /\ [e EXCEPT !.read = e.now].read = e.now /\ e.now # NoValue
    BY <1>1 DEF GpuReading, NoValue
  <1>4. CASE e.read = NoValue
    <2>1. Pushed(d) = [t EXCEPT !.first = e.now]
      BY <1>4 DEF Pushed
    <2>2. t.sent + t.buffered = 0
      BY <1>2, <1>4 DEF Counted
    <2> HIDE DEF e, t
    <2>3. [t EXCEPT !.first = e.now] \in GpuPoint
      BY <1>1 DEF GpuPoint
    <2>4. ToldRight([t EXCEPT !.first = e.now], [e EXCEPT !.read = e.now], "polling")
      BY <1>1, <1>3, <2>2 DEF ToldRight, Counted, GpuPoint
    <2> QED BY <1>3, <2>1, <2>3, <2>4 DEF e, t
  <1>5. CASE e.read # NoValue
    <2>1. Pushed(d) = [t EXCEPT !.buffered = @ + (e.now - e.read)]
      BY <1>5 DEF Pushed
    <2>2. t.sent + t.buffered = e.read - t.first
      BY <1>2, <1>5 DEF Counted
    <2> HIDE DEF e, t
    <2>3. [t EXCEPT !.buffered = @ + (e.now - e.read)] \in GpuPoint
      BY <1>1, <1>5 DEF GpuPoint
    <2>4. ToldRight([t EXCEPT !.buffered = @ + (e.now - e.read)], [e EXCEPT !.read = e.now], "polling")
      BY <1>1, <1>3, <1>5, <2>2 DEF ToldRight, Counted, GpuPoint, NoValue
    <2> QED BY <1>3, <2>1, <2>3, <2>4 DEF e, t
  <1> QED BY <1>4, <1>5

\* The buffer of a source after a poll: dropped, sent or kept.
LEMMA AfterPollIsRight ==
    ASSUME NEW t \in GpuPoint, NEW e \in GpuReading, ToldRight(t, e, "polling"),
           NEW fatal \in BOOLEAN, NEW flush \in BOOLEAN
    PROVE  /\ AfterGpuPoll(t, fatal, flush) \in GpuPoint
           /\ ToldRight(AfterGpuPoll(t, fatal, flush), e, IF fatal THEN "ended" ELSE "polling")
  <1>1. t.sent + t.buffered = Counted(t.first, e.read)
    BY DEF ToldRight
  <1>2. CASE fatal
    <2>1. AfterGpuPoll(t, fatal, flush) = [t EXCEPT !.buffered = 0]
      BY <1>2 DEF AfterGpuPoll
    <2>2. [t EXCEPT !.buffered = 0] \in GpuPoint
      BY DEF GpuPoint
    <2>3. t.sent =< Counted(t.first, e.read)
      BY <1>1 DEF GpuPoint
    <2> QED BY <1>2, <2>1, <2>2, <2>3 DEF ToldRight, GpuPoint
  <1>3. CASE ~fatal /\ flush
    <2>1. AfterGpuPoll(t, fatal, flush) = [first |-> t.first, buffered |-> 0, sent |-> t.sent + t.buffered]
      BY <1>3 DEF AfterGpuPoll
    <2>2. [first |-> t.first, buffered |-> 0, sent |-> t.sent + t.buffered] \in GpuPoint
      BY DEF GpuPoint
    <2> DEFINE u == [first |-> t.first, buffered |-> 0, sent |-> t.sent + t.buffered]
    <2>3. u.sent + u.buffered = t.sent + t.buffered /\ u.first = t.first
      BY DEF GpuPoint
    <2> HIDE DEF u
    <2>4. u.sent + u.buffered = Counted(u.first, e.read)
      BY <1>1, <2>3
    <2>5. ToldRight(u, e, "polling")
      BY <2>4 DEF ToldRight
    <2> QED BY <1>3, <2>1, <2>2, <2>5 DEF u
  <1>4. CASE ~fatal /\ ~flush
    BY <1>4 DEF AfterGpuPoll
  <1> QED BY <1>2, <1>3, <1>4

\* The step PollGpu keeps the invariant.
LEMMA PollGpuKeepsInv ==
    ASSUME GpuInv, NEW d \in Gpus, NEW broken, NEW flush \in BOOLEAN, PollGpu(d, broken, flush)
    PROVE  GpuInv'
  <1> DEFINE calls == PollCalls(d)
             fails == \E c \in calls : Fails(d, c, broken)
             faulty == broken \in nvmlFeatures[d] \union {"lists"}
             reads == EnergyIsRead(d, broken)
             e1 == IF reads THEN [gpuEnergy[d] EXCEPT !.read = gpuEnergy[d].now] ELSE gpuEnergy[d]
             t1 == IF reads THEN Pushed(d) ELSE gpuTold[d]
             t2 == AfterGpuPoll(t1, fails, flush)
             s2 == IF fails THEN "ended" ELSE "polling"
  <1>1. /\ gpuSource[d] = "polling"
        /\ broken \in calls \union {"none"}
        /\ gpuSource' = [gpuSource EXCEPT ![d] = IF fails THEN "ended" ELSE @]
        /\ gpuFault' = gpuFault \union (IF faulty THEN {d} ELSE {})
        /\ nvml' = nvml /\ replies' = replies /\ nvmlFeatures' = nvmlFeatures
        /\ gpuEnergy' = IF reads THEN [gpuEnergy EXCEPT ![d].read = gpuEnergy[d].now] ELSE gpuEnergy
        /\ gpuTold' = [gpuTold EXCEPT ![d] = t2]
    BY DEF PollGpu
  <1>2. /\ gpuEnergy' \in [Gpus -> GpuReading] /\ gpuTold' \in [Gpus -> GpuPoint]
        /\ GpuEnergyIsTold'
    <2>1. ToldRight(gpuTold[d], gpuEnergy[d], "polling") /\ gpuTold[d] \in GpuPoint /\ gpuEnergy[d] \in GpuReading
      BY <1>1 DEF GpuInv, GpuTyped, GpuEnergyIsTold, ToldRight
    <2>2. /\ e1 \in GpuReading /\ t1 \in GpuPoint /\ ToldRight(t1, e1, "polling")
      <3>1. GpuTyped
        BY DEF GpuInv
      <3>2. CASE reads
        BY <2>1, <3>1, <3>2, PushedIsRight
      <3>3. CASE ~reads
        BY <2>1, <3>3
      <3> QED BY <3>2, <3>3
    <2>3. fails \in BOOLEAN
      OBVIOUS
    <2>4. gpuEnergy' = [gpuEnergy EXCEPT ![d] = e1]
      BY <1>1 DEF GpuInv, GpuTyped
    <2> HIDE DEF e1, t1, fails
    <2>5. t2 \in GpuPoint /\ ToldRight(t2, e1, s2)
      BY <2>2, <2>3, AfterPollIsRight
    <2>6. gpuSource' = [gpuSource EXCEPT ![d] = s2]
      BY <1>1
    <2> HIDE DEF t2, s2
    <2>7. gpuEnergy' \in [Gpus -> GpuReading] /\ gpuTold' \in [Gpus -> GpuPoint]
      BY <1>1, <2>2, <2>4, <2>5 DEF GpuInv, GpuTyped
    <2>8. ASSUME NEW x \in Gpus PROVE ToldRight(gpuTold'[x], gpuEnergy'[x], gpuSource'[x])
      <3>1. CASE x = d
        BY <1>1, <2>4, <2>5, <2>6, <3>1 DEF GpuInv, GpuTyped
      <3>2. CASE x # d
        <4>1. gpuTold'[x] = gpuTold[x] /\ gpuEnergy'[x] = gpuEnergy[x] /\ gpuSource'[x] = gpuSource[x]
          BY <1>1, <2>4, <2>6, <3>2 DEF GpuInv, GpuTyped
        <4> QED BY <4>1 DEF GpuInv, GpuEnergyIsTold, ToldRight
      <3> QED BY <3>1, <3>2
    <2> QED BY <2>7, <2>8 DEF GpuEnergyIsTold, ToldRight
  <1>3. fails => faulty \/ WithoutMemory(d)
    <2> SUFFICES ASSUME NEW c \in PollCalls(d), Fails(d, c, broken)
                 PROVE  faulty \/ (nvml = "full" /\ replies[d]["memory"] # "ok")
      BY DEF WithoutMemory
    <2> DEFINE f == nvmlFeatures[d]
    <2>1. /\ nvml \in {"full", "minimal"} /\ f = OptionalFeatures(replies[d])
          /\ nvml = "minimal" => replies[d]["power"] = "ok"
      BY <1>1 DEF GpuInv, GpusAreInspected
    <2>2. /\ \A k \in f : k \in GpuCalls /\ replies[d][k] = "ok"
          /\ \A k \in SimpleCalls : replies[d][k] = "ok" => k \in f
      BY <2>1, FoundFunctions
    <2>3. c = broken \/ (c \in GpuCalls /\ replies[d][c] # "ok")
      BY DEF Fails
    <2>4. CASE nvml = "full"
      <3>1. c \in {"memory", "lists"} \union f
        BY <2>4 DEF PollCalls, FullCalls, Lists
      <3>2. "lists" \notin GpuCalls /\ "memory" \in SimpleCalls
        BY DEF GpuCalls, SimpleCalls
      <3> QED BY <2>2, <2>3, <2>4, <3>1, <3>2
    <2>5. CASE nvml = "minimal"
      <3>1. c = "power" /\ "power" \in SimpleCalls
        BY <2>5 DEF PollCalls, SimpleCalls
      <3> QED BY <2>1, <2>2, <2>3, <2>5, <3>1
    <2> QED BY <2>1, <2>4, <2>5
  <1>30. WithoutMemory(d) => ~reads
    BY DEF WithoutMemory, EnergyIsRead, Fails, GpuCalls, SimpleCalls
  <1> HIDE DEF calls, fails, faulty, reads, t2, e1, t1, s2
  <1>4. GpuTyped'
    <2>1. gpuSource' \in [Gpus -> {"none", "polling", "ended"}]
      BY <1>1 DEF GpuInv, GpuTyped
    <2> QED BY <1>2, <2>1 DEF GpuTyped
  <1>5. GpusAreInspected'
    <2>1. \A x \in Gpus : gpuSource'[x] = "polling" => gpuSource[x] = "polling"
      BY <1>1 DEF GpuInv, GpuTyped
    <2> QED BY <1>1, <2>1 DEF GpuInv, GpusAreInspected
  <1>50. GpusAreUnread'
    <2>1. nvml # "start"
      BY <1>1 DEF GpuInv, GpusAreInspected
    <2> QED BY <1>1, <2>1 DEF GpusAreUnread
  <1>6. OnlyFaultsEndGpus'
    <2> SUFFICES ASSUME NEW x \in Gpus
                 PROVE  /\ gpuSource'[x] = "ended" => x \in gpuFault' \/ WithoutMemory(x)
                        /\ WithoutMemory(x) => gpuEnergy'[x].read = NoValue
      BY <1>1 DEF OnlyFaultsEndGpus, WithoutMemory
    <2>1. CASE x = d
      <3>1. gpuSource'[x] = "ended" => fails
        BY <1>1, <2>1 DEF GpuInv, GpuTyped
      <3>2. WithoutMemory(x) => gpuEnergy' = gpuEnergy
        BY <1>1, <1>30, <2>1
      <3> QED BY <1>1, <1>3, <2>1, <3>1, <3>2 DEF GpuInv, OnlyFaultsEndGpus
    <2>2. CASE x # d
      <3>1. gpuSource'[x] = gpuSource[x] /\ gpuEnergy'[x] = gpuEnergy[x]
        BY <1>1, <2>2 DEF GpuInv, GpuTyped
      <3> QED BY <1>1, <3>1 DEF GpuInv, OnlyFaultsEndGpus
    <2> QED BY <2>1, <2>2
  <1> QED BY <1>2, <1>4, <1>5, <1>50, <1>6 DEF GpuInv

\* The step ResetGpu keeps the invariant.
LEMMA ResetGpuKeepsInv == ASSUME GpuInv, NEW d \in Gpus, ResetGpu(d) PROVE GpuInv'
  <1>1. /\ gpuEnergy' = [gpuEnergy EXCEPT ![d].read = NoValue]
        /\ gpuTold' = [gpuTold EXCEPT ![d] = NothingYet]
        /\ gpuSource[d] = "polling"
        /\ UNCHANGED <<nvml, replies, nvmlFeatures, gpuSource, gpuFault>>
    BY DEF ResetGpu, AfterReset
  <1>2. GpuTyped'
    <2>1. gpuEnergy' \in [Gpus -> GpuReading]
      BY <1>1 DEF GpuInv, GpuTyped, GpuReading, NoValue
    <2>2. gpuTold' \in [Gpus -> GpuPoint]
      BY <1>1 DEF GpuInv, GpuTyped, GpuPoint, NothingYet
    <2> QED BY <1>1, <2>1, <2>2 DEF GpuInv, GpuTyped
  <1>3. GpuEnergyIsTold'
    <2>1. ASSUME NEW x \in Gpus PROVE ToldRight(gpuTold'[x], gpuEnergy'[x], gpuSource'[x])
      <3>1. CASE x = d
        <4>1. gpuEnergy'[x].read = NoValue /\ gpuTold'[x] = NothingYet /\ gpuSource'[x] # "ended"
          BY <1>1, <3>1 DEF GpuInv, GpuTyped, GpuReading
        <4> QED BY <4>1 DEF ToldRight, Counted, NothingYet
      <3>2. CASE x # d
        <4>1. gpuTold'[x] = gpuTold[x] /\ gpuEnergy'[x] = gpuEnergy[x] /\ gpuSource'[x] = gpuSource[x]
          BY <1>1, <3>2 DEF GpuInv, GpuTyped
        <4> QED BY <4>1 DEF GpuInv, GpuEnergyIsTold, ToldRight
      <3> QED BY <3>1, <3>2
    <2> QED BY <2>1 DEF GpuEnergyIsTold, ToldRight
  <1>4. GpusAreInspected' /\ OnlyFaultsEndGpus' /\ GpusAreUnread'
    <2>1. \A x \in Gpus : gpuEnergy[x].read = NoValue => gpuEnergy'[x].read = NoValue
      BY <1>1 DEF GpuInv, GpuTyped, GpuReading
    <2> QED BY <1>1, <2>1 DEF GpuInv, GpusAreInspected, OnlyFaultsEndGpus, GpusAreUnread, WithoutMemory
  <1> QED BY <1>2, <1>3, <1>4 DEF GpuInv

\* The step GpuConsumes keeps the invariant.
LEMMA GpuConsumesKeepsInv == ASSUME GpuInv, NEW d \in Gpus, GpuConsumes(d) PROVE GpuInv'
  <1>1. /\ gpuEnergy' = [gpuEnergy EXCEPT ![d].now = @ + 1]
        /\ UNCHANGED <<nvml, replies, nvmlFeatures, gpuSource, gpuTold, gpuFault>>
    BY DEF GpuConsumes
  <1>2. GpuTyped'
    <2>1. gpuEnergy' \in [Gpus -> GpuReading]
      BY <1>1 DEF GpuInv, GpuTyped, GpuReading, NoValue
    <2> QED BY <1>1, <2>1 DEF GpuInv, GpuTyped
  <1>3. \A x \in Gpus : gpuEnergy'[x].read = gpuEnergy[x].read
    BY <1>1 DEF GpuInv, GpuTyped, GpuReading
  <1>4. GpuEnergyIsTold'
    BY <1>1, <1>3 DEF GpuInv, GpuEnergyIsTold
  <1>5. GpusAreInspected' /\ OnlyFaultsEndGpus' /\ GpusAreUnread'
    BY <1>1, <1>3 DEF GpuInv, GpusAreInspected, OnlyFaultsEndGpus, GpusAreUnread, WithoutMemory
  <1> QED BY <1>2, <1>4, <1>5 DEF GpuInv

\* Every step keeps the invariant of the NVML source.
LEMMA GpuStep == GpuInv /\ [NvmlNext]_nvmlVars => GpuInv'
  <1> SUFFICES ASSUME GpuInv, [NvmlNext]_nvmlVars PROVE GpuInv'
    OBVIOUS
  <1>1. CASE NvmlNext
    BY <1>1, StartNvmlKeepsInv, PollGpuKeepsInv, ResetGpuKeepsInv, GpuConsumesKeepsInv
       DEF NvmlNext
  <1>2. CASE UNCHANGED nvmlVars
    BY <1>2 DEF nvmlVars, GpuInv, GpuTyped, GpusAreInspected, GpusAreUnread, OnlyFaultsEndGpus,
                GpuEnergyIsTold, WithoutMemory
  <1> QED BY <1>1, <1>2

\* A source of a device ends only because the device failed, or cannot tell its memory; and it
\* tells the energy consumed, but for what its buffer holds when it ends.
THEOREM GpusAreTold == NvmlSpec => [](OnlyFaultsEndGpus /\ GpuEnergyIsTold)
  <1>1. GpuInv => OnlyFaultsEndGpus /\ GpuEnergyIsTold
    BY DEF GpuInv
  <1> QED BY <1>1, GpuInitOK, GpuStep, PTL DEF NvmlSpec

-------------------------------------------------------------------------------
(* The GPUs of AMD.                                                           *)

AmdPoint == [first : Nat \union {Unseen}, buffered : Nat, sent : Nat]

\* What is told is right, of one device.
AmdRight(t, c, state) ==
    IF state = "ended" THEN t.buffered = 0 /\ t.sent =< AmdCounted(t.first, c)
    ELSE t.sent + t.buffered = AmdCounted(t.first, c)

\* The first value is read with the first value stored, which no counter is below, and the
\* energy told is the difference between the two ends.
AmdInv ==
    /\ amdEnergy \in [AmdIds -> Nat]
    /\ amdCounters \in [AmdIds -> Nat \union {Unseen}]
    /\ amdTold \in [AmdIds -> AmdPoint]
    /\ \A i \in AmdIds : /\ amdCounters[i] = Unseen <=> amdTold[i].first = Unseen
                         /\ amdCounters[i] =< amdEnergy[i]
    /\ AmdEnergyIsTold

\* The invariant holds initially.
LEMMA AmdInitOK == AmdInit => AmdInv
  <1> SUFFICES ASSUME AmdInit PROVE AmdInv
    OBVIOUS
  <1>1. /\ amdEnergy \in [AmdIds -> Nat]
        /\ amdCounters \in [AmdIds -> Nat \union {Unseen}]
        /\ amdTold \in [AmdIds -> AmdPoint]
    BY DEF AmdInit, Unseen, AmdPoint
  <1>2. \A i \in AmdIds : /\ amdCounters[i] = Unseen /\ amdEnergy[i] = 0
                         /\ amdTold[i] = [first |-> Unseen, buffered |-> 0, sent |-> 0]
    BY DEF AmdInit
  <1>3. AmdEnergyIsTold
    BY <1>2 DEF AmdEnergyIsTold, AmdCounted, AmdInit
  <1> QED BY <1>1, <1>2, <1>3 DEF AmdInv, Unseen

\* What a device has told when the loop ends, before the task looks at the result.
LEMMA AmdPushedIsRight ==
    ASSUME AmdInv, NEW i \in AmdIds, NEW failing, AmdRight(amdTold[i], amdCounters[i], "polling"),
           NEW c, c = IF i \in EnergyRead(failing) THEN amdEnergy[i] ELSE amdCounters[i]
    PROVE  /\ c \in Nat \union {Unseen} /\ c =< amdEnergy[i]
           /\ AmdPushed(i, failing) \in AmdPoint
           /\ c = Unseen <=> AmdPushed(i, failing).first = Unseen
           /\ AmdRight(AmdPushed(i, failing), c, "polling")
  <1> DEFINE t == amdTold[i]
             n == amdEnergy[i]
             p == amdCounters[i]
             u == AmdPushed(i, failing)
  <1>1. /\ n \in Nat /\ p \in Nat \union {Unseen} /\ p =< n /\ t \in AmdPoint
        /\ (p = Unseen <=> t.first = Unseen)
        /\ t.sent + t.buffered = AmdCounted(t.first, p)
    BY DEF AmdInv, AmdRight
  <1>2. CASE i \notin EnergyRead(failing)
    <2>1. u = t /\ c = p
      BY <1>2 DEF AmdPushed
    <2> HIDE DEF t, n, p, u
    <2>2. /\ c \in Nat \union {Unseen} /\ c =< n /\ u \in AmdPoint /\ (c = Unseen <=> u.first = Unseen)
          /\ AmdRight(u, c, "polling")
      BY <1>1, <2>1 DEF AmdRight
    <2> QED BY <2>2 DEF n, u
  <1>3. CASE i \in EnergyRead(failing)
    <2> DEFINE diff == IF p = Unseen THEN 0 ELSE n - p
               f == IF t.first = Unseen THEN n ELSE t.first
    <2>1. u = [first |-> f, buffered |-> t.buffered + diff, sent |-> t.sent] /\ c = n
      BY <1>3 DEF AmdPushed, AmdDifference, Previous
    <2>2. diff \in Nat /\ f \in Nat /\ n # Unseen /\ f # Unseen
      <3> HIDE DEF t, n, p
      <3> QED BY <1>1 DEF Unseen, AmdPoint
    <2> HIDE DEF t, n, p, u, f, diff
    <2>3. u \in AmdPoint /\ u.first = f /\ u.sent = t.sent /\ u.buffered = t.buffered + diff
      BY <1>1, <2>1, <2>2 DEF AmdPoint
    <2>4. u.sent + u.buffered = n - f
      <3>1. CASE p = Unseen
        <4>1. diff = 0 /\ f = n /\ t.sent + t.buffered = 0
          BY <1>1, <3>1 DEF diff, f, AmdCounted
        <4> QED BY <1>1, <2>3, <4>1 DEF AmdPoint
      <3>2. CASE p # Unseen
        <4>1. diff = n - p /\ f = t.first /\ t.sent + t.buffered = p - t.first
          BY <1>1, <3>2 DEF diff, f, AmdCounted
        <4> QED BY <1>1, <2>2, <2>3, <3>2, <4>1 DEF AmdPoint
      <3> QED BY <3>1, <3>2
    <2>5. /\ c \in Nat \union {Unseen} /\ c =< n /\ u \in AmdPoint /\ (c = Unseen <=> u.first = Unseen)
          /\ AmdRight(u, c, "polling")
      BY <1>1, <2>1, <2>2, <2>3, <2>4 DEF AmdRight, AmdCounted
    <2> QED BY <2>5 DEF n, u
  <1> QED BY <1>2, <1>3

\* The buffer of the source after a poll: dropped, sent or kept.
LEMMA AfterAmdPollIsRight ==
    ASSUME NEW t \in AmdPoint, NEW c, AmdRight(t, c, "polling"), NEW fatal \in BOOLEAN, NEW flush \in BOOLEAN
    PROVE  /\ AfterAmdPoll(t, fatal, flush) \in AmdPoint
           /\ AfterAmdPoll(t, fatal, flush).first = t.first
           /\ AmdRight(AfterAmdPoll(t, fatal, flush), c, IF fatal THEN "ended" ELSE "polling")
  <1>1. t.sent + t.buffered = AmdCounted(t.first, c)
    BY DEF AmdRight
  <1>2. CASE fatal
    <2>1. AfterAmdPoll(t, fatal, flush) = [t EXCEPT !.buffered = 0]
      BY <1>2 DEF AfterAmdPoll
    <2>2. [t EXCEPT !.buffered = 0] \in AmdPoint
      BY DEF AmdPoint
    <2>3. t.sent =< AmdCounted(t.first, c)
      BY <1>1 DEF AmdPoint
    <2> QED BY <1>2, <2>1, <2>2, <2>3 DEF AmdRight, AmdPoint
  <1>3. CASE ~fatal /\ flush
    <2>1. AfterAmdPoll(t, fatal, flush) = [first |-> t.first, buffered |-> 0, sent |-> t.sent + t.buffered]
      BY <1>3 DEF AfterAmdPoll
    <2>2. [first |-> t.first, buffered |-> 0, sent |-> t.sent + t.buffered] \in AmdPoint
      BY DEF AmdPoint
    <2> DEFINE u == [first |-> t.first, buffered |-> 0, sent |-> t.sent + t.buffered]
    <2>3. u.sent + u.buffered = t.sent + t.buffered /\ u.first = t.first
      BY DEF AmdPoint
    <2> HIDE DEF u
    <2>4. u.sent + u.buffered = AmdCounted(u.first, c)
      BY <1>1, <2>3
    <2>5. AmdRight(u, c, "polling")
      BY <2>4 DEF AmdRight
    <2>6. AfterAmdPoll(t, fatal, flush) = u /\ u \in AmdPoint
      BY <2>1, <2>2 DEF u
    <2> QED BY <1>3, <2>3, <2>5, <2>6
  <1>4. CASE ~fatal /\ ~flush
    BY <1>4 DEF AfterAmdPoll
  <1> QED BY <1>2, <1>3, <1>4

\* The step PollAmd keeps the invariant.
LEMMA PollAmdKeepsInv == ASSUME AmdInv, NEW failing, NEW flush \in BOOLEAN, PollAmd(failing, flush) PROVE AmdInv'
  <1> DEFINE R == EnergyRead(failing)
             fatal == \E i \in DOMAIN amdDevices : EndsPoll(i, failing)
  <1>1. /\ amd = "polling"
        /\ amdCounters' = [i \in AmdIds |-> IF i \in R THEN amdEnergy[i] ELSE amdCounters[i]]
        /\ amdTold' = [i \in AmdIds |-> AfterAmdPoll(AmdPushed(i, failing), fatal, flush)]
        /\ amdEnergy' = amdEnergy
        /\ amd' = IF fatal THEN "ended" ELSE "polling"
    BY DEF PollAmd
  <1>2. fatal \in BOOLEAN
    OBVIOUS
  <1> HIDE DEF fatal
  <1>3. ASSUME NEW i \in AmdIds
        PROVE  /\ amdCounters'[i] \in Nat \union {Unseen}
               /\ amdTold'[i] \in AmdPoint
               /\ (amdCounters'[i] = Unseen <=> amdTold'[i].first = Unseen)
               /\ amdCounters'[i] =< amdEnergy'[i]
               /\ AmdRight(amdTold'[i], amdCounters'[i], amd')
    <2> DEFINE c == IF i \in R THEN amdEnergy[i] ELSE amdCounters[i]
               u == AmdPushed(i, failing)
    <2>1. AmdRight(amdTold[i], amdCounters[i], "polling")
      BY <1>1 DEF AmdInv, AmdEnergyIsTold, AmdRight
    <2>2. /\ c \in Nat \union {Unseen} /\ c =< amdEnergy[i] /\ u \in AmdPoint
          /\ (c = Unseen <=> u.first = Unseen) /\ AmdRight(u, c, "polling")
      BY <2>1, AmdPushedIsRight
    <2>3. amdCounters'[i] = c /\ amdTold'[i] = AfterAmdPoll(u, fatal, flush)
      BY <1>1
    <2> HIDE DEF c, u
    <2>4. /\ amdTold'[i] \in AmdPoint /\ amdTold'[i].first = u.first
          /\ AmdRight(amdTold'[i], c, IF fatal THEN "ended" ELSE "polling")
      BY <1>2, <2>2, <2>3, AfterAmdPollIsRight
    <2> QED BY <1>1, <2>2, <2>3, <2>4
  <1>4. amdCounters' \in [AmdIds -> Nat \union {Unseen}] /\ amdTold' \in [AmdIds -> AmdPoint]
    BY <1>1, <1>3
  <1>5. AmdEnergyIsTold'
    BY <1>3 DEF AmdEnergyIsTold, AmdRight
  <1>6. amdEnergy' \in [AmdIds -> Nat]
    BY <1>1 DEF AmdInv
  <1> QED BY <1>3, <1>4, <1>5, <1>6 DEF AmdInv

\* The step AmdConsumes keeps the invariant.
LEMMA AmdConsumesKeepsInv == ASSUME AmdInv, NEW i \in AmdIds, AmdConsumes(i) PROVE AmdInv'
  <1>1. /\ amdEnergy' \in [AmdIds -> Nat]
        /\ \A j \in AmdIds : amdCounters[j] =< amdEnergy'[j]
    BY DEF AmdInv, AmdConsumes, Unseen
  <1> QED BY <1>1 DEF AmdInv, AmdConsumes, AmdEnergyIsTold

\* A step that leaves the counters alone keeps the invariant, if the source does not end.
LEMMA AmdStays ==
    ASSUME AmdInv, UNCHANGED <<amdCounters, amdEnergy, amdTold>>, amd' = "ended" <=> amd = "ended"
    PROVE  AmdInv'
  BY DEF AmdInv, AmdEnergyIsTold

\* Every step keeps the invariant of the AMD source.
LEMMA AmdStep == AmdInv /\ [AmdNext]_amdVars => AmdInv'
  <1> SUFFICES ASSUME AmdInv, [AmdNext]_amdVars PROVE AmdInv'
    OBVIOUS
  <1>1. CASE AmdNext
    <2>1. ASSUME NEW given, NEW ids, NEW skipFailed, StartAmd(given, ids, skipFailed) PROVE AmdInv'
      <3>1. UNCHANGED <<amdCounters, amdEnergy, amdTold>> /\ amd # "ended" /\ amd' # "ended"
        BY <2>1 DEF StartAmd
      <3> QED BY <3>1, AmdStays
    <2> QED BY <1>1, <2>1, PollAmdKeepsInv, AmdConsumesKeepsInv DEF AmdNext
  <1>2. CASE UNCHANGED amdVars
    BY <1>2, AmdStays DEF amdVars
  <1> QED BY <1>1, <1>2

\* The energy that the AMD source tells is what the devices consumed, but for what its buffer
\* holds when it ends.
THEOREM AmdTellsEnergy == AmdSpec => []AmdEnergyIsTold
  <1>1. AmdInv => AmdEnergyIsTold
    BY DEF AmdInv
  <1> QED BY <1>1, AmdInitOK, AmdStep, PTL DEF AmdSpec

-------------------------------------------------------------------------------
(* The source of a control group.                                             *)

Instant == Nat \union {Never}

StatTyped ==
    /\ DOMAIN stat = {"lines", "wanted", "index"}
    /\ stat.lines \in Seq(StatKeys \union {"blank", "other"})

ProbeTyped ==
    /\ cpu \in [now : Nat, seen : Instant]
    /\ clock \in [now : Nat, last : Instant, wentBack : BOOLEAN]
    /\ cpuTold \in [first : Int, sum : Int, difference : Int, interval : Int, readAt : Int, span : Int]
    /\ StatTyped

\* The clock is ahead of the last poll, unless it was set back.
ClockIsAhead == ~clock.wentBack => clock.last =< clock.now

\* The processor time and the timestamp are of the same poll.
ReadTogether ==
    /\ probing \in {"none", "opening"} => cpu.seen = Never
    /\ probing = "polling" /\ cpu.seen # Never =>
          clock.last # Never /\ cpuTold.readAt = clock.last /\ openFiles \intersect CpuFiles # {}

\* The line of a key is remembered if the key is wanted, and it is one of the first lines.
Indexed(k) ==
    LET n == stat.index[k] IN
    \/ n = Never /\ (k \notin stat.wanted \/ \A i \in 1..Len(stat.lines) : stat.lines[i] # k)
    \/ /\ k \in stat.wanted /\ n \in 0..(LineLimit - 1) /\ n + 1 =< Len(stat.lines)
       /\ \A i \in 1..Len(stat.lines) : stat.lines[i] = k <=> i = n + 1

ProbeInv ==
    /\ ProbeTyped /\ ClockIsAhead /\ ReadTogether
    /\ \A k \in StatKeys : Indexed(k)
    /\ RemovalIsNormal /\ CpuTimeIsTold

\* The invariant holds initially.
LEMMA ProbeInitOK == CgroupProbeInit => ProbeInv
  <1> SUFFICES ASSUME CgroupProbeInit PROVE ProbeInv
    OBVIOUS
  <1>1. ProbeTyped
    BY DEF CgroupProbeInit, ProbeTyped, StatTyped, Instant, Never, NothingTold, NoStat
  <1>2. ClockIsAhead /\ ReadTogether /\ RemovalIsNormal /\ CpuTimeIsTold
    BY DEF CgroupProbeInit, ClockIsAhead, ReadTogether, RemovalIsNormal, CpuTimeIsTold, Never,
           NothingTold
  <1>3. \A k \in StatKeys : Indexed(k)
    BY DEF CgroupProbeInit, Indexed, NoStat, Never
  <1> QED BY <1>1, <1>2, <1>3 DEF ProbeInv

-------------------------------------------------------------------------------
(* The statistics.                                                            *)

LEMMA LineNumberOfLow ==
    ASSUME NEW i \in Nat, i < 2 * LineLimit
    PROVE  LineNumber(i) = i /\ (i < LineLimit => LineNumber(i) % LineLimit = i)
  <1>1. LineLimit \in Nat \ {0}
    BY CgroupProbeAssumption
  <1> QED BY <1>1 DEF LineNumber

\* The lines of a collector that remembers its keys are read back.
LEMMA IndexedStatsAreRight ==
    ASSUME ProbeTyped, \A k \in StatKeys : Indexed(k)
    PROVE  StatsAreRight
  <1> SUFFICES ASSUME Len(stat.lines) =< 2 * LineLimit, NEW k \in StatKeys
               PROVE  IF k \in stat.wanted /\ k \in ToSet(stat.lines)
                      THEN ReadStat[k] # Never /\ stat.lines[ReadStat[k] + 1] = k
                      ELSE ReadStat[k] = Never
    BY DEF StatsAreRight
  <1> DEFINE n == stat.index[k]
             N == Len(stat.lines)
             at == {i \in 0..(N - 1) : Selected(i) /\ LineNumber(i) = n}
  <1>0. LineLimit \in Nat \ {0} /\ N \in Nat
    BY CgroupProbeAssumption DEF ProbeTyped, StatTyped
  <1>1. ReadStat[k] = IF at = {} THEN Never ELSE CHOOSE i \in at : \A j \in at : j <= i
    BY DEF ReadStat
  <1>2. k \in ToSet(stat.lines) <=> \E i \in 1..N : stat.lines[i] = k
    BY DEF ToSet, ProbeTyped, StatTyped
  <1>3. \A i \in 0..(N - 1) : LineNumber(i) = i
    BY <1>0, LineNumberOfLow
  <1>4. CASE n = Never /\ (k \notin stat.wanted \/ \A i \in 1..N : stat.lines[i] # k)
    <2>1. at = {}
      BY <1>0, <1>3, <1>4 DEF Never
    <2> QED BY <1>1, <1>2, <1>4, <2>1
  <1>5. CASE /\ k \in stat.wanted /\ n \in 0..(LineLimit - 1) /\ n + 1 =< N
             /\ \A i \in 1..N : stat.lines[i] = k <=> i = n + 1
    <2>1. n \in 0..(N - 1) /\ LineNumber(n) = n /\ LineNumber(n) % LineLimit = n
      <3>1. n \in 0..(LineLimit - 1) /\ n + 1 =< N
        BY <1>5
      <3> HIDE DEF n, N
      <3>2. n \in Nat /\ n < LineLimit /\ n < 2 * LineLimit /\ n \in 0..(N - 1)
        BY <1>0, <3>1
      <3> QED BY <3>2, LineNumberOfLow
    <2>2. n \in Remembered
      BY <1>5 DEF Remembered, Never
    <2>3. Selected(n)
      BY <2>1, <2>2 DEF Selected
    <2>4. at = {n}
      BY <1>3, <2>1, <2>3
    <2>5. ReadStat[k] = n
      BY <1>1, <2>1, <2>4
    <2>6. n + 1 \in 1..N
      <3> HIDE DEF n, N
      <3> QED BY <1>0, <2>1
    <2>7. stat.lines[n + 1] = k /\ n # Never
      BY <1>5, <2>1, <2>6 DEF Never
    <2> QED BY <2>5, <2>7, <1>2, <1>5, <2>6
  <1> QED BY <1>4, <1>5 DEF ProbeInv, Indexed

\* A stat file that the set of lines can hold.
LEMMA BuiltStatIsIndexed ==
    ASSUME NEW lines \in StatLines, Len(lines) < LineLimit, NEW wanted,
           stat' = BuiltStat(lines, wanted)
    PROVE  /\ StatTyped'
           /\ \A k \in StatKeys : Indexed(k)'
  <1> DEFINE S == StatKeys \union {"blank"}
  <1>0. LineLimit \in Nat \ {0}
    BY CgroupProbeAssumption
  <1>1. lines \in BoundedSeq(S, LineLimit)
    BY DEF StatLines
  <1>2. PICK m \in 0..LineLimit : lines \in [1..m -> S]
    BY <1>1 DEF BoundedSeq, SeqOf
  <1>3. lines \in Seq(S) /\ Len(lines) = m
    BY <1>0, <1>2
  <1>4. \A i, j \in 1..m : lines[i] = lines[j] /\ i # j => lines[i] = "blank"
    BY <1>2 DEF StatLines
  <1>5. /\ stat'.lines = lines /\ stat'.wanted = wanted
        /\ stat'.index = [k \in StatKeys |-> IF k \in wanted THEN LineOf(lines, k) ELSE Never]
    BY DEF BuiltStat, NoStat
  <1>6. StatTyped'
    <2>1. DOMAIN stat' = {"lines", "wanted", "index"}
      BY DEF BuiltStat, NoStat
    <2> QED BY <1>0, <1>2, <1>3, <1>5, <2>1 DEF StatTyped
  <1>7. ASSUME NEW k \in StatKeys
        PROVE  Indexed(k)'
    <2> DEFINE n == stat'.index[k]
    <2>0. DOMAIN lines = 1..m /\ k # "blank"
      BY <1>2, CgroupProbeAssumption
    <2>1. CASE k \notin wanted \/ \A i \in 1..m : lines[i] # k
      <3>1. n = Never
        BY <1>5, <2>0, <2>1 DEF LineOf
      <3> QED BY <1>3, <1>5, <2>1, <3>1 DEF Indexed
    <2>2. CASE k \in wanted /\ \E i \in 1..m : lines[i] = k
      <3>1. PICK i \in 1..m : lines[i] = k
        BY <2>2
      <3>2. \A j \in 1..m : lines[j] = k <=> j = i
        BY <1>4, <2>0, <3>1
      <3>3. (CHOOSE j \in DOMAIN lines : lines[j] = k) = i
        BY <2>0, <3>1, <3>2
      <3>4. n = i - 1
        <4>1. \E j \in DOMAIN lines : lines[j] = k
          BY <2>0, <2>2
        <4>2. LineOf(lines, k) = (CHOOSE j \in DOMAIN lines : lines[j] = k) - 1
          BY <4>1 DEF LineOf
        <4>3. n = LineOf(lines, k)
          BY <1>5, <2>2
        <4> QED BY <3>3, <4>2, <4>3
      <3>5. n \in 0..(LineLimit - 1) /\ n + 1 = i
        BY <1>0, <1>2, <1>3, <3>1, <3>4
      <3>6. n + 1 =< m /\ \A j \in 1..m : lines[j] = k <=> j = n + 1
        BY <3>1, <3>2, <3>5
      <3> HIDE DEF n
      <3>7. /\ k \in stat'.wanted /\ n \in 0..(LineLimit - 1) /\ n + 1 =< Len(stat'.lines)
            /\ \A j \in 1..Len(stat'.lines) : stat'.lines[j] = k <=> j = n + 1
        BY <1>3, <1>5, <2>2, <3>5, <3>6
      <3> QED BY <3>7 DEF Indexed, n
    <2> QED BY <2>1, <2>2
  <1> QED BY <1>6, <1>7

-------------------------------------------------------------------------------
(* The steps.                                                                 *)

LEMMA SameStat ==
    ASSUME ProbeInv, stat' = stat
    PROVE  /\ StatTyped'
           /\ \A k \in StatKeys : Indexed(k)'
  BY DEF ProbeInv, ProbeTyped, StatTyped, Indexed

\* Before the polls.
LEMMA OpeningKeepsInv ==
    ASSUME ProbeInv, UNCHANGED <<cpu, clock, cpuTold>>,
           probing \in {"none", "opening"}, probing' \in {"opening", "polling", "refused"},
           StatTyped',
           \A k \in StatKeys : Indexed(k)'
    PROVE  ProbeInv'
  <1>1. ProbeTyped' /\ ClockIsAhead'
    BY DEF ProbeInv, ProbeTyped, ClockIsAhead
  <1>2. ReadTogether' /\ RemovalIsNormal' /\ CpuTimeIsTold'
    BY DEF ProbeInv, ReadTogether, RemovalIsNormal, CpuTimeIsTold
  <1> QED BY <1>1, <1>2 DEF ProbeInv

\* The step NewProbe keeps the invariant.
LEMMA NewProbeKeepsInv == ASSUME ProbeInv, NEW version, NEW files, NewProbe(version, files) PROVE ProbeInv'
  <1>1. /\ UNCHANGED <<cpu, clock, cpuTold, stat>>
        /\ probing = "none" /\ probing' \in {"opening", "polling"}
    BY DEF NewProbe
  <1> QED BY <1>1, SameStat, OpeningKeepsInv

\* The step OpenNext keeps the invariant.
LEMMA OpenNextKeepsInv ==
    ASSUME ProbeInv, NEW missing, NEW settings, NEW lines \in StatLines,
           OpenNext(missing, settings, lines)
    PROVE  ProbeInv'
  <1> DEFINE f == Head(toOpen)
             refuses == \/ missing /\ group.version = 1
                        \/ ~missing /\ f = "memory.stat" /\ Len(lines) >= LineLimit
             built == ~missing /\ f = "memory.stat" /\ ~refuses
  <1>1. /\ UNCHANGED <<cpu, clock, cpuTold>>
        /\ probing = "opening" /\ probing' \in {"opening", "polling", "refused"}
        /\ stat' = IF built THEN BuiltStat(lines, EnabledKeys(settings)) ELSE stat
    BY DEF OpenNext
  <1>2. built => ~(Len(lines) >= LineLimit)
    OBVIOUS
  <1>3. Len(lines) \in Nat /\ LineLimit \in Nat
    <2>1. LineLimit \in Nat
      BY CgroupProbeAssumption
    <2>2. PICK m \in 0..LineLimit : lines \in [1..m -> StatKeys \union {"blank"}]
      BY DEF StatLines, BoundedSeq, SeqOf
    <2> QED BY <2>1, <2>2
  <1>4. built => Len(lines) < LineLimit
    BY <1>2, <1>3
  <1> HIDE DEF built
  <1>5. /\ StatTyped'
        /\ \A k \in StatKeys : Indexed(k)'
    <2>1. CASE built
      BY <1>1, <1>4, <2>1, BuiltStatIsIndexed
    <2>2. CASE ~built
      BY <1>1, <2>2, SameStat
    <2> QED BY <2>1, <2>2
  <1> QED BY <1>1, <1>5, OpeningKeepsInv

\* The step OpenRemoved keeps the invariant.
LEMMA OpenRemovedKeepsInv == ASSUME ProbeInv, OpenRemoved PROVE ProbeInv'
  <1>1. UNCHANGED <<cpu, clock, cpuTold, stat>> /\ probing = "opening" /\ probing' = "refused"
    BY DEF OpenRemoved
  <1> QED BY <1>1, SameStat, OpeningKeepsInv

\* The step PollProbe keeps the invariant.
LEMMA PollProbeKeepsInv == ASSUME ProbeInv, PollProbe PROVE ProbeInv'
  <1> DEFINE interval == IF clock.last = Never THEN Never ELSE clock.now - clock.last
             isBack == clock.last # Never /\ clock.now < clock.last
             isGone == openFiles # {} /\ ~group.there
  <1>1. /\ clock' = [clock EXCEPT !.last = clock.now]
        /\ probing = "polling" /\ openFiles' = openFiles /\ stat' = stat
        /\ isBack => probing' = "fatal" /\ UNCHANGED <<cpu, cpuTold>>
        /\ ~isBack /\ isGone => probing' = EndOf("ENODEV") /\ UNCHANGED <<cpu, cpuTold>>
        /\ ~isBack /\ ~isGone => probing' = probing /\ Measure(interval)
    BY DEF PollProbe
  <1>2. /\ clock.now \in Nat /\ clock.last \in Nat \union {Never}
        /\ cpu.now \in Nat /\ cpu.seen \in Nat \union {Never}
        /\ cpu \in [now : Nat, seen : Instant]
        /\ clock' \in [now : Nat, last : Instant, wentBack : BOOLEAN]
        /\ clock'.last = clock.now /\ clock'.now = clock.now /\ clock'.wentBack = clock.wentBack
        /\ clock.now # Never /\ cpu.now # Never
    BY <1>1 DEF ProbeInv, ProbeTyped, Instant, Never
  <1>3. ClockIsAhead'
    BY <1>2 DEF ClockIsAhead
  <1>4. StatTyped' /\ \A k \in StatKeys : Indexed(k)'
    BY <1>1, SameStat
  <1>5. RemovalIsNormal'
    <2>1. EndOf("ENODEV") # "fatal"
      BY DEF EndOf
    <2>2. isBack => clock.wentBack
      BY <1>2 DEF ProbeInv, ClockIsAhead
    <2> QED BY <1>1, <1>2, <2>1, <2>2 DEF RemovalIsNormal
  <1>6. CASE cpu' = cpu /\ cpuTold' = cpuTold /\ (probing' = "polling" => openFiles \intersect CpuFiles = {})
    <2>1. ReadTogether' /\ CpuTimeIsTold'
      <3>1. EndOf("ENODEV") \notin {"none", "opening"}
        BY DEF EndOf
      <3>2. probing' \notin {"none", "opening"}
        BY <1>1, <3>1
      <3> QED BY <1>1, <1>6, <3>2 DEF ProbeInv, ReadTogether, CpuTimeIsTold
    <2>2. ProbeTyped'
      BY <1>2, <1>4, <1>6 DEF ProbeInv, ProbeTyped
    <2> QED BY <1>3, <1>4, <1>5, <2>1, <2>2 DEF ProbeInv
  <1>7. CASE /\ probing' = "polling" /\ openFiles \intersect CpuFiles # {}
             /\ cpu' = [cpu EXCEPT !.seen = cpu.now]
             /\ cpuTold' = [first |-> IF cpu.seen = Never THEN cpu.now ELSE cpuTold.first,
                            sum |-> IF cpu.seen = Never THEN 0 ELSE cpuTold.sum + CpuDifference,
                            difference |-> CpuDifference,
                            interval |-> IF cpu.seen = Never THEN Never ELSE interval,
                            readAt |-> clock.now,
                            span |-> IF cpu.seen = Never THEN Never ELSE clock.now - cpuTold.readAt]
    <2>1. /\ cpuTold.first \in Int /\ cpuTold.sum \in Int /\ cpuTold.readAt \in Int
          /\ cpuTold.sum = IF cpu.seen = Never THEN 0 ELSE cpu.seen - cpuTold.first
          /\ cpu.seen # Never => clock.last # Never /\ cpuTold.readAt = clock.last
      BY <1>1 DEF ProbeInv, ProbeTyped, CpuTimeIsTold, ReadTogether
    <2>2. /\ cpu'.seen = cpu.now /\ cpu' \in [now : Nat, seen : Instant]
      BY <1>2, <1>7 DEF Instant
    <2>3. /\ cpuTold'.sum = IF cpu.seen = Never THEN 0 ELSE cpuTold.sum + (cpu.now - cpu.seen)
          /\ cpuTold'.first = IF cpu.seen = Never THEN cpu.now ELSE cpuTold.first
          /\ cpuTold'.interval = IF cpu.seen = Never THEN Never ELSE interval
          /\ cpuTold'.span = IF cpu.seen = Never THEN Never ELSE clock.now - cpuTold.readAt
          /\ cpuTold'.readAt = clock.now
      BY <1>7 DEF CpuDifference
    <2>4. CpuTimeIsTold'
      <3>1. cpuTold'.sum = cpu'.seen - cpuTold'.first
        BY <1>2, <2>1, <2>2, <2>3 DEF Never
      <3>2. cpuTold'.interval = cpuTold'.span
        BY <1>2, <2>1, <2>3
      <3> QED BY <1>2, <2>2, <3>1, <3>2 DEF CpuTimeIsTold
    <2>5. ReadTogether'
      BY <1>1, <1>2, <1>7, <2>2, <2>3 DEF ReadTogether
    <2>6. ProbeTyped'
      <3>1. CpuDifference \in Int /\ interval \in Int /\ Never \in Int
        BY <1>2 DEF CpuDifference, Never
      <3> HIDE DEF interval
      <3>2. cpuTold' \in [first : Int, sum : Int, difference : Int, interval : Int, readAt : Int, span : Int]
        BY <1>2, <1>7, <2>1, <3>1
      <3> QED BY <1>2, <1>4, <2>2, <3>2 DEF ProbeTyped
    <2> QED BY <1>3, <1>4, <1>5, <2>4, <2>5, <2>6 DEF ProbeInv
  <1>8. EndOf("ENODEV") # "polling"
    BY DEF EndOf
  <1> QED BY <1>1, <1>6, <1>7, <1>8 DEF Measure

\* The step ResetProbe keeps the invariant.
LEMMA ResetProbeKeepsInv == ASSUME ProbeInv, ResetProbe PROVE ProbeInv'
  <1>1. /\ cpu' = [cpu EXCEPT !.seen = Never] /\ clock' = [clock EXCEPT !.last = Never]
        /\ cpuTold' = NothingTold /\ UNCHANGED <<group, probing, toOpen, openFiles, stat>>
    BY DEF ResetProbe
  <1>2. /\ cpu' \in [now : Nat, seen : Instant] /\ cpu'.seen = Never
        /\ clock' \in [now : Nat, last : Instant, wentBack : BOOLEAN]
        /\ clock'.last = Never /\ clock'.now \in Nat
        /\ clock'.wentBack = clock.wentBack
    BY <1>1 DEF ProbeInv, ProbeTyped, Instant
  <1>3. ProbeTyped' /\ \A k \in StatKeys : Indexed(k)'
    BY <1>1, <1>2, SameStat DEF ProbeTyped, NothingTold, Never
  <1>4. ClockIsAhead' /\ ReadTogether' /\ CpuTimeIsTold'
    BY <1>1, <1>2 DEF ClockIsAhead, ReadTogether, CpuTimeIsTold, NothingTold, Never
  <1>5. RemovalIsNormal'
    BY <1>1, <1>2 DEF ProbeInv, RemovalIsNormal
  <1> QED BY <1>3, <1>4, <1>5 DEF ProbeInv

\* The step RemoveGroup keeps the invariant.
LEMMA RemoveGroupKeepsInv == ASSUME ProbeInv, RemoveGroup PROVE ProbeInv'
  <1>1. UNCHANGED <<probing, toOpen, openFiles, stat, cpu, clock, cpuTold>>
    BY DEF RemoveGroup
  <1> QED BY <1>1, SameStat
      DEF ProbeInv, ProbeTyped, ClockIsAhead, ReadTogether, RemovalIsNormal, CpuTimeIsTold

\* The lines that are added hold no key.
LEMMA GrowStatKeepsInv == ASSUME ProbeInv, GrowStat PROVE ProbeInv'
  <1> DEFINE N == Len(stat.lines)
             more == [i \in 1..StatGrowth |-> "other"]
             S == StatKeys \union {"blank", "other"}
  <1>0. /\ StatGrowth \in Nat /\ stat.lines \in Seq(S) /\ N \in Nat
        /\ more \in Seq(S) /\ Len(more) = StatGrowth
    <2>1. StatGrowth \in Nat
      BY CgroupProbeAssumption
    <2>2. more \in Seq(S) /\ Len(more) = StatGrowth
      BY <2>1
    <2> QED BY <2>1, <2>2 DEF ProbeInv, ProbeTyped, StatTyped
  <1>1. /\ UNCHANGED <<group, probing, toOpen, openFiles, cpu, clock, cpuTold>>
        /\ stat' = [stat EXCEPT !.lines = stat.lines \o more]
    BY DEF GrowStat
  <1>2. /\ stat.lines \o more \in Seq(S)
        /\ Len(stat.lines \o more) = N + StatGrowth
        /\ \A i \in 1..N : (stat.lines \o more)[i] = stat.lines[i]
        /\ \A i \in 1..(N + StatGrowth) : i > N => (stat.lines \o more)[i] = "other"
    BY <1>0
  <1> DEFINE later == stat.lines \o more
  <1>3. CASE DOMAIN stat = {"lines", "wanted", "index"}
    <2>1. stat'.lines = later /\ stat'.wanted = stat.wanted /\ stat'.index = stat.index
      BY <1>1, <1>3
    <2> HIDE DEF later
    <2>2. ASSUME NEW k \in StatKeys PROVE Indexed(k)'
      <3> DEFINE n == stat.index[k]
      <3>0. k # "other"
        BY CgroupProbeAssumption
      <3>1. CASE n = Never /\ (k \notin stat.wanted \/ \A i \in 1..N : stat.lines[i] # k)
        <4>1. \A i \in 1..N : stat.lines[i] # k => \A j \in 1..(N + StatGrowth) : j = i => later[j] # k
          BY <1>2 DEF later
        <4>2. (\A i \in 1..N : stat.lines[i] # k) => \A i \in 1..(N + StatGrowth) : later[i] # k
          BY <1>0, <1>2, <3>0 DEF later
        <4>3. Len(later) = N + StatGrowth
          BY <1>2 DEF later
        <4> QED BY <2>1, <3>1, <4>2, <4>3 DEF Indexed
      <3>2. CASE /\ k \in stat.wanted /\ n \in 0..(LineLimit - 1) /\ n + 1 =< N
                 /\ \A i \in 1..N : stat.lines[i] = k <=> i = n + 1
        <4>1. Len(later) = N + StatGrowth /\ n + 1 =< Len(later)
          BY <1>0, <1>2, <3>2 DEF later
        <4>2. \A i \in 1..(N + StatGrowth) : later[i] = k <=> i = n + 1
          <5> SUFFICES ASSUME NEW i \in 1..(N + StatGrowth) PROVE later[i] = k <=> i = n + 1
            OBVIOUS
          <5>1. CASE i \in 1..N
            BY <1>2, <3>2, <5>1 DEF later
          <5>2. CASE i > N
            BY <1>0, <1>2, <3>0, <3>2, <5>2 DEF later
          <5> QED BY <1>0, <5>1, <5>2
        <4> QED BY <2>1, <3>2, <4>1, <4>2 DEF Indexed
      <3> QED BY <3>1, <3>2 DEF ProbeInv, Indexed
    <2>3. StatTyped'
      <3>1. stat'.lines \in Seq(S)
        BY <1>2, <2>1 DEF later
      <3>2. DOMAIN stat' = {"lines", "wanted", "index"}
        BY <1>1, <1>3
      <3> QED BY <3>1, <3>2 DEF StatTyped
    <2>4. /\ ProbeTyped' /\ ClockIsAhead' /\ ReadTogether'
          /\ RemovalIsNormal' /\ CpuTimeIsTold'
      BY <1>1, <2>3
         DEF ProbeInv, ProbeTyped, ClockIsAhead, ReadTogether, RemovalIsNormal, CpuTimeIsTold
    <2> QED BY <2>2, <2>4 DEF ProbeInv
  <1>4. DOMAIN stat = {"lines", "wanted", "index"}
    BY DEF ProbeInv, ProbeTyped, StatTyped
  <1> QED BY <1>3, <1>4

\* The step TimePasses keeps the invariant.
LEMMA TimePassesKeepsInv == ASSUME ProbeInv, NEW ran \in 0..1, TimePasses(ran) PROVE ProbeInv'
  <1>1. /\ clock' = [clock EXCEPT !.now = @ + 1] /\ cpu' = [cpu EXCEPT !.now = @ + ran]
        /\ UNCHANGED <<group, probing, toOpen, openFiles, stat, cpuTold>>
    BY DEF TimePasses
  <1>2. /\ cpu' \in [now : Nat, seen : Instant] /\ cpu'.seen = cpu.seen
        /\ clock' \in [now : Nat, last : Instant, wentBack : BOOLEAN]
        /\ clock'.last = clock.last /\ clock'.now = clock.now + 1
        /\ clock'.wentBack = clock.wentBack
    BY <1>1 DEF ProbeInv, ProbeTyped, Instant
  <1>3. ProbeTyped' /\ \A k \in StatKeys : Indexed(k)'
    BY <1>1, <1>2, SameStat DEF ProbeInv, ProbeTyped
  <1>4. ClockIsAhead'
    BY <1>2 DEF ProbeInv, ProbeTyped, Instant, Never, ClockIsAhead
  <1>5. ReadTogether' /\ CpuTimeIsTold' /\ RemovalIsNormal'
    BY <1>1, <1>2 DEF ProbeInv, ReadTogether, CpuTimeIsTold, RemovalIsNormal
  <1> QED BY <1>3, <1>4, <1>5 DEF ProbeInv

\* The step SetClockBack keeps the invariant.
LEMMA SetClockBackKeepsInv == ASSUME ProbeInv, SetClockBack PROVE ProbeInv'
  <1>1. /\ clock' = [clock EXCEPT !.now = 0, !.wentBack = TRUE]
        /\ UNCHANGED <<group, probing, toOpen, openFiles, stat, cpu, cpuTold>>
    BY DEF SetClockBack
  <1>2. /\ clock' \in [now : Nat, last : Instant, wentBack : BOOLEAN]
        /\ clock'.last = clock.last /\ clock'.wentBack
    BY <1>1 DEF ProbeInv, ProbeTyped, Instant
  <1>3. ProbeTyped' /\ \A k \in StatKeys : Indexed(k)'
    BY <1>1, <1>2, SameStat DEF ProbeInv, ProbeTyped
  <1>4. ClockIsAhead' /\ ReadTogether' /\ CpuTimeIsTold' /\ RemovalIsNormal'
    BY <1>1, <1>2 DEF ProbeInv, ClockIsAhead, ReadTogether, CpuTimeIsTold, RemovalIsNormal
  <1> QED BY <1>3, <1>4 DEF ProbeInv

\* Every step keeps the invariant of the probe of a control group.
LEMMA ProbeStep == ProbeInv /\ [CgroupProbeNext]_cgroupProbeVars => ProbeInv'
  <1> SUFFICES ASSUME ProbeInv, [CgroupProbeNext]_cgroupProbeVars PROVE ProbeInv'
    OBVIOUS
  <1>1. CASE CgroupProbeNext
    BY <1>1, NewProbeKeepsInv, OpenNextKeepsInv, OpenRemovedKeepsInv, PollProbeKeepsInv,
       ResetProbeKeepsInv, RemoveGroupKeepsInv, GrowStatKeepsInv, TimePassesKeepsInv,
       SetClockBackKeepsInv DEF CgroupProbeNext
  <1>2. CASE UNCHANGED cgroupProbeVars
    <2>1. UNCHANGED <<probing, openFiles, stat, cpu, clock, cpuTold>>
      BY <1>2 DEF cgroupProbeVars
    <2> QED BY <2>1, SameStat
        DEF ProbeInv, ProbeTyped, ClockIsAhead, ReadTogether, RemovalIsNormal, CpuTimeIsTold
  <1> QED BY <1>1, <1>2

\* The probe of a control group ends normally when the group is removed, tells its CPU time and the
\* right statistics.
THEOREM CgroupsAreTold == CgroupProbeSpec => [](RemovalIsNormal /\ CpuTimeIsTold /\ StatsAreRight)
  <1>1. ProbeInv => RemovalIsNormal /\ CpuTimeIsTold /\ StatsAreRight
    BY IndexedStatsAreRight DEF ProbeInv
  <1> QED BY <1>1, ProbeInitOK, ProbeStep, PTL DEF CgroupProbeSpec

-------------------------------------------------------------------------------
(* The processes.                                                             *)

ProcessSource ==
    [made : Nat, pc : {"none", "idle", "memory", "normal"}, prev : Nat \union {-1}, stat : Nat, told : Nat]

\* A source has told the whole time that it has read, and it has read no more than the
\* time of the process.
TimeIsRead(q, ticks) ==
    /\ q.pc = "memory" => q.stat =< ticks
    /\ q.told = IF q.prev = -1 THEN 0 ELSE q.prev
    /\ q.prev =< ticks

ProcWatcherInv ==
    /\ ticksOf \in [Incarnations -> Nat]
    /\ procProbes \in [Incarnations -> ProcessSource]
    /\ \A i \in Incarnations : TimeIsRead(procProbes[i], ticksOf[i])

\* The invariant holds initially.
LEMMA ProcWatcherInitOK == ProcWatcherInit => ProcWatcherInv
  <1> SUFFICES ASSUME ProcWatcherInit PROVE ProcWatcherInv
    OBVIOUS
  <1>1. ticksOf \in [Incarnations -> Nat]
    BY DEF ProcWatcherInit
  <1>2. NoProcProbe \in ProcessSource
    BY DEF NoProcProbe, ProcessSource
  <1>3. procProbes \in [Incarnations -> ProcessSource]
    BY <1>2 DEF ProcWatcherInit
  <1>4. \A i \in Incarnations : procProbes[i] = NoProcProbe
    BY DEF ProcWatcherInit
  <1>5. \A i \in Incarnations : TimeIsRead(procProbes[i], ticksOf[i])
    BY <1>1, <1>4 DEF TimeIsRead, NoProcProbe
  <1> QED BY <1>1, <1>3, <1>5 DEF ProcWatcherInv

\* A step that leaves the probes alone keeps the invariant.
LEMMA SourcesStay ==
    ASSUME ProcWatcherInv, UNCHANGED <<ticksOf, procProbes>>
    PROVE  ProcWatcherInv'
  BY DEF ProcWatcherInv

\* One source changes.
LEMMA SetProbeKeepsInv ==
    ASSUME ProcWatcherInv, NEW i \in Incarnations, NEW q \in ProcessSource,
           TimeIsRead(q, ticksOf[i]), SetProbe(i, q)
    PROVE  ProcWatcherInv'
  <1>1. procProbes' = [procProbes EXCEPT ![i] = q] /\ ticksOf' = ticksOf
    BY DEF SetProbe, procWorld
  <1>2. procProbes' \in [Incarnations -> ProcessSource]
    BY <1>1 DEF ProcWatcherInv
  <1>3. \A j \in Incarnations : procProbes'[j] = IF j = i THEN q ELSE procProbes[j]
    BY <1>1 DEF ProcWatcherInv
  <1>4. \A j \in Incarnations : TimeIsRead(procProbes'[j], ticksOf'[j])
    BY <1>1, <1>3 DEF ProcWatcherInv
  <1>5. ticksOf' \in [Incarnations -> Nat]
    BY <1>1 DEF ProcWatcherInv
  <1> QED BY <1>2, <1>4, <1>5 DEF ProcWatcherInv

\* The step PollStat keeps the invariant.
LEMMA PollStatKeepsInv == ASSUME ProcWatcherInv, NEW i \in Incarnations, PollStat(i) PROVE ProcWatcherInv'
  <1> DEFINE q == procProbes[i]
             read == [q EXCEPT !.pc = "memory", !.stat = ticksOf[i]]
             over == [q EXCEPT !.pc = NotFoundEnd]
  <1>1. SetProbe(i, IF Lives(i) THEN read ELSE over)
    BY DEF PollStat
  <1>2. q \in ProcessSource /\ ticksOf[i] \in Nat /\ TimeIsRead(q, ticksOf[i])
    BY DEF ProcWatcherInv
  <1> HIDE DEF q
  <1>3. read \in ProcessSource /\ TimeIsRead(read, ticksOf[i])
    <2>1. read \in ProcessSource
      BY <1>2 DEF ProcessSource
    <2>2. read.stat = ticksOf[i] /\ read.told = q.told /\ read.prev = q.prev
      BY <1>2 DEF ProcessSource
    <2> QED BY <1>2, <2>1, <2>2 DEF TimeIsRead
  <1>4. over \in ProcessSource /\ TimeIsRead(over, ticksOf[i])
    <2>1. over \in ProcessSource
      BY <1>2 DEF ProcessSource, NotFoundEnd
    <2>2. over.pc # "memory" /\ over.told = q.told /\ over.prev = q.prev
      BY <1>2 DEF ProcessSource, NotFoundEnd
    <2> QED BY <1>2, <2>1, <2>2 DEF TimeIsRead
  <1> HIDE DEF read, over
  <1> QED BY <1>1, <1>3, <1>4, SetProbeKeepsInv

\* The step PollMemory keeps the invariant.
LEMMA PollMemoryKeepsInv ==
    ASSUME ProcWatcherInv, NEW i \in Incarnations, PollMemory(i)
    PROVE  ProcWatcherInv'
  <1> DEFINE q == procProbes[i]
             done == [q EXCEPT !.pc = "idle", !.told = @ + CpuDelta(q), !.prev = q.stat]
             over == [q EXCEPT !.pc = NotFoundEnd]
             reads == Lives(i) /\ ~(slowMem /\ ProcessOf(i).kind = "kernel")
  <1>1. q.pc = "memory" /\ SetProbe(i, IF reads THEN done ELSE over)
    BY DEF PollMemory
  <1>2. q \in ProcessSource /\ ticksOf[i] \in Nat /\ TimeIsRead(q, ticksOf[i])
    BY DEF ProcWatcherInv
  <1> HIDE DEF q, reads
  <1>3. done \in ProcessSource /\ TimeIsRead(done, ticksOf[i])
    <2>1. /\ q.told + CpuDelta(q) = q.stat /\ q.stat \in Nat /\ q.stat =< ticksOf[i]
      BY <1>1, <1>2 DEF ProcessSource, TimeIsRead, CpuDelta
    <2> DEFINE t == q.told + CpuDelta(q)
    <2>2. t \in Nat
      BY <2>1
    <2> HIDE DEF t
    <2>3. done \in ProcessSource
      BY <1>2, <2>2 DEF ProcessSource, t
    <2>4. done.pc = "idle" /\ done.told = t /\ done.prev = q.stat
      BY <1>2 DEF ProcessSource, t
    <2>5. done.prev # -1
      BY <2>1, <2>4
    <2> QED BY <2>1, <2>3, <2>4, <2>5 DEF TimeIsRead, t
  <1>4. over \in ProcessSource /\ TimeIsRead(over, ticksOf[i])
    <2>1. over \in ProcessSource
      BY <1>2 DEF ProcessSource, NotFoundEnd
    <2>2. over.pc # "memory" /\ over.told = q.told /\ over.prev = q.prev
      BY <1>2 DEF ProcessSource, NotFoundEnd
    <2> QED BY <1>2, <2>1, <2>2 DEF TimeIsRead
  <1> HIDE DEF done, over
  <1> QED BY <1>1, <1>3, <1>4, SetProbeKeepsInv

\* The step HandleOrder keeps the invariant.
LEMMA HandleOrderKeepsInv == ASSUME ProcWatcherInv, HandleOrder PROVE ProcWatcherInv'
  <1> DEFINE o == Head(orders)
             made(q) == IF q.made = 0 THEN [q EXCEPT !.made = 1, !.pc = "idle"]
                        ELSE [q EXCEPT !.made = @ + 1]
             added(i) == IF i \notin o.incs THEN procProbes[i] ELSE made(procProbes[i])
  <1>1. ticksOf' = ticksOf
    BY DEF HandleOrder, procWorld
  <1>2. procProbes' = procProbes \/ procProbes' = [i \in Incarnations |-> added(i)]
    BY DEF HandleOrder
  <1>3. ASSUME NEW i \in Incarnations
        PROVE  added(i) \in ProcessSource /\ TimeIsRead(added(i), ticksOf[i])
    <2> DEFINE q == procProbes[i]
    <2>1. q \in ProcessSource /\ TimeIsRead(q, ticksOf[i])
      BY DEF ProcWatcherInv
    <2> HIDE DEF q
    <2>2. [q EXCEPT !.made = 1, !.pc = "idle"] \in ProcessSource
      BY <2>1 DEF ProcessSource
    <2>3. [q EXCEPT !.made = @ + 1] \in ProcessSource
      BY <2>1 DEF ProcessSource
    <2>4. made(q) \in ProcessSource
      BY <2>2, <2>3
    <2>5. /\ made(q).told = q.told /\ made(q).prev = q.prev /\ made(q).stat = q.stat
          /\ made(q).pc = "memory" => q.pc = "memory"
      BY <2>1 DEF ProcessSource
    <2>6. TimeIsRead(made(q), ticksOf[i])
      BY <2>1, <2>5 DEF TimeIsRead
    <2> QED BY <2>1, <2>4, <2>6 DEF q
  <1> HIDE DEF added
  <1>4. CASE procProbes' = procProbes
    BY <1>1, <1>4, SourcesStay
  <1>5. CASE procProbes' = [i \in Incarnations |-> added(i)]
    BY <1>1, <1>3, <1>5 DEF ProcWatcherInv
  <1> QED BY <1>2, <1>4, <1>5

\* The step RunProcess keeps the invariant.
LEMMA RunProcessKeepsInv == ASSUME ProcWatcherInv, NEW i \in Incarnations, RunProcess(i) PROVE ProcWatcherInv'
  <1>1. ticksOf' = [ticksOf EXCEPT ![i] = @ + 1] /\ procProbes' = procProbes
    BY DEF RunProcess
  <1>2. ticksOf' \in [Incarnations -> Nat] /\ \A j \in Incarnations : ticksOf[j] =< ticksOf'[j]
    BY <1>1 DEF ProcWatcherInv
  <1>3. ASSUME NEW j \in Incarnations PROVE TimeIsRead(procProbes'[j], ticksOf'[j])
    <2>1. procProbes[j] \in ProcessSource /\ TimeIsRead(procProbes[j], ticksOf[j])
      BY DEF ProcWatcherInv
    <2>2. ticksOf[j] \in Nat /\ ticksOf'[j] \in Nat /\ ticksOf[j] =< ticksOf'[j]
      BY <1>2 DEF ProcWatcherInv
    <2> QED BY <1>1, <2>1, <2>2 DEF TimeIsRead, ProcessSource
  <1> QED BY <1>1, <1>2, <1>3 DEF ProcWatcherInv

\* The other steps do not move the sources.
LEMMA OthersLeaveSources ==
    /\ StartRefresh \/ ReadProcStat \/ ApplyFilter \/ OpenProcess \/ EndRefresh =>
          UNCHANGED <<ticksOf, procProbes>>
    /\ \A p \in ProcPids : ListEntry(p) \/ StartMonitoring(p) \/ ExitProcess(p) \/ AdoptProcess(p) =>
          UNCHANGED <<ticksOf, procProbes>>
    /\ \A p \in ProcPids, k \in ProcKinds : ForkProcess(p, k) => UNCHANGED <<ticksOf, procProbes>>
  <1>1. StartRefresh \/ ReadProcStat \/ ApplyFilter \/ OpenProcess \/ EndRefresh =>
          UNCHANGED <<ticksOf, procProbes>>
    BY DEF StartRefresh, ReadProcStat, ApplyFilter, OpenProcess, EndRefresh, procWorld
  <1>2. ASSUME NEW p
        PROVE  ListEntry(p) \/ StartMonitoring(p) \/ ExitProcess(p) \/ AdoptProcess(p) =>
                  UNCHANGED <<ticksOf, procProbes>>
    BY DEF ListEntry, StartMonitoring, ExitProcess, AdoptProcess, procWorld
  <1>3. ASSUME NEW p, NEW k
        PROVE  ForkProcess(p, k) => UNCHANGED <<ticksOf, procProbes>>
    BY DEF ForkProcess
  <1> QED BY <1>1, <1>2, <1>3

\* Every step keeps the invariant of the watched processes.
LEMMA ProcWatcherStep == ProcWatcherInv /\ [ProcWatcherNext]_procWatcherVars => ProcWatcherInv'
  <1> SUFFICES ASSUME ProcWatcherInv, [ProcWatcherNext]_procWatcherVars PROVE ProcWatcherInv'
    OBVIOUS
  <1>1. CASE ProcWatcherNext
    BY <1>1, OthersLeaveSources, SourcesStay, HandleOrderKeepsInv, PollStatKeepsInv,
       PollMemoryKeepsInv, RunProcessKeepsInv DEF ProcWatcherNext
  <1>2. CASE UNCHANGED procWatcherVars
    BY <1>2, SourcesStay DEF procWatcherVars, procWorld
  <1> QED BY <1>1, <1>2

\* The invariant of the watched processes implies its two properties.
LEMMA ProcWatcherInvTells == ProcWatcherInv => ExitIsNormal /\ ProcessTimeIsTold
  <1> SUFFICES ASSUME ProcWatcherInv, NEW i \in Incarnations
               PROVE  /\ procProbes[i].pc # "fatal"
                      /\ procProbes[i].prev # -1 =>
                            procProbes[i].told = procProbes[i].prev /\ procProbes[i].told =< ticksOf[i]
    BY DEF ExitIsNormal, ProcessTimeIsTold
  <1>1. procProbes[i] \in ProcessSource /\ TimeIsRead(procProbes[i], ticksOf[i])
    BY DEF ProcWatcherInv
  <1> QED BY <1>1 DEF ProcessSource, TimeIsRead

\* The source of a process ends normally when the process exits, and tells its CPU time.
THEOREM ProcessesAreTold == ProcWatcherSpec => [](ExitIsNormal /\ ProcessTimeIsTold)
  BY ProcWatcherInitOK, ProcWatcherStep, ProcWatcherInvTells, PTL DEF ProcWatcherSpec

-------------------------------------------------------------------------------
(* The kernel and the network.                                                *)

ProcProbesTyped ==
    /\ kernelTime \in Nat /\ kernelPrev \in Nat \union {Absent}
    /\ kernelBase \in Nat \union {Absent} /\ kernelTold \in Int
    /\ traffic \in [Interfaces -> Nat \union {Absent}]
    /\ lastSeen = <<>> \/ lastSeen \in [Interfaces -> Nat \union {Absent}]
    /\ carried \in [Interfaces -> Int] /\ trafficTold \in [Interfaces -> Int]

\* What an interface has carried beyond its last poll.
Beyond(i) == IF traffic[i] = Absent THEN 0 ELSE traffic[i] - Origin(i)

\* The traffic told, and what is beyond it, is the traffic carried, until an interface
\* comes back unseen; and an interface that is gone since the last poll is known as such.
InterfaceIsTold(i) ==
    /\ lastSeen = <<>> => carried[i] = 0 /\ trafficTold[i] = 0
    /\ lastSeen # <<>> /\ i \notin recreated =>
          /\ trafficTold[i] + Beyond(i) = carried[i]
          /\ traffic[i] = Absent /\ lastSeen[i] # Absent => i \in blind

ProcProbesInv ==
    /\ ProcProbesTyped
    /\ kernelPrev = Absent => kernelTold = 0
    /\ KernelTimeIsTold
    /\ \A i \in Interfaces : InterfaceIsTold(i)

\* The invariant holds initially.
LEMMA ProcProbesInitOK == ProcProbesInit => ProcProbesInv
  <1> SUFFICES ASSUME ProcProbesInit PROVE ProcProbesInv
    OBVIOUS
  <1>1. ProcProbesTyped
    BY DEF ProcProbesInit, ProcProbesTyped, NoRead, Absent
  <1>2. KernelTimeIsTold /\ kernelTold = 0
    BY DEF ProcProbesInit, KernelTimeIsTold
  <1>3. \A i \in Interfaces : carried[i] = 0 /\ trafficTold[i] = 0
    BY DEF ProcProbesInit
  <1>4. lastSeen = <<>>
    BY DEF ProcProbesInit
  <1> QED BY <1>1, <1>2, <1>3, <1>4 DEF ProcProbesInv, InterfaceIsTold

\* A step that leaves the interfaces alone keeps what is known of them.
LEMMA NetworkStays ==
    ASSUME ProcProbesInv, UNCHANGED netSide
    PROVE  \A i \in Interfaces : InterfaceIsTold(i)'
  BY DEF ProcProbesInv, netSide, netWorld, InterfaceIsTold, Beyond, Origin

\* A step that leaves the kernel counters alone keeps what is known of them.
LEMMA KernelStays ==
    ASSUME ProcProbesInv, UNCHANGED kernelSide
    PROVE  /\ kernelTime' \in Nat /\ kernelPrev' \in Nat \union {Absent}
           /\ kernelBase' \in Nat \union {Absent} /\ kernelTold' \in Int
           /\ kernelPrev' = Absent => kernelTold' = 0
           /\ KernelTimeIsTold'
  BY DEF ProcProbesInv, ProcProbesTyped, kernelSide, KernelTimeIsTold

\* A step that leaves both alone keeps the invariant.
LEMMA SystemStays ==
    ASSUME ProcProbesInv, UNCHANGED <<kernelSide, netSide>>
    PROVE  ProcProbesInv'
  BY NetworkStays, KernelStays DEF ProcProbesInv, ProcProbesTyped, netSide, netWorld

\* The step PollKernel keeps the invariant.
LEMMA PollKernelKeepsInv == ASSUME ProcProbesInv, NEW broken, PollKernel(broken) PROVE ProcProbesInv'
  <1>1. UNCHANGED netSide
    BY DEF PollKernel
  <1>2. CASE UNCHANGED kernelSide
    BY <1>1, <1>2, SystemStays
  <1>3. CASE /\ kernelTold' = kernelTold + KernelDelta(kernelPrev, kernelTime)
             /\ kernelBase' = IF kernelPrev = Absent THEN kernelTime ELSE kernelBase
             /\ kernelPrev' = kernelTime /\ kernelTime' = kernelTime
    <2>1. /\ kernelTime \in Nat /\ kernelPrev \in Nat \union {Absent}
          /\ kernelBase \in Nat \union {Absent} /\ kernelTold \in Int
          /\ kernelTold = IF kernelPrev = Absent THEN 0 ELSE kernelPrev - kernelBase
      BY DEF ProcProbesInv, ProcProbesTyped, KernelTimeIsTold
    <2>2. /\ kernelTime' \in Nat /\ kernelPrev' \in Nat
          /\ kernelBase' \in Nat \union {Absent} /\ kernelTold' \in Int
          /\ kernelTold' = kernelPrev' - kernelBase'
      BY <1>3, <2>1 DEF KernelDelta, Absent
    <2>3. kernelPrev' # Absent
      BY <2>2 DEF Absent
    <2>4. ProcProbesTyped'
      BY <1>1, <2>2 DEF ProcProbesInv, ProcProbesTyped, netSide, netWorld
    <2>5. KernelTimeIsTold'
      BY <2>2 DEF KernelTimeIsTold
    <2>6. \A i \in Interfaces : InterfaceIsTold(i)'
      BY <1>1, NetworkStays
    <2> QED BY <2>3, <2>4, <2>5, <2>6 DEF ProcProbesInv
  <1> QED BY <1>2, <1>3 DEF PollKernel

\* The step KernelWorks keeps the invariant.
LEMMA KernelWorksKeepsInv == ASSUME ProcProbesInv, KernelWorks PROVE ProcProbesInv'
  <1>1. /\ kernelTime' = kernelTime + 1
        /\ UNCHANGED <<kernelPrev, kernelBase, kernelTold, netSide>>
    BY DEF KernelWorks
  <1> QED BY <1>1, NetworkStays DEF ProcProbesInv, ProcProbesTyped, netSide, netWorld, KernelTimeIsTold

\* What is known of one interface.
LEMMA InterfaceTyped ==
    ASSUME ProcProbesInv, NEW i \in Interfaces
    PROVE  /\ traffic[i] \in Nat \union {Absent} /\ carried[i] \in Int /\ trafficTold[i] \in Int
           /\ lastSeen # <<>> => lastSeen[i] \in Nat \union {Absent} /\ Origin(i) \in Nat
  BY DEF ProcProbesInv, ProcProbesTyped, Origin, Absent

\* After a poll nothing is beyond it.
LEMMA PollNetworkKeepsInv == ASSUME ProcProbesInv, PollNetwork PROVE ProcProbesInv'
  <1>1. /\ trafficTold' = IF lastSeen = <<>> THEN trafficTold
                      ELSE [i \in Interfaces |-> IF traffic[i] = Absent THEN trafficTold[i]
                                                 ELSE trafficTold[i] + traffic[i] - Origin(i)]
        /\ lastSeen' = traffic
        /\ UNCHANGED <<kernelSide, traffic, carried, recreated>>
    BY DEF PollNetwork
  <1>2. ASSUME NEW i \in Interfaces
        PROVE  trafficTold'[i] \in Int /\ InterfaceIsTold(i)'
    <2>1. /\ traffic[i] \in Nat \union {Absent} /\ carried[i] \in Int /\ trafficTold[i] \in Int
          /\ lastSeen # <<>> => lastSeen[i] \in Nat \union {Absent} /\ Origin(i) \in Nat
      BY InterfaceTyped
    <2>2. /\ lastSeen = <<>> => carried[i] = 0 /\ trafficTold[i] = 0
          /\ lastSeen # <<>> /\ i \notin recreated => trafficTold[i] + Beyond(i) = carried[i]
      BY DEF ProcProbesInv, InterfaceIsTold
    <2>3. trafficTold'[i] = IF lastSeen = <<>> THEN trafficTold[i] ELSE trafficTold[i] + Beyond(i)
      BY <1>1, <2>1 DEF Beyond
    <2>4. trafficTold'[i] \in Int
      BY <1>1, <2>1, <2>3 DEF Beyond
    <2>5. Beyond(i)' = 0
      <3>1. traffic'[i] = traffic[i] /\ lastSeen'[i] = traffic[i]
        BY <1>1
      <3> QED BY <2>1, <3>1 DEF Beyond, Origin, Absent
    <2>6. lastSeen' # <<>> /\ i \notin recreated' => trafficTold'[i] = carried'[i]
      BY <1>1, <2>2, <2>3
    <2>7. traffic'[i] = Absent => lastSeen'[i] = Absent
      BY <1>1
    <2>8. lastSeen' = <<>> => carried'[i] = 0 /\ trafficTold'[i] = 0
      <3>1. lastSeen' # <<>>
        <4>1. DOMAIN lastSeen' = Interfaces
          BY <1>1 DEF ProcProbesInv, ProcProbesTyped
        <4>2. DOMAIN <<>> = {}
          OBVIOUS
        <4> QED BY <4>1, <4>2
      <3> QED BY <3>1
    <2> QED BY <2>4, <2>5, <2>6, <2>7, <2>8 DEF InterfaceIsTold
  <1>3. trafficTold' \in [Interfaces -> Int]
    BY <1>1, <1>2 DEF ProcProbesInv, ProcProbesTyped
  <1> QED BY <1>1, <1>2, <1>3, KernelStays DEF ProcProbesInv, ProcProbesTyped

\* The step PlugInterface keeps the invariant.
LEMMA PlugInterfaceKeepsInv ==
    ASSUME ProcProbesInv, NEW i \in Interfaces, PlugInterface(i)
    PROVE  ProcProbesInv'
  <1>1. /\ traffic[i] = Absent /\ traffic' = [traffic EXCEPT ![i] = 0]
        /\ recreated' = IF i \in blind THEN recreated \union {i} ELSE recreated
        /\ UNCHANGED <<kernelSide, carried, blind, lastSeen, trafficTold>>
    BY DEF PlugInterface
  <1>2. ProcProbesTyped'
    BY <1>1, KernelStays DEF ProcProbesInv, ProcProbesTyped
  <1>3. ASSUME NEW j \in Interfaces PROVE InterfaceIsTold(j)'
    <2>1. CASE j # i
      <3>1. traffic'[j] = traffic[j] /\ (j \in recreated' <=> j \in recreated)
        BY <1>1, <2>1 DEF ProcProbesInv, ProcProbesTyped
      <3> QED BY <1>1, <3>1 DEF ProcProbesInv, InterfaceIsTold, Beyond, Origin
    <2>2. CASE j = i
      <3>1. traffic'[j] = 0 /\ 0 # Absent
        BY <1>1, <2>2 DEF ProcProbesInv, ProcProbesTyped, Absent
      <3>2. i \in blind => i \in recreated'
        BY <1>1
      <3>3. lastSeen # <<>> /\ i \notin recreated' => lastSeen[i] = Absent /\ trafficTold[i] = carried[i]
        <4> SUFFICES ASSUME lastSeen # <<>>, i \notin recreated'
                     PROVE  lastSeen[i] = Absent /\ trafficTold[i] = carried[i]
          OBVIOUS
        <4>1. i \notin blind /\ i \notin recreated
          BY <1>1
        <4>2. trafficTold[i] + Beyond(i) = carried[i] /\ (lastSeen[i] # Absent => i \in blind)
          BY <1>1, <4>1 DEF ProcProbesInv, InterfaceIsTold
        <4>3. trafficTold[i] \in Int /\ Beyond(i) = 0
          BY <1>1, InterfaceTyped DEF Beyond
        <4> QED BY <4>1, <4>2, <4>3
      <3>4. lastSeen # <<>> /\ i \notin recreated' => Beyond(i)' = 0
        BY <1>1, <2>2, <3>1, <3>3 DEF Beyond, Origin
      <3>5. trafficTold[i] \in Int
        BY InterfaceTyped
      <3> QED BY <1>1, <2>2, <3>1, <3>3, <3>4, <3>5 DEF ProcProbesInv, InterfaceIsTold
    <2> QED BY <2>1, <2>2
  <1> QED BY <1>1, <1>2, <1>3, KernelStays DEF ProcProbesInv

\* What was beyond the last poll is taken back.
LEMMA UnplugInterfaceKeepsInv ==
    ASSUME ProcProbesInv, NEW i \in Interfaces, UnplugInterface(i)
    PROVE  ProcProbesInv'
  <1>1. /\ traffic[i] # Absent /\ traffic' = [traffic EXCEPT ![i] = Absent]
        /\ blind' = blind \union {i}
        /\ carried' = IF lastSeen = <<>> THEN carried
                      ELSE [carried EXCEPT ![i] = @ - (traffic[i] - Origin(i))]
        /\ UNCHANGED <<kernelSide, recreated, lastSeen, trafficTold>>
    BY DEF UnplugInterface
  <1>2. carried' \in [Interfaces -> Int]
    BY <1>1, InterfaceTyped DEF ProcProbesInv, ProcProbesTyped
  <1>3. ProcProbesTyped'
    BY <1>1, <1>2, KernelStays DEF ProcProbesInv, ProcProbesTyped
  <1>4. ASSUME NEW j \in Interfaces PROVE InterfaceIsTold(j)'
    <2>1. CASE j # i
      <3>1. traffic'[j] = traffic[j] /\ carried'[j] = carried[j] /\ (j \in blind' <=> j \in blind)
        BY <1>1, <2>1 DEF ProcProbesInv, ProcProbesTyped
      <3> QED BY <1>1, <3>1 DEF ProcProbesInv, InterfaceIsTold, Beyond, Origin
    <2>2. CASE j = i
      <3>1. traffic'[j] = Absent /\ j \in blind'
        BY <1>1, <2>2 DEF ProcProbesInv, ProcProbesTyped
      <3>2. lastSeen = <<>> => carried'[j] = carried[j]
        BY <1>1
      <3>3. lastSeen # <<>> => carried'[j] = carried[j] - Beyond(j)
        BY <1>1, <2>2 DEF ProcProbesInv, ProcProbesTyped, Beyond
      <3>4. Beyond(j)' = 0
        BY <3>1 DEF Beyond
      <3>5. lastSeen # <<>> => Beyond(j) \in Int
        BY InterfaceTyped DEF Beyond, Absent
      <3>6. /\ lastSeen = <<>> => carried[j] = 0 /\ trafficTold[j] = 0
            /\ lastSeen # <<>> /\ j \notin recreated => trafficTold[j] + Beyond(j) = carried[j]
        BY DEF ProcProbesInv, InterfaceIsTold
      <3>7. trafficTold[j] \in Int
        BY InterfaceTyped
      <3>8. lastSeen # <<>> /\ j \notin recreated => trafficTold[j] = carried'[j]
        BY <3>3, <3>5, <3>6, <3>7
      <3>9. lastSeen' = lastSeen /\ recreated' = recreated /\ trafficTold' = trafficTold
        BY <1>1
      <3>10. lastSeen' # <<>> /\ j \notin recreated' => trafficTold'[j] + Beyond(j)' = carried'[j]
        BY <3>4, <3>7, <3>8, <3>9
      <3>11. lastSeen' = <<>> => carried'[j] = 0 /\ trafficTold'[j] = 0
        BY <3>2, <3>6, <3>9
      <3> QED BY <3>1, <3>10, <3>11 DEF InterfaceIsTold
    <2> QED BY <2>1, <2>2
  <1> QED BY <1>1, <1>3, <1>4, KernelStays DEF ProcProbesInv

\* The step Transmit keeps the invariant.
LEMMA TransmitKeepsInv == ASSUME ProcProbesInv, NEW i \in Interfaces, Transmit(i) PROVE ProcProbesInv'
  <1>1. /\ traffic[i] \in Nat /\ traffic' = [traffic EXCEPT ![i] = @ + 1]
        /\ carried' = IF lastSeen = <<>> THEN carried ELSE [carried EXCEPT ![i] = @ + 1]
        /\ UNCHANGED <<kernelSide, blind, recreated, lastSeen, trafficTold>>
    BY InterfaceTyped DEF Transmit
  <1>2. carried' \in [Interfaces -> Int] /\ traffic' \in [Interfaces -> Nat \union {Absent}]
    BY <1>1 DEF ProcProbesInv, ProcProbesTyped
  <1>3. ProcProbesTyped'
    BY <1>1, <1>2, KernelStays DEF ProcProbesInv, ProcProbesTyped
  <1>4. ASSUME NEW j \in Interfaces PROVE InterfaceIsTold(j)'
    <2>1. CASE j # i
      <3>1. traffic'[j] = traffic[j] /\ carried'[j] = carried[j]
        BY <1>1, <2>1 DEF ProcProbesInv, ProcProbesTyped
      <3> QED BY <1>1, <3>1 DEF ProcProbesInv, InterfaceIsTold, Beyond, Origin
    <2>2. CASE j = i
      <3>1. traffic'[j] = traffic[j] + 1 /\ traffic[j] # Absent /\ traffic'[j] # Absent
        BY <1>1, <2>2 DEF ProcProbesInv, ProcProbesTyped, Absent
      <3>2. lastSeen = <<>> => carried'[j] = carried[j]
        BY <1>1
      <3>3. lastSeen # <<>> => carried'[j] = carried[j] + 1
        BY <1>1, <2>2 DEF ProcProbesInv, ProcProbesTyped
      <3>4. lastSeen # <<>> => Beyond(j)' = Beyond(j) + 1 /\ Beyond(j) \in Int
        <4>1. lastSeen # <<>> => Origin(j) \in Nat
          BY InterfaceTyped
        <4>2. Origin(j)' = Origin(j)
          BY <1>1 DEF Origin
        <4> QED BY <1>1, <2>2, <3>1, <4>1, <4>2 DEF Beyond
      <3>5. /\ lastSeen = <<>> => carried[j] = 0 /\ trafficTold[j] = 0
            /\ lastSeen # <<>> /\ j \notin recreated => trafficTold[j] + Beyond(j) = carried[j]
        BY DEF ProcProbesInv, InterfaceIsTold
      <3>6. trafficTold[j] \in Int
        BY InterfaceTyped
      <3>7. lastSeen # <<>> /\ j \notin recreated => trafficTold[j] + Beyond(j)' = carried'[j]
        BY <3>3, <3>4, <3>5, <3>6
      <3>8. lastSeen' = lastSeen /\ recreated' = recreated /\ trafficTold' = trafficTold
        BY <1>1
      <3> QED BY <3>1, <3>2, <3>5, <3>7, <3>8 DEF InterfaceIsTold
    <2> QED BY <2>1, <2>2
  <1> QED BY <1>1, <1>3, <1>4, KernelStays DEF ProcProbesInv

\* Every step keeps the invariant of the probes of the system.
LEMMA ProcProbesStep == ProcProbesInv /\ [ProcProbesNext]_procProbeVars => ProcProbesInv'
  <1> SUFFICES ASSUME ProcProbesInv, [ProcProbesNext]_procProbeVars PROVE ProcProbesInv'
    OBVIOUS
  <1>1. CASE ProcProbesNext
    <2>1. CASE PollNetworkFails \/ \E lines \in MemLines : PollMemoryOf(lines)
      <3>1. UNCHANGED <<kernelSide, netSide>>
        BY <2>1 DEF PollNetworkFails, PollMemoryOf
      <3> QED BY <3>1, SystemStays
    <2> QED BY <1>1, <2>1, PollKernelKeepsInv, KernelWorksKeepsInv, PollNetworkKeepsInv,
               PlugInterfaceKeepsInv, UnplugInterfaceKeepsInv, TransmitKeepsInv DEF ProcProbesNext
  <1>2. CASE UNCHANGED procProbeVars
    BY <1>2, SystemStays DEF procProbeVars
  <1> QED BY <1>1, <1>2

\* When the counters are those of the last poll, nothing is beyond it.
LEMMA ProcProbesInvTells == ProcProbesInv => KernelTimeIsTold /\ TrafficIsTold
  <1> SUFFICES ASSUME ProcProbesInv, NEW i \in Interfaces \ recreated,
                      lastSeen # <<>>, traffic = lastSeen
               PROVE  trafficTold[i] = carried[i]
    BY DEF ProcProbesInv, TrafficIsTold
  <1>1. trafficTold[i] \in Int /\ trafficTold[i] + Beyond(i) = carried[i]
    BY InterfaceTyped DEF ProcProbesInv, InterfaceIsTold
  <1>2. Beyond(i) = 0
    BY InterfaceTyped DEF Beyond, Origin, Absent
  <1> QED BY <1>1, <1>2

\* The kernel time and the traffic that the probes tell are those of the system.
THEOREM SystemIsTold == ProcProbesSpec => [](KernelTimeIsTold /\ TrafficIsTold)
  BY ProcProbesInitOK, ProcProbesStep, ProcProbesInvTells, PTL DEF ProcProbesSpec

-------------------------------------------------------------------------------
(* The power of a disk.                                                       *)

Packet == [question : Nat, last : BOOLEAN]
Question == [question : Nat, sent : Nat]

QTyped ==
    /\ questions = [todo |-> questions.todo, asked |-> questions.asked]
    /\ questions.asked \in Nat
    /\ device \in Seq(Question)
    /\ wire \in Seq(Packet)
    /\ answer \in Seq(Packet)
    /\ late \in BOOLEAN

\* Nothing is read between two polls.
NothingRead == quarch # "asking" => answer = <<>>

\* One question is on its way at a time, and nothing follows the last packet of its answer.
OneQuestion ==
    /\ \A i \in 1..Len(device) : i = 1 /\ device[i].question = questions.asked
    /\ \A i \in 1..Len(wire) :
          /\ wire[i].question = questions.asked
          /\ wire[i].last => i = Len(wire) /\ device = <<>>
    /\ \A i \in 1..Len(answer) : answer[i].question = questions.asked
    /\ quarch # "asking" => wire = <<>> /\ device = <<>>

QInv ==
    /\ QTyped /\ NothingRead
    /\ ~late => OneQuestion
    /\ MeasureIsOwn

-------------------------------------------------------------------------------
(* The shared parts of the steps.                                            *)

LEMMA NoPacket ==
    /\ <<>> \in Seq(Packet) /\ <<>> \in Seq(Question)
    /\ Len(<<>>) = 0 /\ 1..0 = {}
  OBVIOUS

\* The first element of a sequence, and the rest.
LEMMA FirstElement ==
    ASSUME NEW S, NEW s \in Seq(S), s # <<>>
    PROVE  /\ Len(s) \in Nat \ {0} /\ Head(s) = s[1] /\ s[1] \in S
           /\ Tail(s) \in Seq(S) /\ Len(Tail(s)) = Len(s) - 1
  <1>1. Len(s) # 0
    OBVIOUS
  <1>2. Len(s) \in Nat \ {0}
    BY <1>1
  <1> QED BY <1>2

\* A sequence of length 0 is empty.
LEMMA NoElement == ASSUME NEW S, NEW s \in Seq(S), Len(s) = 0 PROVE s = <<>>
  OBVIOUS

\* The invariant holds initially.
LEMMA QInitOK == QuarchInit => QInv
  <1> SUFFICES ASSUME QuarchInit PROVE QInv
    OBVIOUS
  <1>1. /\ questions = [todo |-> <<>>, asked |-> 0] /\ device = <<>> /\ wire = <<>>
        /\ answer = <<>> /\ late = FALSE
    BY DEF QuarchInit, NoQuestions
  <1>2. QTyped /\ NothingRead
    BY <1>1, NoPacket DEF QTyped, NothingRead
  <1>3. OneQuestion
    BY <1>1, NoPacket DEF OneQuestion
  <1>4. MeasureIsOwn
    <2>1. measure.packets = {}
      BY DEF QuarchInit, NoMeasure
    <2> QED BY <2>1 DEF MeasureIsOwn
  <1> QED BY <1>2, <1>3, <1>4 DEF QInv

\* A step that changes no measure keeps whose they are.
LEMMA SameMeasure == ASSUME QInv, UNCHANGED measure PROVE MeasureIsOwn'
  BY DEF QInv, MeasureIsOwn

\* When nothing is on its way, whatever the question.
LEMMA NothingOnItsWay ==
    ASSUME QInv, UNCHANGED measure, device' = <<>>, wire' = <<>>, answer' = <<>>, late' = FALSE,
           \/ questions' = questions
           \/ questions' = NoQuestions
           \/ questions' = [questions EXCEPT !.todo = <<>>]
    PROVE  QInv'
  <1>1. /\ questions = [todo |-> questions.todo, asked |-> questions.asked]
        /\ questions.asked \in Nat
    BY DEF QInv, QTyped
  <1>2. /\ questions' = [todo |-> questions'.todo, asked |-> questions'.asked]
        /\ questions'.asked \in Nat
    <2>1. CASE questions' = questions
      BY <1>1, <2>1
    <2>2. CASE questions' = NoQuestions
      BY <2>2 DEF NoQuestions
    <2>3. CASE questions' = [questions EXCEPT !.todo = <<>>]
      <3>1. questions' = [todo |-> <<>>, asked |-> questions.asked]
        BY <1>1, <2>3
      <3> QED BY <1>1, <3>1
    <2> QED BY <2>1, <2>2, <2>3
  <1>3. QTyped' /\ NothingRead'
    BY <1>2, NoPacket DEF QTyped, NothingRead
  <1>4. OneQuestion'
    BY NoPacket DEF OneQuestion
  <1> QED BY <1>3, <1>4, SameMeasure DEF QInv

\* A connection that failed is forgotten, with all that was on its way.
LEMMA PollFailsOK == ASSUME QInv, PollFails PROVE QInv'
  <1>1. /\ questions' = [questions EXCEPT !.todo = <<>>] /\ UNCHANGED measure
        /\ device' = <<>> /\ wire' = <<>> /\ answer' = <<>> /\ late' = FALSE
    BY DEF PollFails, AfterError
  <1> QED BY <1>1, NothingOnItsWay

\* A question asked when nothing is on its way is alone.
LEMMA AskOK ==
    ASSUME QInv, NEW waiting, NEW pending \in Seq(Question),
           NEW number \in Nat, Ask(waiting, pending, number), UNCHANGED measure,
           wire' \in Seq(Packet), late' \in BOOLEAN,
           ~late' => pending = <<>> /\ wire' = <<>>
    PROVE  QInv'
  <1>1. /\ questions' = [todo |-> waiting, asked |-> number + 1]
        /\ answer' = <<>> /\ quarch' = "asking"
        /\ device' = Append(pending, [question |-> number + 1, sent |-> 0])
    BY DEF Ask
  <1>2. device' \in Seq(Question)
    <2>1. [question |-> number + 1, sent |-> 0] \in Question
      BY DEF Question
    <2> QED BY <1>1, <2>1
  <1>3. QTyped' /\ NothingRead'
    BY <1>1, <1>2, NoPacket DEF QTyped, NothingRead
  <1>4. ASSUME ~late' PROVE OneQuestion'
    <2>1. device' = <<[question |-> number + 1, sent |-> 0]>> /\ wire' = <<>>
      BY <1>1, <1>4
    <2>2. /\ Len(device') = 1 /\ device'[1].question = number + 1
          /\ questions'.asked = number + 1
      BY <1>1, <2>1
    <2>3. \A i \in 1..Len(device') : i = 1 /\ device'[i].question = questions'.asked
      BY <2>2
    <2> QED BY <1>1, <2>1, <2>3, NoPacket DEF OneQuestion
  <1> QED BY <1>3, <1>4, SameMeasure DEF QInv

\* A measure is made of the packets that were read.
LEMMA OwnPackets ==
    ASSUME QInv, NEW packets \in Seq(Packet), TakeAnswer(packets), questions.todo = <<>>,
           ~late => \A i \in 1..Len(packets) : packets[i].question = questions.asked
    PROVE  MeasureIsOwn'
  <1>1. measure' = [question |-> questions.asked,
                    packets |-> {p.question : p \in Range(packets)}, late |-> late]
    BY DEF TakeAnswer
  <1>2. CASE late
    BY <1>1, <1>2 DEF MeasureIsOwn
  <1>3. CASE ~late
    <2>1. \A p \in Range(packets) : p.question = questions.asked
      BY <1>3 DEF Range
    <2> QED BY <1>1, <2>1 DEF MeasureIsOwn
  <1> QED BY <1>2, <1>3

-------------------------------------------------------------------------------
(* The steps of a poll.                                                      *)

LEMMA ReadPacketsOK == ASSUME QInv, NEW n \in Nat, ReadPackets(n) PROVE QInv'
  <1> DEFINE packets == answer \o SubSeq(wire, 1, n)
             rest == SubSeq(wire, n + 1, Len(wire))
  <1>1. quarch = "asking" /\ n \in 1..Len(wire)
    BY DEF ReadPackets
  <1>2. /\ SubSeq(wire, 1, n) \in Seq(Packet) /\ Len(SubSeq(wire, 1, n)) = n
        /\ \A i \in 1..n : SubSeq(wire, 1, n)[i] = wire[i]
    BY <1>1 DEF QInv, QTyped
  <1>3. /\ packets \in Seq(Packet) /\ Len(packets) = Len(answer) + n
        /\ packets[Len(packets)] = wire[n]
    BY SMTT(30), <1>1, <1>2 DEF QInv, QTyped
  <1>4. /\ rest \in Seq(Packet) /\ Len(rest) = Len(wire) - n
        /\ \A i \in 1..Len(rest) : rest[i] = wire[i + n]
    BY SMTT(30), <1>1 DEF QInv, QTyped
  <1>5. ~late => \A i \in 1..Len(packets) : packets[i].question = questions.asked
    <2> SUFFICES ASSUME ~late, NEW i \in 1..Len(packets)
                 PROVE  packets[i].question = questions.asked
      OBVIOUS
    <2>0. answer \in Seq(Packet) /\ Len(answer) \in Nat
      BY DEF QInv, QTyped
    <2>1. CASE i =< Len(answer)
      <3>1. i \in 1..Len(answer) /\ packets[i] = answer[i]
        BY <2>0, <2>1, <1>2, <1>3
      <3> QED BY <3>1 DEF QInv, OneQuestion
    <2>2. CASE i > Len(answer)
      <3>1. i - Len(answer) \in 1..n
        BY <2>0, <2>2, <1>3
      <3>2. packets[i] = wire[i - Len(answer)]
        BY <2>0, <2>2, <3>1, <1>2, <1>3
      <3> QED BY <3>1, <3>2, <1>1 DEF QInv, OneQuestion
    <2> QED BY <2>0, <2>1, <2>2, <1>3
  <1>6. Whole(packets) <=> wire[n].last
    BY <1>1, <1>3 DEF Whole, Last, QInv, QTyped
  <1>7. ASSUME ~late, Whole(packets) PROVE rest = <<>> /\ device = <<>>
    <2>1. n = Len(wire) /\ device = <<>>
      BY <1>1, <1>6, <1>7 DEF QInv, OneQuestion
    <2> QED BY <2>1, <1>4
  <1>8. ASSUME ~late
        PROVE  \A i \in 1..Len(rest) :
                  /\ rest[i].question = questions.asked
                  /\ rest[i].last => i = Len(rest) /\ device = <<>>
    <2> TAKE i \in 1..Len(rest)
    <2>1. i + n \in 1..Len(wire) /\ rest[i] = wire[i + n]
      BY SMTT(30), <1>1, <1>4 DEF QInv, QTyped
    <2>2. Len(wire) \in Nat
      BY DEF QInv, QTyped
    <2>3. /\ wire[i + n].question = questions.asked
          /\ wire[i + n].last => i + n = Len(wire) /\ device = <<>>
      BY <2>1, <1>8 DEF QInv, OneQuestion
    <2>4. i + n = Len(wire) => i = Len(rest)
      BY <2>2, <1>1, <1>4
    <2> QED BY <2>1, <2>3, <2>4
  <1>9. \/ PollFails
        \/ /\ wire' = rest /\ late' = late /\ Whole(packets) /\ TakeAnswer(packets)
        \/ /\ wire' = rest /\ late' = late /\ answer' = packets
           /\ UNCHANGED <<quarch, qis, stream, questions, device, measure>>
    BY DEF ReadPackets
  <1> HIDE DEF packets, rest
  <1>10. CASE PollFails
    BY <1>10, PollFailsOK
  <1>11. CASE wire' = rest /\ late' = late /\ Whole(packets) /\ TakeAnswer(packets)
    <2>1. CASE questions.todo # <<>>
      <3>1. Ask(Tail(questions.todo), device, questions.asked) /\ UNCHANGED measure
        BY <2>1, <1>11 DEF TakeAnswer
      <3>2. device \in Seq(Question) /\ questions.asked \in Nat
        BY DEF QInv, QTyped
      <3>3. wire' \in Seq(Packet) /\ late' \in BOOLEAN
        BY <1>4, <1>11 DEF QInv, QTyped
      <3> QED BY <3>1, <3>2, <3>3, <1>7, <1>11, AskOK
    <2>2. CASE questions.todo = <<>>
      <3>1. quarch' = "idle" /\ answer' = <<>> /\ UNCHANGED <<questions, device>>
        BY <2>2, <1>11 DEF TakeAnswer
      <3>2. MeasureIsOwn'
        BY <2>2, <1>3, <1>5, <1>11, OwnPackets
      <3>3. QTyped' /\ NothingRead'
        BY <3>1, <1>4, <1>11 DEF QInv, QTyped, NothingRead
      <3>4. ASSUME ~late' PROVE OneQuestion'
        BY <3>1, <3>4, <1>7, <1>11 DEF OneQuestion
      <3> QED BY <3>2, <3>3, <3>4 DEF QInv
    <2> QED BY <2>1, <2>2
  <1>12. CASE /\ wire' = rest /\ late' = late /\ answer' = packets
              /\ UNCHANGED <<quarch, qis, stream, questions, device, measure>>
    <2>1. QTyped' /\ NothingRead' /\ MeasureIsOwn'
      BY <1>12, <1>1, <1>3, <1>4, SameMeasure DEF QInv, QTyped, NothingRead
    <2>2. ASSUME ~late' PROVE OneQuestion'
      BY <2>2, <1>12, <1>1, <1>5, <1>8 DEF QInv, OneQuestion
    <2> QED BY <2>1, <2>2 DEF QInv
  <1> QED BY <1>9, <1>10, <1>11, <1>12

\* What follows an answer that was cut may be taken for another: late says so.
LEMMA ReadTimeoutOK == ASSUME QInv, ReadTimeout PROVE QInv'
  <1>1. quarch = "asking" /\ wire = <<>>
    BY DEF ReadTimeout
  <1>2. PollFails \/ (TakeAnswer(answer) /\ late' = TRUE /\ UNCHANGED wire)
    BY DEF ReadTimeout
  <1>3. CASE PollFails
    BY <1>3, PollFailsOK
  <1>4. CASE TakeAnswer(answer) /\ late' = TRUE /\ UNCHANGED wire
    <2>1. CASE questions.todo # <<>>
      <3>1. Ask(Tail(questions.todo), device, questions.asked) /\ UNCHANGED measure
        BY <2>1, <1>4 DEF TakeAnswer
      <3>2. /\ device \in Seq(Question) /\ questions.asked \in Nat
            /\ wire' \in Seq(Packet)
        BY <1>4 DEF QInv, QTyped
      <3> QED BY <3>1, <3>2, <1>4, AskOK
    <2>2. CASE questions.todo = <<>>
      <3>1. quarch' = "idle" /\ answer' = <<>> /\ UNCHANGED <<questions, device>>
        BY <2>2, <1>4 DEF TakeAnswer
      <3>2. answer \in Seq(Packet)
        BY DEF QInv, QTyped
      <3>3. ~late => \A i \in 1..Len(answer) : answer[i].question = questions.asked
        BY DEF QInv, OneQuestion
      <3>4. MeasureIsOwn'
        BY <2>2, <1>4, <3>2, <3>3, OwnPackets
      <3> QED BY <3>1, <3>4, <1>4 DEF QInv, QTyped, NothingRead
    <2> QED BY <2>1, <2>2
  <1> QED BY <1>2, <1>3, <1>4

-------------------------------------------------------------------------------
(* The other steps.                                                          *)

LEMMA PollConnectsOK == ASSUME QInv, PollConnects PROVE QInv'
  <1>1. /\ Ask(Configuration, <<>>, 0) /\ wire' = <<>> /\ late' = FALSE
        /\ UNCHANGED measure
    BY DEF PollConnects
  <1> QED BY <1>1, AskOK, NoPacket

\* A poll of the Quarch source keeps the invariant.
LEMMA PollMeasuresOK == ASSUME QInv, PollMeasures PROVE QInv'
  <1>1. /\ Ask(<<>>, device, questions.asked) /\ UNCHANGED <<wire, late, measure>>
        /\ quarch = "idle"
    BY DEF PollMeasures
  <1>2. /\ device \in Seq(Question) /\ questions.asked \in Nat
        /\ wire' \in Seq(Packet) /\ late' \in BOOLEAN
    BY <1>1 DEF QInv, QTyped
  <1>3. ~late' => device = <<>> /\ wire' = <<>>
    BY <1>1 DEF QInv, OneQuestion
  <1> QED BY <1>1, <1>2, <1>3, AskOK

\* An answer of the device keeps the invariant.
LEMMA DeviceAnswersOK ==
    ASSUME QInv, quarch = "asking" \/ late, NEW last \in BOOLEAN, DeviceAnswers(last)
    PROVE  QInv'
  <1> DEFINE head == Head(device)
             packet == [question |-> head.question, last |-> last]
  <1>1. /\ device # <<>> /\ wire' = Append(wire, packet)
        /\ device' = IF last THEN Tail(device)
                     ELSE <<[head EXCEPT !.sent = @ + 1]>> \o Tail(device)
        /\ UNCHANGED <<quarch, questions, answer, late, measure>>
    BY DEF DeviceAnswers
  <1>2. head \in Question /\ packet \in Packet
    <2>1. head \in Question
      <3>1. device \in Seq(Question) /\ device # <<>>
        BY <1>1 DEF QInv, QTyped
      <3>2. device[1] \in Question /\ Head(device) = device[1]
        BY <3>1, FirstElement
      <3> QED BY <3>2
    <2>2. head.question \in Nat
      BY <2>1 DEF Question
    <2> QED BY <2>1, <2>2 DEF Packet
  <1>3. Tail(device) \in Seq(Question)
    BY <1>1 DEF QInv, QTyped
  <1>4. [head EXCEPT !.sent = @ + 1] \in Question
    BY <1>2 DEF Question
  <1>5. device' \in Seq(Question) /\ wire' \in Seq(Packet)
    <2>1. wire' \in Seq(Packet)
      BY <1>1, <1>2 DEF QInv, QTyped
    <2>2. <<[head EXCEPT !.sent = @ + 1]>> \in Seq(Question)
      BY <1>4
    <2>3. <<[head EXCEPT !.sent = @ + 1]>> \o Tail(device) \in Seq(Question)
      BY <2>2, <1>3
    <2>4. CASE last
      BY <2>1, <2>4, <1>1, <1>3
    <2>5. CASE ~last
      BY <2>1, <2>3, <2>5, <1>1
    <2> QED BY <2>4, <2>5
  <1>6. QTyped' /\ NothingRead' /\ MeasureIsOwn'
    BY <1>1, <1>5, SameMeasure DEF QInv, QTyped, NothingRead
  <1>7. ASSUME ~late' PROVE OneQuestion'
    <2>1. OneQuestion /\ quarch = "asking"
      BY <1>1, <1>7 DEF QInv
    <2>2. Len(device) = 1 /\ Tail(device) = <<>> /\ head.question = questions.asked
      <3>1. Len(device) \in Nat \ {0} /\ head = device[1]
        BY <1>1 DEF QInv, QTyped
      <3>2. Len(device) \in 1..Len(device) /\ 1 \in 1..Len(device)
        BY <3>1
      <3>3. Len(device) = 1 /\ device[1].question = questions.asked
        BY <2>1, <3>2 DEF OneQuestion
      <3>4. Len(Tail(device)) = 0
        BY <3>3, <1>1 DEF QInv, QTyped
      <3>5. Tail(device) = <<>>
        BY <3>4, <1>3, NoElement
      <3>6. head.question = questions.asked
        BY <3>1, <3>3
      <3> HIDE DEF head
      <3> QED BY <3>3, <3>5, <3>6
    <2>3. \A i \in 1..Len(wire) : ~wire[i].last
      BY <2>1, <1>1 DEF OneQuestion
    <2>4. \A i \in 1..Len(device') : i = 1 /\ device'[i].question = questions.asked
      <3>1. CASE last
        BY <3>1, <2>2, <1>1
      <3>2. CASE ~last
        <4>1. device' = <<[head EXCEPT !.sent = @ + 1]>> \o <<>>
          BY <3>2, <2>2, <1>1
        <4>2. [head EXCEPT !.sent = @ + 1].question = head.question
          BY <1>2 DEF Question
        <4>3. Len(device') = 1 /\ device'[1] = [head EXCEPT !.sent = @ + 1]
          BY <4>1
        <4>4. device'[1].question = questions.asked
          BY <4>2, <4>3, <2>2
        <4> SUFFICES ASSUME NEW i \in 1..Len(device')
                     PROVE  i = 1 /\ device'[i].question = questions.asked
          OBVIOUS
        <4>5. i = 1
          BY <4>3
        <4> QED BY <4>4, <4>5
      <3> QED BY <3>1, <3>2
    <2>5. last => device' = <<>>
      BY <2>2, <1>1
    <2>6. \A i \in 1..Len(wire') :
             /\ wire'[i].question = questions.asked
             /\ wire'[i].last => i = Len(wire') /\ device' = <<>>
      <3> TAKE i \in 1..Len(wire')
      <3> HIDE DEF head
      <3>1. wire \in Seq(Packet) /\ Len(wire) \in Nat
        BY DEF QInv, QTyped
      <3>2. Len(wire') = Len(wire) + 1
        BY <3>1, <1>1, <1>2
      <3>3. CASE i = Len(wire) + 1
        <4>1. wire'[i] = packet
          BY <3>1, <3>3, <1>1, <1>2
        <4>2. wire'[i].question = questions.asked /\ wire'[i].last = last
          BY <4>1, <2>2
        <4> QED BY <4>2, <3>2, <3>3, <2>5
      <3>4. CASE i \in 1..Len(wire)
        <4>1. wire'[i] = wire[i]
          BY <3>1, <3>4, <1>1, <1>2
        <4> QED BY <4>1, <3>4, <2>1, <2>3 DEF OneQuestion
      <3> QED BY <3>1, <3>2, <3>3, <3>4
    <2> QED BY <2>1, <2>4, <2>6, <1>1 DEF OneQuestion
  <1> QED BY <1>6, <1>7 DEF QInv

\* Start, stop and closing keep the invariant.
LEMMA QuarchOthersOK ==
    ASSUME QInv,
           \/ \E launched, listens \in BOOLEAN : StartQuarch(launched, listens)
           \/ DeviceCloses \/ StopQuarch \/ UNCHANGED quarchVars
    PROVE  QInv'
  <1>1. ASSUME NEW launched, NEW listens, StartQuarch(launched, listens) PROVE QInv'
    <2>1. /\ UNCHANGED <<questions, device, wire, answer, late, measure>>
          /\ quarch # "asking" /\ quarch' # "asking"
      BY <1>1 DEF StartQuarch
    <2> QED BY <2>1, SameMeasure DEF QInv, QTyped, NothingRead, OneQuestion
  <1>2. CASE DeviceCloses
    <2>1. UNCHANGED <<quarch, questions, wire, answer, late, measure>> /\ device' = <<>>
      BY <1>2 DEF DeviceCloses
    <2> QED BY <2>1, SameMeasure, NoPacket DEF QInv, QTyped, NothingRead, OneQuestion
  <1>3. CASE StopQuarch
    <2>1. /\ questions' = NoQuestions /\ device' = <<>> /\ wire' = <<>> /\ late' = FALSE
          /\ UNCHANGED measure /\ answer' = <<>>
      BY <1>3 DEF StopQuarch, QInv, NothingRead
    <2> QED BY <2>1, NothingOnItsWay
  <1>4. CASE UNCHANGED quarchVars
    BY <1>4, SameMeasure DEF quarchVars, QInv, QTyped, NothingRead, OneQuestion
  <1> QED BY <1>1, <1>2, <1>3, <1>4

-------------------------------------------------------------------------------
\* Unless a timeout cut an answer of the same connection, a power is computed from packets of
\* the answer to its own question only.
THEOREM PowerIsOfItsQuestion == QuarchSpec => []MeasureIsOwn
  <1>1. QInv /\ [QuarchNext]_quarchVars => QInv'
    <2> SUFFICES ASSUME QInv, [QuarchNext]_quarchVars PROVE QInv'
      OBVIOUS
    <2>1. CASE \/ PollConnects \/ PollMeasures \/ ReadTimeout
      BY <2>1, PollConnectsOK, PollMeasuresOK, ReadTimeoutOK
    <2>2. CASE PollCannotConnect \/ PollCannotWrite \/ ReadError
      BY <2>2, PollFailsOK DEF PollCannotConnect, PollCannotWrite, ReadError
    <2>3. ASSUME NEW n \in 1..(MaxQuestions * MaxPackets), ReadPackets(n) PROVE QInv'
      <3>1. n \in Nat
        BY <2>3 DEF ReadPackets, QInv, QTyped
      <3> QED BY <2>3, <3>1, ReadPacketsOK
    <2>4. ASSUME NEW last \in BOOLEAN, DeviceAnswers(last) PROVE QInv'
      <3>1. quarch = "asking" \/ late
        BY <2>4 DEF DeviceAnswers, QInv, OneQuestion
      <3> QED BY <2>4, <3>1, DeviceAnswersOK
    <2>5. CASE \/ \E launched, listens \in BOOLEAN : StartQuarch(launched, listens)
               \/ DeviceCloses \/ StopQuarch \/ UNCHANGED quarchVars
      BY <2>5, QuarchOthersOK
    <2> QED BY <2>1, <2>2, <2>3, <2>4, <2>5 DEF QuarchNext
  <1>2. QInv => MeasureIsOwn
    BY DEF QInv
  <1> QED BY <1>1, <1>2, QInitOK, PTL DEF QuarchSpec

-------------------------------------------------------------------------------
(* The pods of the cgroups.                                                   *)

\* A lookup, and the token that it uses.
Tokens == [known : BOOLEAN, expires : Nat]
Lookups ==
    [pc : {"idle", "check", "read", "write", "request"}, group : PodPaths \union {"none"},
     token : Tokens, at : Nat, fault : BOOLEAN]

\* The token was alive in the second in which the lookup took it.
TokenIsFresh(k) == k.at =< seconds /\ (k.at = seconds => seconds < k.token.expires)

\* A cgroup is one of a pod that the API knows; only the first refresh and the lookups of named
\* pods run, with a token that they took alive; nothing is missed.
PodsInv ==
    /\ seconds \in Nat /\ token \in Tokens
    /\ lookup \in [Registries -> Lookups]
    /\ \A g \in podGroups : g[1] \in nodePods
    /\ plugged # "started" => lookup["transform"].pc = "idle"
    /\ plugged = "started" /\ lookup["probe"].pc # "idle" => Uid(lookup["probe"].group) # "none"
    /\ \A r \in Registries : lookup[r].pc \in {"write", "request"} => TokenIsFresh(lookup[r])
    /\ PodsAreMeasured

\* Nothing is looked up at first.
LEMMA NoLookupTyped == NoLookup \in Lookups /\ NoLookup.pc = "idle" /\ NoToken \in Tokens
  <1>1. NoToken \in Tokens
    BY DEF NoToken, Tokens
  <1>2. NoLookup \in Lookups
    BY <1>1 DEF NoLookup, Lookups
  <1>3. NoLookup.pc = "idle"
    BY DEF NoLookup
  <1> QED BY <1>1, <1>2, <1>3

\* The invariant holds initially.
LEMMA PodsInitOK == K8sInit => PodsInv
  <1> SUFFICES ASSUME K8sInit PROVE PodsInv
    OBVIOUS
  <1>1. \A r \in Registries : lookup[r] = NoLookup
    BY DEF K8sInit
  <1>2. lookup \in [Registries -> Lookups] /\ token \in Tokens
    BY NoLookupTyped DEF K8sInit
  <1>3. \A r \in Registries : lookup[r].pc = "idle"
    BY <1>1, NoLookupTyped
  <1>4. "probe" \in Registries /\ "transform" \in Registries
    BY DEF Registries
  <1> QED BY <1>2, <1>3, <1>4 DEF K8sInit, PodsInv, PodsAreMeasured

\* The named pod of a cgroup is the pod of its path.
LEMMA UidIsPod == ASSUME NEW g, Uid(g) # "none" PROVE Uid(g) = g[1]
  BY DEF Uid

\* The step StartK8s keeps the invariant.
LEMMA StartK8sKeepsInv == ASSUME PodsInv, StartK8s PROVE PodsInv'
  <1> DEFINE k == [lookup["probe"] EXCEPT !.pc = "check"]
  <1>1. lookup["probe"] \in Lookups /\ lookup' = [lookup EXCEPT !["probe"] = k]
    BY DEF StartK8s, PodsInv, Registries
  <1>2. /\ k \in Lookups
        /\ k.pc = "check"
    <2>1. k \in Lookups
      BY <1>1 DEF Lookups
    <2>2. k.pc = "check"
      BY <1>1 DEF Lookups
    <2> QED BY <2>1, <2>2
  <1> HIDE DEF k
  <1>5. lookup' \in [Registries -> Lookups]
    BY <1>1, <1>2 DEF PodsInv
  <1>6. lookup'["probe"] = k /\ lookup'["transform"] = lookup["transform"]
    BY <1>1 DEF PodsInv, Registries
  <1>3. plugged = "new" /\ plugged' = "starting" /\ UNCHANGED <<seconds, token, podGroups, nodePods, missed>>
    BY DEF StartK8s, podWorld
  <1>4. \A r \in Registries : lookup'[r].pc \in {"write", "request"} => lookup'[r] = lookup[r]
    BY <1>2, <1>6 DEF Registries
  <1> QED BY <1>2, <1>3, <1>4, <1>5, <1>6 DEF PodsInv, TokenIsFresh, PodsAreMeasured

\* A lookup ends well for the cgroups of the pods: they are found, or a service failed.
LEMMA EndLookupKeeps ==
    ASSUME PodsInv, NEW r \in Registries, NEW isFound \in BOOLEAN, NEW fault \in BOOLEAN,
           EndLookup(r, isFound, fault), lookup[r].pc # "idle",
           isFound \/ fault \/ lookup[r].group \notin podGroups \/ plugged # "started",
           UNCHANGED <<annotateContainers, seconds, token, podWorld>>
    PROVE  PodsInv'
  <1>1. lookup' = [lookup EXCEPT ![r] = NoLookup]
    BY DEF EndLookup
  <1>2. lookup' \in [Registries -> Lookups]
    BY <1>1, NoLookupTyped DEF PodsInv
  <1>3. lookup'[r].pc = "idle" /\ \A x \in Registries : x # r => lookup'[x] = lookup[x]
    BY <1>1, NoLookupTyped DEF PodsInv
  <1>4. missed' = {}
    BY DEF EndLookup, PodsInv, PodsAreMeasured
  <1>5. plugged = "started" => plugged' = "started"
    BY DEF EndLookup
  <1>6. plugged # "started" => r = "probe"
    BY DEF PodsInv, Registries
  <1>7. UNCHANGED <<annotateContainers, seconds, token, podGroups, nodePods>>
    BY DEF podWorld
  <1>8. lookup'["transform"].pc = "idle" \/ plugged' = "started"
    BY <1>3, <1>5, <1>6 DEF PodsInv, Registries
  <1>9. plugged' = "started" /\ lookup'["probe"].pc # "idle" => Uid(lookup["probe"].group)' # "none"
    <2> SUFFICES ASSUME plugged' = "started", lookup'["probe"].pc # "idle"
                 PROVE  Uid(lookup["probe"].group)' # "none"
      OBVIOUS
    <2>1. r # "probe" /\ plugged = "started" /\ lookup'["probe"] = lookup["probe"]
      BY <1>3, <1>6 DEF Registries
    <2> QED BY <2>1, <1>7 DEF PodsInv, Uid
  <1>10. \A x \in Registries : lookup'[x].pc \in {"write", "request"} => TokenIsFresh(lookup[x])'
    <2>1. \A x \in Registries : lookup'[x].pc \in {"write", "request"} => lookup'[x] = lookup[x]
      BY <1>3
    <2> QED BY <2>1, <1>7 DEF PodsInv, TokenIsFresh
  <1>11. seconds' \in Nat /\ token' \in Tokens /\ (\A g \in podGroups' : g[1] \in nodePods')
    BY <1>7 DEF PodsInv
  <1> QED BY <1>2, <1>4, <1>8, <1>9, <1>10, <1>11 DEF PodsInv, PodsAreMeasured

\* The step Lookup keeps the invariant.
LEMMA LookupKeepsInv ==
    ASSUME PodsInv, NEW r \in Registries, NEW g \in PodPaths, Lookup(r, g)
    PROVE  PodsInv'
  <1> DEFINE k == [NoLookup EXCEPT !.pc = "check", !.group = g]
  <1>1. missed' = {}
    BY DEF Lookup, Cached, PodsInv, PodsAreMeasured
  <1>2. /\ k \in Lookups
        /\ k.pc = "check"
        /\ k.group = g
    <2>1. k \in Lookups
      BY NoLookupTyped DEF NoLookup, Lookups
    <2>2. k.pc = "check"
      BY DEF NoLookup
    <2>3. k.group = g
      BY DEF NoLookup
    <2> QED BY <2>1, <2>2, <2>3
  <1> HIDE DEF k
  <1>3. lookup' = lookup \/ lookup' = [lookup EXCEPT ![r] = k]
    BY DEF Lookup, k
  <1>4. plugged = "started" /\ Uid(g) # "none"
        /\ UNCHANGED <<plugged, annotateContainers, seconds, token, podGroups, nodePods>>
    BY DEF Lookup, podWorld
  <1>5. lookup' \in [Registries -> Lookups]
    BY <1>2, <1>3 DEF PodsInv
  <1>6. \A x \in Registries : lookup'[x] \in {lookup[x], k}
    BY <1>3 DEF PodsInv
  <1>7. \A x \in Registries : lookup'[x].pc \in {"write", "request"} => TokenIsFresh(lookup[x])'
    BY <1>2, <1>4, <1>6 DEF PodsInv, TokenIsFresh
  <1>8. lookup'["probe"].pc # "idle" => Uid(lookup["probe"].group)' # "none"
    BY <1>2, <1>4, <1>6 DEF PodsInv, Registries, Uid
  <1>9. seconds' \in Nat /\ token' \in Tokens /\ (\A x \in podGroups' : x[1] \in nodePods')
    BY <1>4 DEF PodsInv
  <1> QED BY <1>1, <1>4, <1>5, <1>7, <1>8, <1>9 DEF PodsInv, PodsAreMeasured

\* A step of a lookup that goes on.
LEMMA LookupGoesOn ==
    ASSUME PodsInv, NEW r \in Registries, NEW k \in Lookups, lookup[r].pc # "idle",
           lookup' = [lookup EXCEPT ![r] = k], k.group = lookup[r].group,
           k.pc \in {"write", "request"} => TokenIsFresh(k), token' \in Tokens,
           UNCHANGED <<plugged, annotateContainers, seconds, podWorld, missed>>
    PROVE  PodsInv'
  <1>1. lookup' \in [Registries -> Lookups]
    BY DEF PodsInv
  <1>2. lookup'[r] = k /\ \A x \in Registries : x # r => lookup'[x] = lookup[x]
    BY DEF PodsInv
  <1>3. UNCHANGED <<podGroups, nodePods>>
    BY DEF podWorld
  <1>4. \A x \in Registries : lookup'[x].pc \in {"write", "request"} => TokenIsFresh(lookup[x])'
    BY <1>2 DEF PodsInv, TokenIsFresh
  <1>5. plugged' = "started" /\ lookup'["probe"].pc # "idle" => Uid(lookup["probe"].group)' # "none"
    BY <1>2 DEF PodsInv, Registries, Uid
  <1>6. plugged' # "started" => lookup'["transform"].pc = "idle"
    BY <1>2 DEF PodsInv, Registries
  <1>7. seconds' \in Nat /\ (\A x \in podGroups' : x[1] \in nodePods') /\ missed' = {}
    BY <1>3 DEF PodsInv, PodsAreMeasured
  <1> QED BY <1>1, <1>4, <1>5, <1>6, <1>7 DEF PodsInv, PodsAreMeasured

\* The step CheckToken keeps the invariant.
LEMMA CheckTokenKeepsInv == ASSUME PodsInv, NEW r \in Registries, CheckToken(r) PROVE PodsInv'
  <1>1. lookup[r] \in Lookups /\ token \in Tokens /\ seconds \in Nat
    BY DEF PodsInv
  <1>2. CASE token.known /\ IsAlive(token)
    <2> DEFINE k == [lookup[r] EXCEPT !.pc = "request", !.token = token, !.at = seconds]
    <2>1. lookup' = [lookup EXCEPT ![r] = k]
      BY <1>2 DEF CheckToken, PodsInv
    <2>2. k \in Lookups /\ k.group = lookup[r].group /\ k.token = token /\ k.at = seconds
      BY <1>1 DEF Lookups
    <2>3. TokenIsFresh(k)
      BY <1>1, <1>2, <2>2 DEF TokenIsFresh, IsAlive
    <2> HIDE DEF k
    <2> QED BY <1>1, <2>1, <2>2, <2>3, LookupGoesOn DEF CheckToken
  <1>3. CASE ~(token.known /\ IsAlive(token))
    <2> DEFINE k == [lookup[r] EXCEPT !.pc = "read"]
    <2>1. lookup' = [lookup EXCEPT ![r] = k]
      BY <1>3 DEF CheckToken, PodsInv
    <2>2. k \in Lookups /\ k.group = lookup[r].group /\ k.pc = "read"
      BY <1>1 DEF Lookups
    <2> HIDE DEF k
    <2> QED BY <1>1, <2>1, <2>2, LookupGoesOn DEF CheckToken
  <1> QED BY <1>2, <1>3

\* The step ReadToken keeps the invariant.
LEMMA ReadTokenKeepsInv == ASSUME PodsInv, NEW r \in Registries, ReadToken(r) PROVE PodsInv'
  <1>1. lookup[r] \in Lookups /\ seconds \in Nat /\ Lifetime \in Nat /\ Lifetime > 0 /\ token \in Tokens
    BY K8sAssumption DEF PodsInv
  <1> DEFINE new == [known |-> TRUE, expires |-> seconds + Lifetime]
             k == [lookup[r] EXCEPT !.pc = "write", !.at = seconds, !.token = new]
  <1>2. lookup' = [lookup EXCEPT ![r] = k]
    BY DEF ReadToken, PodsInv
  <1>3. new \in Tokens /\ new.expires = seconds + Lifetime
    BY <1>1 DEF Tokens
  <1> HIDE DEF new
  <1>4. k \in Lookups /\ k.group = lookup[r].group /\ k.token = new /\ k.at = seconds
    BY <1>1, <1>3 DEF Lookups
  <1> HIDE DEF k
  <1>5. TokenIsFresh(k)
    BY <1>1, <1>3, <1>4 DEF TokenIsFresh
  <1> QED BY <1>1, <1>2, <1>4, <1>5, LookupGoesOn DEF ReadToken

\* The step WriteToken keeps the invariant.
LEMMA WriteTokenKeepsInv == ASSUME PodsInv, NEW r \in Registries, WriteToken(r) PROVE PodsInv'
  <1>1. lookup[r] \in Lookups /\ TokenIsFresh(lookup[r])
    BY DEF PodsInv, WriteToken
  <1> DEFINE k == [lookup[r] EXCEPT !.pc = "request"]
  <1>2. lookup' = [lookup EXCEPT ![r] = k] /\ token' = lookup[r].token
    BY DEF WriteToken, PodsInv
  <1>3. k \in Lookups /\ k.group = lookup[r].group /\ k.token = lookup[r].token /\ k.at = lookup[r].at
    BY <1>1 DEF Lookups
  <1> HIDE DEF k
  <1>4. TokenIsFresh(k) /\ token' \in Tokens
    BY <1>1, <1>2, <1>3 DEF TokenIsFresh, Lookups
  <1> QED BY <1>2, <1>3, <1>4, LookupGoesOn DEF WriteToken

\* The step ServiceFails keeps the invariant.
LEMMA ServiceFailsKeepsInv == ASSUME PodsInv, NEW r \in Registries, ServiceFails(r) PROVE PodsInv'
  BY EndLookupKeeps DEF ServiceFails

\* The step AnswerPods keeps the invariant.
LEMMA AnswerPodsKeepsInv == ASSUME PodsInv, NEW r \in Registries, AnswerPods(r) PROVE PodsInv'
  <1>1. lookup[r] \in Lookups /\ TokenIsFresh(lookup[r]) /\ lookup[r].pc = "request" /\ seconds \in Nat
    BY DEF PodsInv, AnswerPods
  <1>2. CASE seconds < lookup[r].token.expires
    <2> DEFINE isFound == plugged = "starting" \/ Uid(lookup[r].group) \in nodePods
    <2>1. EndLookup(r, isFound, FALSE)
      BY <1>2 DEF AnswerPods
    <2>2. CASE r = "probe"
      <3>1. plugged = "started" /\ lookup[r].group \in podGroups => isFound
        BY <1>1, <2>2, UidIsPod DEF PodsInv
      <3> HIDE DEF isFound
      <3>2. isFound \in BOOLEAN
        BY DEF isFound
      <3> QED BY <1>1, <2>1, <3>1, <3>2, EndLookupKeeps DEF AnswerPods
    <2>3. CASE r # "probe"
      <3>1. missed' = missed /\ plugged = "started" /\ plugged' = "started"
        BY <1>1, <2>1, <2>3 DEF EndLookup, PodsInv, Registries
      <3>2. lookup' = [lookup EXCEPT ![r] = NoLookup]
        BY <2>1 DEF EndLookup
      <3>3. UNCHANGED <<annotateContainers, seconds, token, podGroups, nodePods>>
        BY DEF AnswerPods, podWorld
      <3>4. lookup' \in [Registries -> Lookups]
        BY <3>2, NoLookupTyped DEF PodsInv
      <3>5. lookup'[r].pc = "idle" /\ \A x \in Registries : x # r => lookup'[x] = lookup[x]
        BY <3>2, NoLookupTyped DEF PodsInv
      <3>6. \A x \in Registries : lookup'[x].pc \in {"write", "request"} => TokenIsFresh(lookup[x])'
        BY <3>3, <3>5 DEF PodsInv, TokenIsFresh
      <3>7. lookup'["probe"].pc # "idle" => Uid(lookup["probe"].group)' # "none"
        BY <2>3, <3>1, <3>3, <3>5 DEF PodsInv, Registries, Uid
      <3> QED BY <3>1, <3>3, <3>4, <3>6, <3>7 DEF PodsInv, PodsAreMeasured
    <2> QED BY <2>2, <2>3
  <1>3. CASE ~(seconds < lookup[r].token.expires)
    <2>1. lookup[r].at # seconds
      BY <1>1, <1>3 DEF TokenIsFresh
    <2>2. EndLookup(r, FALSE, TRUE)
      BY <1>3, <2>1 DEF AnswerPods
    <2> QED BY <1>1, <2>2, EndLookupKeeps DEF AnswerPods
  <1> QED BY <1>2, <1>3

\* The life of the pods, and the time, keep the invariant.
LEMMA PodsLiveOn ==
    ASSUME PodsInv,
           \/ \E p \in Pods : SchedulePod(p) \/ RemovePodGroups(p) \/ ForgetPod(p)
           \/ \E g \in PodPaths : CreatePodGroup(g)
    PROVE  PodsInv'
  <1>1. UNCHANGED <<plugged, annotateContainers, seconds, token, lookup, missed>>
    BY DEF SchedulePod, RemovePodGroups, ForgetPod, CreatePodGroup
  <1>2. \A g \in podGroups' : g[1] \in nodePods'
    <2>1. ASSUME NEW p \in Pods, SchedulePod(p) PROVE \A g \in podGroups' : g[1] \in nodePods'
      BY <2>1 DEF SchedulePod, PodsInv
    <2>2. ASSUME NEW p \in Pods, RemovePodGroups(p) PROVE \A g \in podGroups' : g[1] \in nodePods'
      BY <2>2 DEF RemovePodGroups, PodsInv
    <2>3. ASSUME NEW p \in Pods, ForgetPod(p) PROVE \A g \in podGroups' : g[1] \in nodePods'
      BY <2>3 DEF ForgetPod, PodsInv
    <2>4. ASSUME NEW g \in PodPaths, CreatePodGroup(g) PROVE \A x \in podGroups' : x[1] \in nodePods'
      BY <2>4 DEF CreatePodGroup, PodsInv
    <2> QED BY <2>1, <2>2, <2>3, <2>4
  <1> QED BY <1>1, <1>2 DEF PodsInv, PodsAreMeasured, TokenIsFresh, Uid

\* Time makes the token of a lookup older, never fresher.
LEMMA K8sTimeKeepsInv == ASSUME PodsInv, K8sTime PROVE PodsInv'
  <1>1. UNCHANGED <<plugged, annotateContainers, token, lookup, missed, podGroups, nodePods>>
    BY DEF K8sTime, podWorld
  <1>2. seconds' = seconds + 1 /\ seconds' \in Nat
    BY DEF K8sTime, PodsInv
  <1>3. ASSUME NEW r \in Registries, lookup[r].pc \in {"write", "request"} PROVE TokenIsFresh(lookup[r])'
    <2>1. lookup[r].at \in Nat /\ lookup[r].at =< seconds /\ seconds \in Nat
      BY <1>3 DEF PodsInv, TokenIsFresh, Lookups
    <2> QED BY <1>1, <1>2, <2>1 DEF TokenIsFresh
  <1>4. \A r \in Registries : lookup'[r].pc \in {"write", "request"} => TokenIsFresh(lookup[r])'
    BY <1>1, <1>3
  <1> QED BY <1>1, <1>2, <1>4 DEF PodsInv, PodsAreMeasured, Uid

\* Every step keeps the invariant.
LEMMA PodsStep == PodsInv /\ [K8sNext]_k8sVars => PodsInv'
  <1> SUFFICES ASSUME PodsInv, K8sNext \/ UNCHANGED k8sVars PROVE PodsInv'
    OBVIOUS
  <1>1. CASE UNCHANGED k8sVars
    BY <1>1 DEF k8sVars, podWorld, PodsInv, PodsAreMeasured, TokenIsFresh, Uid
  <1>2. CASE K8sNext
    BY <1>2, StartK8sKeepsInv, LookupKeepsInv, CheckTokenKeepsInv, ReadTokenKeepsInv, WriteTokenKeepsInv,
       ServiceFailsKeepsInv, AnswerPodsKeepsInv, PodsLiveOn, K8sTimeKeepsInv DEF K8sNext
  <1> QED BY <1>1, <1>2

\* The probe finds the pod of every cgroup that exists when it looks, unless a service fails or
\* the token expires between its check and its use, for every lifetime of the token and whatever
\* the other clone of the registry does to it.
THEOREM PodsAreFound == K8sSpec => []PodsAreMeasured
  <1>1. PodsInv => PodsAreMeasured
    BY DEF PodsInv
  <1> QED BY <1>1, PodsInitOK, PodsStep, PTL DEF K8sSpec

-------------------------------------------------------------------------------
(* The units of the metrics.                                                  *)

\* The names of the units.
LEMMA UnitTable ==
    /\ DOMAIN UnitNames = {"Unity", "Second", "Watt", "Joule", "Volt", "Ampere", "Hertz",
                           "DegreeCelsius", "DegreeFahrenheit", "WattHour", "Byte", "Percent"}
    /\ UnitNames["Unity"][1] = "1" /\ UnitNames["Second"][1] = "s"
    /\ UnitNames["Watt"][1] = "W" /\ UnitNames["Joule"][1] = "J"
    /\ UnitNames["Volt"][1] = "V" /\ UnitNames["Ampere"][1] = "A"
    /\ UnitNames["Hertz"][1] = "Hz" /\ UnitNames["DegreeCelsius"][1] = "Cel"
    /\ UnitNames["DegreeFahrenheit"][1] = "[degF]" /\ UnitNames["WattHour"][1] = "W.h"
    /\ UnitNames["Byte"][1] = "By" /\ UnitNames["Percent"][1] = "%"
  BY DEF UnitNames

\* The unique names of the prefixes.
LEMMA PrefixTable ==
    /\ DOMAIN PrefixNames = {"Nano", "Micro", "Milli", "Plain", "Kilo", "Mega", "Giga"}
    /\ PrefixNames["Nano"][1] = "nano"
    /\ PrefixNames["Micro"][1] = "micro"
    /\ PrefixNames["Milli"][1] = "milli"
    /\ PrefixNames["Plain"][1] = ""
    /\ PrefixNames["Kilo"][1] = "kilo"
    /\ PrefixNames["Mega"][1] = "mega"
    /\ PrefixNames["Giga"][1] = "giga"
  BY DEF PrefixNames

\* All the names of the prefixes.
LEMMA PrefixRanges ==
    /\ Range(PrefixNames["Nano"]) = {"nano", "n"}
    /\ Range(PrefixNames["Micro"]) = {"micro", "u"}
    /\ Range(PrefixNames["Milli"]) = {"milli", "m"}
    /\ Range(PrefixNames["Plain"]) = {"", ""}
    /\ Range(PrefixNames["Kilo"]) = {"kilo", "k"}
    /\ Range(PrefixNames["Mega"]) = {"mega", "M"}
    /\ Range(PrefixNames["Giga"]) = {"giga", "G"}
  <1>1. Range(PrefixNames["Nano"]) = {"nano", "n"}
    <2>1. PrefixNames["Nano"] = <<"nano", "n">>
      BY DEF PrefixNames
    <2>2. DOMAIN PrefixNames["Nano"] = {1, 2}
      BY <2>1
    <2> QED BY <2>1, <2>2 DEF Range
  <1>2. Range(PrefixNames["Micro"]) = {"micro", "u"}
    <2>1. PrefixNames["Micro"] = <<"micro", "u">>
      BY DEF PrefixNames
    <2>2. DOMAIN PrefixNames["Micro"] = {1, 2}
      BY <2>1
    <2> QED BY <2>1, <2>2 DEF Range
  <1>3. Range(PrefixNames["Milli"]) = {"milli", "m"}
    <2>1. PrefixNames["Milli"] = <<"milli", "m">>
      BY DEF PrefixNames
    <2>2. DOMAIN PrefixNames["Milli"] = {1, 2}
      BY <2>1
    <2> QED BY <2>1, <2>2 DEF Range
  <1>4. Range(PrefixNames["Plain"]) = {"", ""}
    <2> DEFINE e == ""
    <2>1. PrefixNames["Plain"] = <<e, e>>
      BY DEF PrefixNames
    <2> HIDE DEF e
    <2>2. DOMAIN PrefixNames["Plain"] = {1, 2}
      BY <2>1
    <2>3. \A k \in {1, 2} : PrefixNames["Plain"][k] = e
      BY <2>1
    <2>4. Range(PrefixNames["Plain"]) = {e}
      BY <2>2, <2>3 DEF Range
    <2> QED BY <2>4 DEF e
  <1>5. Range(PrefixNames["Kilo"]) = {"kilo", "k"}
    <2>1. PrefixNames["Kilo"] = <<"kilo", "k">>
      BY DEF PrefixNames
    <2>2. DOMAIN PrefixNames["Kilo"] = {1, 2}
      BY <2>1
    <2> QED BY <2>1, <2>2 DEF Range
  <1>6. Range(PrefixNames["Mega"]) = {"mega", "M"}
    <2>1. PrefixNames["Mega"] = <<"mega", "M">>
      BY DEF PrefixNames
    <2>2. DOMAIN PrefixNames["Mega"] = {1, 2}
      BY <2>1
    <2> QED BY <2>1, <2>2 DEF Range
  <1>7. Range(PrefixNames["Giga"]) = {"giga", "G"}
    <2>1. PrefixNames["Giga"] = <<"giga", "G">>
      BY DEF PrefixNames
    <2>2. DOMAIN PrefixNames["Giga"] = {1, 2}
      BY <2>1
    <2> QED BY <2>1, <2>2 DEF Range
  <1> QED BY <1>1, <1>2, <1>3, <1>4, <1>5, <1>6, <1>7

\* Every unique name of a unit is that of one unit only.
LEMMA UnitNamesDiffer ==
    \A u, v \in DOMAIN UnitNames : UnitNames[u][1] = UnitNames[v][1] => u = v
  BY UnitTable

\* Every unique name of a prefix is a name of this prefix only.
LEMMA PrefixNamesDiffer ==
    \A q, p \in DOMAIN PrefixNames : PrefixNames[q][1] \in Range(PrefixNames[p]) <=> q = p
  <1>1. \A q \in DOMAIN PrefixNames : PrefixNames[q][1] \in Range(PrefixNames["Nano"]) <=> q = "Nano"
    BY PrefixTable, PrefixRanges
  <1>2. \A q \in DOMAIN PrefixNames : PrefixNames[q][1] \in Range(PrefixNames["Micro"]) <=> q = "Micro"
    BY PrefixTable, PrefixRanges
  <1>3. \A q \in DOMAIN PrefixNames : PrefixNames[q][1] \in Range(PrefixNames["Milli"]) <=> q = "Milli"
    BY PrefixTable, PrefixRanges
  <1>4. \A q \in DOMAIN PrefixNames : PrefixNames[q][1] \in Range(PrefixNames["Plain"]) <=> q = "Plain"
    BY PrefixTable, PrefixRanges
  <1>5. \A q \in DOMAIN PrefixNames : PrefixNames[q][1] \in Range(PrefixNames["Kilo"]) <=> q = "Kilo"
    BY PrefixTable, PrefixRanges
  <1>6. \A q \in DOMAIN PrefixNames : PrefixNames[q][1] \in Range(PrefixNames["Mega"]) <=> q = "Mega"
    BY PrefixTable, PrefixRanges
  <1>7. \A q \in DOMAIN PrefixNames : PrefixNames[q][1] \in Range(PrefixNames["Giga"]) <=> q = "Giga"
    BY PrefixTable, PrefixRanges
  <1> QED BY PrefixTable, <1>1, <1>2, <1>3, <1>4, <1>5, <1>6, <1>7

\* The unique name of a unit is parsed into this unit.
LEMMA UnitIsParsed ==
    ASSUME NEW u \in DOMAIN UnitNames
    PROVE  ParseUnit(UnitNames[u][1]) = StandardUnit(u)
  BY UnitNamesDiffer DEF ParseUnit

\* The unique name of a prefix is parsed into this prefix.
LEMMA PrefixIsParsed ==
    ASSUME NEW q \in DOMAIN PrefixNames
    PROVE  ParsePrefix(PrefixNames[q][1]) = q
  BY PrefixNamesDiffer DEF ParsePrefix

\* A standard unit is a valid one.
LEMMA ValidUnit == \A u : StandardUnit(u) # Invalid
  BY DEF StandardUnit, Invalid

\* The first prefix with which the name of a prefix begins is this prefix.
LEMMA FirstPrefix ==
    ASSUME NEW q \in DOMAIN PrefixNames, NEW text, text.head = PrefixNames[q][1]
    PROVE  \E i \in DOMAIN PrefixOrder :
              /\ PrefixOrder[i] = text.head
              /\ StartsWith(text, PrefixOrder[i])
              /\ \A j \in 1..(i - 1) : ~StartsWith(text, PrefixOrder[j])
  <1>0. DOMAIN Beginnings = {"k", "m", "n"} /\ Beginnings["k"] = {"kilo"}
        /\ Beginnings["m"] = {"mega", "milli", "micro"} /\ Beginnings["n"] = {"nano"}
    BY DEF Beginnings
  <1>1. DOMAIN PrefixOrder = 1..13
    BY DEF PrefixOrder
  <1>2. /\ PrefixOrder[1] = "giga" /\ PrefixOrder[2] = "mega" /\ PrefixOrder[3] = "kilo"
        /\ PrefixOrder[4] = "milli" /\ PrefixOrder[5] = "micro" /\ PrefixOrder[6] = "nano"
        /\ PrefixOrder[7] = "G" /\ PrefixOrder[8] = "M" /\ PrefixOrder[9] = "k"
        /\ PrefixOrder[10] = "m" /\ PrefixOrder[11] = "u" /\ PrefixOrder[12] = "n"
        /\ PrefixOrder[13] = ""
    BY DEF PrefixOrder
  <1>3. text.head \in {"giga", "mega", "kilo", "milli", "micro", "nano", ""}
    BY PrefixTable
  <1>4. ASSUME NEW name, name \notin {"", text.head, "k", "m", "n"} PROVE ~StartsWith(text, name)
    BY <1>0, <1>4 DEF StartsWith
  <1>5. StartsWith(text, text.head) /\ StartsWith(text, "")
    BY DEF StartsWith
  <1>6. ASSUME NEW n \in 1..6, PrefixOrder[n] = text.head
        PROVE  \A j \in 1..(n - 1) : ~StartsWith(text, PrefixOrder[j])
    <2> SUFFICES ASSUME NEW j \in 1..(n - 1) PROVE ~StartsWith(text, PrefixOrder[j])
      OBVIOUS
    <2>1. n \in {1, 2, 3, 4, 5, 6} /\ j \in {1, 2, 3, 4, 5} /\ j # n
      OBVIOUS
    <2>2. PrefixOrder[j] \notin {"", text.head, "k", "m", "n"}
      <3>1. PrefixOrder[j] \in {"giga", "mega", "kilo", "milli", "micro"}
        BY <1>2, <2>1
      <3>2. \A k, m \in {1, 2, 3, 4, 5, 6} : PrefixOrder[k] = PrefixOrder[m] => k = m
        <4>1. \A m \in {1, 2, 3, 4, 5, 6} : PrefixOrder[1] = PrefixOrder[m] => m = 1
          BY <1>2
        <4>2. \A m \in {1, 2, 3, 4, 5, 6} : PrefixOrder[2] = PrefixOrder[m] => m = 2
          BY <1>2
        <4>3. \A m \in {1, 2, 3, 4, 5, 6} : PrefixOrder[3] = PrefixOrder[m] => m = 3
          BY <1>2
        <4>4. \A m \in {1, 2, 3, 4, 5, 6} : PrefixOrder[4] = PrefixOrder[m] => m = 4
          BY <1>2
        <4>5. \A m \in {1, 2, 3, 4, 5, 6} : PrefixOrder[5] = PrefixOrder[m] => m = 5
          BY <1>2
        <4>6. \A m \in {1, 2, 3, 4, 5, 6} : PrefixOrder[6] = PrefixOrder[m] => m = 6
          BY <1>2
        <4> QED BY <4>1, <4>2, <4>3, <4>4, <4>5, <4>6
      <3>3. j \in {1, 2, 3, 4, 5, 6}
        BY <2>1
      <3>4. PrefixOrder[j] # text.head
        BY <1>6, <2>1, <3>2, <3>3
      <3> QED BY <3>1, <3>4
    <2> QED BY <1>4, <2>2
  <1>7. CASE text.head = ""
    <2>1. ASSUME NEW j \in 1..12 PROVE ~StartsWith(text, PrefixOrder[j])
      <3>1. CASE PrefixOrder[j] \in {"k", "m", "n"}
        <4>1. PrefixOrder[j] \notin {"", text.head} /\ text.head \notin Beginnings[PrefixOrder[j]]
          BY <1>0, <1>7, <3>1
        <4> QED BY <4>1 DEF StartsWith
      <3>2. CASE PrefixOrder[j] \notin {"k", "m", "n"}
        <4>1. j \in {1, 2, 3, 4, 5, 6, 7, 8, 9, 10, 11, 12}
          OBVIOUS
        <4>2. PrefixOrder[j] # ""
          BY <1>2, <4>1
        <4> QED BY <1>4, <1>7, <3>2, <4>2
      <3> QED BY <3>1, <3>2
    <2>2. 13 \in DOMAIN PrefixOrder /\ 1..(13 - 1) = 1..12
      BY <1>1
    <2> QED BY <1>2, <1>5, <1>7, <2>1, <2>2
  <1>8. CASE text.head # ""
    <2>1. PICK n \in 1..6 : PrefixOrder[n] = text.head
      <3>1. /\ 1 \in 1..6 /\ 2 \in 1..6 /\ 3 \in 1..6 /\ 4 \in 1..6 /\ 5 \in 1..6 /\ 6 \in 1..6
        OBVIOUS
      <3> QED BY <1>2, <1>3, <1>8, <3>1
    <2>2. n \in DOMAIN PrefixOrder
      BY <1>1
    <2> QED BY <1>5, <1>6, <2>1, <2>2
  <1> QED BY <1>7, <1>8

\* The unique name of a prefixed unit is parsed as this unit.
LEMMA NameIsParsed ==
    ASSUME NEW q \in DOMAIN PrefixNames, NEW u \in DOMAIN UnitNames
    PROVE  /\ ParsePrefixedUnit(UniqueName(WithPrefix(StandardUnit(u), q))) = WithPrefix(StandardUnit(u), q)
           /\ WithPrefix(StandardUnit(u), q) # Invalid
  <1> DEFINE text == UniqueName(WithPrefix(StandardUnit(u), q))
             Fits(n) == /\ StartsWith(text, PrefixOrder[n])
                        /\ \A j \in 1..(n - 1) : ~StartsWith(text, PrefixOrder[j])
  <1>1. text.head = PrefixNames[q][1] /\ text.rest = UnitNames[u][1]
    BY DEF UniqueName, WithPrefix, StandardUnit
  <1> HIDE DEF text
  <1>2. PICK n \in DOMAIN PrefixOrder : PrefixOrder[n] = text.head /\ Fits(n)
    BY <1>1, FirstPrefix
  <1>3. \A m \in DOMAIN PrefixOrder : Fits(m) => m = n
    <2>1. DOMAIN PrefixOrder = 1..13
      BY DEF PrefixOrder
    <2> QED BY <1>2, <2>1
  <1>4. (CHOOSE m \in DOMAIN PrefixOrder : Fits(m)) = n
    BY <1>2, <1>3
  <1>5. ParseUnit(text.rest) = StandardUnit(u) /\ StandardUnit(u) # Invalid /\ ParsePrefix(text.head) = q
    BY <1>1, UnitIsParsed, PrefixIsParsed, ValidUnit
  <1>6. ParsePrefixedUnit(text) = WithPrefix(StandardUnit(u), q)
    BY <1>2, <1>4, <1>5 DEF ParsePrefixedUnit
  <1>7. WithPrefix(StandardUnit(u), q) # Invalid
    BY DEF WithPrefix, Invalid
  <1> QED BY <1>6, <1>7 DEF text

\* The unique name of a unit is not one of the names that are replaced.
LEMMA NameIsKept ==
    ASSUME NEW q \in DOMAIN PrefixNames, NEW u \in DOMAIN UnitNames
    PROVE  LET text == UniqueName(WithPrefix(StandardUnit(u), q))
           IN  NormalizeUnit(text) = text /\ text # Word("total")
  <1> DEFINE text == UniqueName(WithPrefix(StandardUnit(u), q))
  <1>1. text.head = PrefixNames[q][1] /\ text.rest = UnitNames[u][1]
    BY DEF UniqueName, WithPrefix, StandardUnit
  <1> HIDE DEF text
  <1>2. text.rest \notin {"watt", "total"} /\ text.rest \notin DOMAIN NormalizedUnits
    <2>1. DOMAIN NormalizedUnits = {"watt", "watthour", "celsius", "percent", "VA", "VAr", "amp", "ampere", "volt",
                                    "hertz", "lux", "deg", "cfm", "bytes", "packets"}
      BY DEF NormalizedUnits
    <2> QED BY <1>1, <2>1, UnitTable
  <1>3. text # Text("kilo", "watt") /\ text # Word("total")
    <2>1. Text("kilo", "watt").rest = "watt" /\ Word("total").rest = "total"
      BY DEF Text, Word
    <2> QED BY <1>2, <2>1
  <1>4. NormalizeUnit(text) = text
    BY <1>2, <1>3 DEF NormalizeUnit
  <1> QED BY <1>3, <1>4 DEF text

-------------------------------------------------------------------------------
(* The source of the end of a measurement.                                    *)

\* The first requests are sent and handled in their order, each once; a task that ends has been
\* told to stop, or has polled.
KwOrder ==
    /\ kwRequests \in {<<>>, <<"add">>, <<"trigger">>}
    /\ kwHandler \in {"none", "adding"} => kwTask = "none"
    /\ kwHandler = "none" => kwRequests = <<>>
    /\ kwHandler \in {"none", "adding", "triggering"} => kwStop = FALSE
    /\ kwHandler \in {"none", "adding", "triggering", "failed"} => kwPermit = FALSE /\ kwPolls = 0
    /\ kwHandler = "adding" => kwRequests = <<"add">>
    /\ kwHandler = "triggering" => kwRequests = <<"trigger">>
    /\ kwHandler \in {"triggering", "failed"} =>
         kwTask \in {"none", "spawned", "waiting"} \/ (kwTask = "ended" /\ kwStop)
    /\ kwHandler = "triggering" => kwTask # "none"
    /\ kwHandler = "done" => kwRequests = <<>>
    /\ kwRequests = <<"add">> => kwTask = "none"
    /\ kwRequests = <<"trigger">> => kwTask # "none"
    /\ kwHandler \in {"none", "adding", "triggering", "done", "failed"}

\* The permit of the request is taken by one poll, unless the task has been stopped.
KwMeasured ==
    kwHandler = "done" =>
        \/ kwPermit /\ kwPolls = 0 /\ (kwTask \in {"spawned", "waiting"} \/ (kwTask = "ended" /\ kwStop))
        \/ ~kwPermit /\ kwPolls = 0 /\ kwTask = "polling"
        \/ ~kwPermit /\ kwPolls = 1 /\ kwTask \in {"updating", "waiting", "ended", "failed"}

\* The type of the two flags.
KwTyped == kwPermit \in BOOLEAN /\ kwStop \in BOOLEAN

\* The names of the metrics are names of the configuration; the units, when they are known, are
\* those of the names.
KwUnitsOfNames ==
    /\ \E n \in 1..KwMetrics : kwNames \in [1..n -> KwNames]
    /\ kwUnits = <<>> \/ kwUnits = [i \in DOMAIN kwNames |-> UnitOf(UnitOfName(kwNames[i]))]

KwInv == KwOrder /\ KwMeasured /\ KwTyped /\ KwUnitsOfNames

\* The invariant holds initially.
LEMMA KwInitOK == KwollectInit => KwInv
  <1> SUFFICES ASSUME KwollectInit PROVE KwInv
    OBVIOUS
  <1>1. KwUnitsOfNames
    BY DEF KwollectInit, KwUnitsOfNames
  <1>2. <<>> # <<"add">> /\ <<>> # <<"trigger">>
    OBVIOUS
  <1> QED BY <1>1, <1>2 DEF KwollectInit, KwInv, KwOrder, KwMeasured, KwTyped

\* The steps after the creation of the metrics leave them alone.
LEMMA KwUnitsStay == ASSUME KwInv, UNCHANGED unitsOnly PROVE KwUnitsOfNames'
  BY DEF KwInv, KwUnitsOfNames, unitsOnly

\* The step CreateMetrics keeps the invariant.
LEMMA CreateMetricsKeepsInv == ASSUME KwInv, CreateMetrics PROVE KwInv'
  BY DEF CreateMetrics, KwInv, KwOrder, KwMeasured, KwTyped, KwUnitsOfNames

\* The step EndConsumerMeasurement keeps the invariant.
LEMMA EndConsumerMeasurementKeepsInv == ASSUME KwInv, EndConsumerMeasurement PROVE KwInv'
  <1>1. KwUnitsOfNames'
    BY KwUnitsStay DEF EndConsumerMeasurement
  <1> QED BY <1>1 DEF EndConsumerMeasurement, KwInv, KwOrder, KwMeasured, KwTyped

\* The heads and tails of the requests.
LEMMA KwHeads ==
    /\ Head(<<"add">>) = "add" /\ Tail(<<"add">>) = <<>>
    /\ Head(<<"trigger">>) = "trigger" /\ Tail(<<"trigger">>) = <<>>
    /\ Append(<<>>, "trigger") = <<"trigger">>
    /\ <<"add">> # <<"trigger">> /\ <<"add">> # <<>> /\ <<"trigger">> # <<>>
  OBVIOUS

\* The step HandleAdd keeps the invariant.
LEMMA HandleAddKeepsInv == ASSUME KwInv, HandleAdd PROVE KwInv'
  <1>1. KwUnitsOfNames'
    BY KwUnitsStay DEF HandleAdd
  <1>2. kwRequests = <<"add">>
    BY KwHeads DEF HandleAdd, KwInv, KwOrder
  <1>3. kwHandler \in {"adding", "failed"}
    BY <1>2, KwHeads DEF KwInv, KwOrder
  <1>4. kwTask' = "spawned" /\ UNCHANGED <<kwPermit, kwStop, kwPolls>>
    BY DEF HandleAdd
  <1>5. CASE kwHandler = "adding"
    <2>1. kwHandler' = "triggering" /\ kwRequests' = <<"trigger">>
      BY <1>2, <1>5, KwHeads DEF HandleAdd
    <2> QED BY <1>1, <1>4, <1>5, <2>1, KwHeads DEF KwInv, KwOrder, KwMeasured, KwTyped
  <1>6. CASE kwHandler = "failed"
    <2>1. kwHandler' = "failed" /\ kwRequests' = <<>>
      BY <1>2, <1>6, KwHeads DEF HandleAdd
    <2> QED BY <1>1, <1>4, <1>6, <2>1, KwHeads DEF KwInv, KwOrder, KwMeasured, KwTyped
  <1> QED BY <1>3, <1>5, <1>6

\* The step HandleTrigger keeps the invariant.
LEMMA HandleTriggerKeepsInv == ASSUME KwInv, HandleTrigger PROVE KwInv'
  <1>1. KwUnitsOfNames'
    BY KwUnitsStay DEF HandleTrigger
  <1>2. kwRequests = <<"trigger">> /\ kwRequests' = <<>>
    BY KwHeads DEF HandleTrigger, KwInv, KwOrder
  <1>3. kwHandler \in {"triggering", "failed"}
    BY <1>2, KwHeads DEF KwInv, KwOrder
  <1>4. kwHandler' = "done" /\ kwPermit' = TRUE /\ ~kwStop /\ UNCHANGED <<kwTask, kwStop, kwPolls>>
    BY DEF HandleTrigger, Trigger
  <1>5. kwTask \in {"spawned", "waiting"} /\ kwPolls = 0
    BY <1>2, <1>3, <1>4 DEF KwInv, KwOrder
  <1> QED BY <1>1, <1>2, <1>4, <1>5, KwHeads DEF KwInv, KwOrder, KwMeasured, KwTyped

\* The step RequestTimeout keeps the invariant.
LEMMA RequestTimeoutKeepsInv == ASSUME KwInv, RequestTimeout PROVE KwInv'
  <1>1. KwUnitsOfNames'
    BY KwUnitsStay DEF RequestTimeout
  <1> QED BY <1>1, KwHeads DEF RequestTimeout, KwInv, KwOrder, KwMeasured, KwTyped

\* The step ShutdownPipeline keeps the invariant.
LEMMA ShutdownPipelineKeepsInv == ASSUME KwInv, ShutdownPipeline PROVE KwInv'
  <1>1. KwUnitsOfNames'
    BY KwUnitsStay DEF ShutdownPipeline
  <1> QED BY <1>1 DEF ShutdownPipeline, KwInv, KwOrder, KwMeasured, KwTyped

\* The step LookAtState keeps the invariant.
LEMMA LookAtStateKeepsInv == ASSUME KwInv, LookAtState PROVE KwInv'
  <1>1. KwUnitsOfNames'
    BY KwUnitsStay DEF LookAtState
  <1> QED BY <1>1 DEF LookAtState, KwInv, KwOrder, KwMeasured, KwTyped

\* The step Triggered keeps the invariant.
LEMMA TriggeredKeepsInv == ASSUME KwInv, Triggered PROVE KwInv'
  <1>1. KwUnitsOfNames'
    BY KwUnitsStay DEF Triggered
  <1> QED BY <1>1 DEF Triggered, KwInv, KwOrder, KwMeasured, KwTyped

\* A poll keeps the invariant, whether it fails or not.
LEMMA PollsKeepInv ==
    ASSUME KwInv, PollKwollectFails \/ \E measures \in SUBSET KwMeasures : PollKwollect(measures)
    PROVE  KwInv'
  <1>1. /\ UNCHANGED unitsOnly /\ kwTask = "polling" /\ kwTask' \in {"updating", "failed"}
        /\ kwPolls' = kwPolls + 1 /\ UNCHANGED <<kwRequests, kwHandler, kwPermit, kwStop>>
    BY DEF PollKwollect, PollKwollectFails
  <1>2. KwUnitsOfNames'
    BY <1>1, KwUnitsStay
  <1>3. kwHandler = "done" /\ kwPolls = 0 /\ ~kwPermit
    BY <1>1 DEF KwInv, KwOrder, KwMeasured
  <1> QED BY <1>1, <1>2, <1>3, KwHeads DEF KwInv, KwOrder, KwMeasured, KwTyped

\* Every step keeps the invariant.
LEMMA KwStep == KwInv /\ [KwollectNext]_kwVars => KwInv'
  <1> SUFFICES ASSUME KwInv, KwollectNext \/ UNCHANGED kwVars PROVE KwInv'
    OBVIOUS
  <1>1. CASE UNCHANGED kwVars
    BY <1>1 DEF kwVars, KwInv, KwOrder, KwMeasured, KwTyped, KwUnitsOfNames
  <1>2. CASE KwollectNext
    BY <1>2, CreateMetricsKeepsInv, EndConsumerMeasurementKeepsInv, HandleAddKeepsInv,
       HandleTriggerKeepsInv, RequestTimeoutKeepsInv, ShutdownPipelineKeepsInv,
       LookAtStateKeepsInv, TriggeredKeepsInv, PollsKeepInv DEF KwollectNext
  <1> QED BY <1>1, <1>2

\* The invariant says that the measurement of the event is made.
LEMMA KwInvMeasures == KwInv => EventIsMeasured
  BY DEF KwInv, KwOrder, KwMeasured, EventIsMeasured

\* A name that ends with the name of a unit has this unit.
LEMMA NamedUnit ==
    ASSUME NEW name \in KwNames, NEW p \in StandardUnits, Last(name) = UniqueName(p)
    PROVE  UnitOf(UnitOfName(name)) = p
  <1>1. PICK u \in DOMAIN UnitNames, q \in DOMAIN PrefixNames : p = WithPrefix(StandardUnit(u), q)
    BY DEF StandardUnits
  <1>2. name[Len(name)] = UniqueName(p)
    BY DEF Last
  <1>3. UniqueName(p) # Word("total") /\ NormalizeUnit(UniqueName(p)) = UniqueName(p)
    BY <1>1, NameIsKept
  <1>4. UnitOfName(name) = UniqueName(p)
    BY <1>2, <1>3 DEF UnitOfName
  <1>5. ParsePrefixedUnit(UniqueName(p)) = p /\ p # Invalid
    BY <1>1, NameIsParsed
  <1> QED BY <1>4, <1>5 DEF UnitOf

\* A unit is the same as itself.
LEMMA SameUnitItself == ASSUME NEW u PROVE SameUnit(u, u)
  BY DEF SameUnit

\* The count of a metric has the unit of the metric.
LEMMA CountedUnit ==
    ASSUME NEW other \in KwNames, Len(other) >= 2,
           Last(other) \notin {Word("total"), Word("error"), Word("discard")},
           NEW more \in {<<Word("total")>>, <<Word("error"), Word("total")>>,
                         <<Word("discard"), Word("total")>>}
    PROVE  UnitOfName(other \o more) = UnitOfName(other)
  <1> DEFINE Words == [head : STRING, rest : STRING] \union {Word("total"), Word("error"), Word("discard")}
             n == Len(other)
             long == other \o more
  <1>1. other \in Seq(Words) /\ n \in Nat /\ n >= 2
    <2> DEFINE Texts == [head : STRING, rest : STRING]
    <2>1. other \in Seq(Texts)
      BY KwollectAssumption
    <2>2. Texts \subseteq Words
      OBVIOUS
    <2> HIDE DEF Texts, Words
    <2> QED BY <2>1, <2>2
  <1>2. Word("total") \in Words /\ Word("error") \in Words /\ Word("discard") \in Words
    OBVIOUS
  <1>3. Word("total") # Word("error") /\ Word("total") # Word("discard")
    <2>1. Word("total").rest = "total" /\ Word("error").rest = "error" /\ Word("discard").rest = "discard"
      BY DEF Word, Text
    <2> QED BY <2>1
  <1>4. other[n] \notin {Word("total"), Word("error"), Word("discard")}
    BY DEF Last
  <1>5. UnitOfName(other) = NormalizeUnit(other[n])
    BY <1>4 DEF UnitOfName
  <1> DEFINE t == Word("total")
             e == Word("error")
             d == Word("discard")
  <1>6. CASE more = <<t>>
    <2>1. Len(long) = n + 1 /\ long[n + 1] = t /\ long[n] = other[n]
      <3> HIDE DEF t, Words
      <3> QED BY <1>1, <1>2, <1>6 DEF t
    <2>2. (n + 1) - 1 = n /\ ~(n + 1 < 3)
      BY <1>1
    <2> QED BY <1>4, <1>5, <2>1, <2>2 DEF UnitOfName
  <1>7. CASE more \in {<<e, t>>, <<d, t>>}
    <2>1. Len(long) = n + 2 /\ long[n + 2] = t /\ long[n + 1] \in {e, d} /\ long[n] = other[n]
      <3>1. t \in Words /\ e \in Words /\ d \in Words
        BY <1>2
      <3>2. PICK x \in {e, d} : more = <<x, t>>
        BY <1>7
      <3> HIDE DEF t, e, d, Words
      <3>3. more \in Seq(Words) /\ Len(more) = 2 /\ more[1] = x /\ more[2] = t
        BY <3>1, <3>2
      <3> QED BY <1>1, <3>2, <3>3
    <2>2. (n + 2) - 1 = n + 1 /\ (n + 2) - 2 = n /\ ~(n + 2 < 3)
      BY <1>1
    <2> QED BY <1>5, <2>1, <2>2 DEF UnitOfName
  <1> QED BY <1>6, <1>7

\* The invariant says that the units follow the names.
LEMMA KwInvNames == KwInv => UnitsFollowNames
  <1> SUFFICES ASSUME KwUnitsOfNames, NEW i \in DOMAIN kwUnits
               PROVE  LET name == kwNames[i] IN
                      /\ \A p \in StandardUnits : Last(name) = UniqueName(p) => SameUnit(kwUnits[i], p)
                      /\ \A j \in DOMAIN kwUnits : LET other == kwNames[j] IN
                           /\ Len(other) >= 2 /\ Last(other) \notin {Word("total"), Word("error"), Word("discard")}
                           /\ name \in {other \o more : more \in {<<Word("total")>>,
                                <<Word("error"), Word("total")>>, <<Word("discard"), Word("total")>>}}
                           => SameUnit(kwUnits[i], kwUnits[j])
    BY DEF KwInv, UnitsFollowNames
  <1>1. ASSUME NEW j \in DOMAIN kwUnits
        PROVE  kwNames[j] \in KwNames /\ kwUnits[j] = UnitOf(UnitOfName(kwNames[j]))
    <2>1. DOMAIN kwUnits # {}
      OBVIOUS
    <2>2. kwUnits = [k \in DOMAIN kwNames |-> UnitOf(UnitOfName(kwNames[k]))]
      BY <2>1 DEF KwUnitsOfNames
    <2> QED BY <1>1, <2>2 DEF KwUnitsOfNames
  <1>2. ASSUME NEW p \in StandardUnits, Last(kwNames[i]) = UniqueName(p) PROVE SameUnit(kwUnits[i], p)
    BY <1>1, <1>2, NamedUnit, SameUnitItself
  <1>3. ASSUME NEW j \in DOMAIN kwUnits, Len(kwNames[j]) >= 2,
               Last(kwNames[j]) \notin {Word("total"), Word("error"), Word("discard")},
               NEW more \in {<<Word("total")>>, <<Word("error"), Word("total")>>,
                             <<Word("discard"), Word("total")>>},
               kwNames[i] = kwNames[j] \o more
        PROVE  SameUnit(kwUnits[i], kwUnits[j])
    <2>1. UnitOfName(kwNames[i]) = UnitOfName(kwNames[j])
      BY <1>1, <1>3, CountedUnit
    <2>2. kwUnits[i] = kwUnits[j]
      BY <1>1, <2>1
    <2> QED BY <2>2, SameUnitItself
  <1> QED BY <1>2, <1>3

\* The measurement asked at the end of an experiment is made, once, unless the shutdown or a
\* failure comes first; and the metrics have the units that their names tell.
THEOREM EventsAreMeasured == KwollectSpec => []EventsAreTold
  <1>1. KwInv => EventsAreTold
    BY KwInvMeasures, KwInvNames DEF EventsAreTold
  <1> QED BY <1>1, KwInitOK, KwStep, PTL DEF KwollectSpec

-------------------------------------------------------------------------------
(* The sources of the cgroups.                                                *)

\* The sequence of a finite set has each of its elements once.
LEMMA SequenceHasSet ==
    ASSUME NEW S, IsFiniteSet(S)
    PROVE  /\ SetToSeq(S) \in Seq(S)
           /\ \A i, j \in DOMAIN SetToSeq(S) : SetToSeq(S)[i] = SetToSeq(S)[j] => i = j
           /\ \A x \in S : \E i \in DOMAIN SetToSeq(S) : SetToSeq(S)[i] = x
  <1> DEFINE n == Cardinality(S)
             s == SetToSeq(S)
  <1>1. n \in Nat /\ ExistsBijection(1..n, S)
    BY FS_CardinalityType
  <1>2. \E f \in [1..n -> S] : IsInjective(f)
    <2> HIDE DEF n
    <2> QED BY <1>1 DEF ExistsBijection, Bijection, Injection
  <1>3. s \in [1..n -> S] /\ IsInjective(s)
    BY <1>2 DEF SetToSeq
  <1> HIDE DEF s
  <1>4. \A i, j \in 1..n : s[i] = s[j] => i = j
    BY <1>3 DEF IsInjective
  <1>5. s \in Injection(1..n, S)
    BY <1>3, <1>4 DEF Injection
  <1>6. IsFiniteSet(1..n) /\ Cardinality(1..n) = n
    BY <1>1, FS_Interval
  <1>7. s \in Surjection(1..n, S)
    BY <1>5, <1>6, FS_Injection
  <1>8. \A x \in S : \E i \in 1..n : s[i] = x
    BY <1>7 DEF Surjection
  <1> QED BY <1>1, <1>3, <1>4, <1>8, SequenceOfSet DEF s

NodeHierarchies == DOMAIN versions
NodeGroups == {g \in Groups : g.h \in NodeHierarchies}

\* Each batch holds cgroups of its hierarchy that the detector has told.
BatchesTyped ==
    /\ plugin \in Plugins /\ versions \in Hierarchies
    /\ threads \in [NodeHierarchies -> {"none", "idle", "setup", "dispatch", "dead"}]
    /\ toSetUp \in [NodeHierarchies -> Seq(NodeGroups)]
    /\ ready \in [NodeHierarchies -> Seq(NodeGroups)]
    /\ groups \subseteq NodeGroups /\ seen \subseteq NodeGroups

BatchesKnown ==
    \A h \in NodeHierarchies :
        /\ \A i \in DOMAIN toSetUp[h] : toSetUp[h][i].h = h /\ toSetUp[h][i] \in seen
        /\ threads[h] \in {"none", "idle", "dispatch"} => toSetUp[h] = <<>>
        /\ threads[h] \in {"none", "idle"} => ready[h] = <<>>
        /\ threads[h] = "setup" => toSetUp[h] # <<>>

\* A hierarchy that waits for its detector has none.
MountsWait ==
    /\ unseen \union gathered \union ToSet(toStart) \subseteq NodeHierarchies
    /\ \A h \in unseen \union gathered \union ToSet(toStart) : threads[h] = "none"
    /\ toStart \in Seq(NodeHierarchies)
    /\ \A i, j \in DOMAIN toStart : toStart[i] = toStart[j] => i = j
    /\ ToSet(toStart) \cap (unseen \union gathered) = {}
    /\ mountWatch # "coalescing" => gathered = {}
    /\ mountWatch # "callback" => toStart = <<>>

\* The jobs of the sources are tracked until they end.
JobsTracked ==
    plugin.kind = "oar" =>
        /\ \A j \in tracked : j # NoJob /\ \E g \in seen : g.job = j
        /\ \A g \in asked : g.job # NoJob => g.job \in tracked \union ended
        /\ \A h \in NodeHierarchies : \A i \in DOMAIN ready[h] :
              ready[h][i].job # NoJob => ready[h][i].job \in tracked \union ended

\* On a node with cgroup v2 only, the transform of slurm can know the hierarchy as soon as a
\* detector has started.
AllV2 == \A h \in NodeHierarchies : versions[h] = 2
HierarchyShared ==
    HearsMounts /\ AllV2 /\ (toStart # <<>> \/ \E h \in NodeHierarchies : threads[h] # "none") =>
        shared # Nobody \/ cachedRoot # Nobody

AskedByThreads == asked # {} => \E h \in NodeHierarchies : threads[h] # "none"

ReactorInv ==
    /\ BatchesTyped /\ BatchesKnown /\ NoGroupForgotten
    /\ MountsWait /\ JobsTracked
    /\ HierarchyShared /\ AskedByThreads /\ OwnPointsAreAnnotated

\* What the steps of the mounts leave alone.
NoBatchMoves == UNCHANGED <<plugin, versions, groups, seen, toSetUp, ready, asked, excused, tracked, ended>>

\* The invariant holds initially.
LEMMA ReactorInitOK == ReactorInit => ReactorInv
  <1> SUFFICES ASSUME ReactorInit PROVE ReactorInv
    OBVIOUS
  <1>1. BatchesTyped /\ BatchesKnown /\ NoGroupForgotten
    BY DEF ReactorInit, BatchesTyped, BatchesKnown, NoGroupForgotten, NodeHierarchies, NodeGroups
  <1>2. MountsWait
    BY DEF ReactorInit, MountsWait, NodeHierarchies, ToSet
  <1>3. JobsTracked /\ AskedByThreads
    BY DEF ReactorInit, JobsTracked, AskedByThreads, NodeHierarchies
  <1>4. HierarchyShared
    BY DEF ReactorInit, HierarchyShared, NodeHierarchies
  <1>5. OwnPointsAreAnnotated
    BY DEF ReactorInit, OwnPointsAreAnnotated, NoPoint
  <1> QED BY <1>1, <1>2, <1>3, <1>4, <1>5 DEF ReactorInv

\* The step Mount keeps the invariant.
LEMMA MountKeepsInv == ASSUME ReactorInv, NEW h \in DOMAIN versions, Mount(h) PROVE ReactorInv'
  <1>1. /\ unseen' = unseen \union {h}
        /\ UNCHANGED <<plugin, versions, gathered, mountWatch, toStart, shared, cachedRoot, threads, groups, seen,
                       toSetUp, ready, asked, excused, tracked, ended, open, lastPoint>>
    BY DEF Mount, detectorVars
  <1>2. threads[h] = "none" /\ h \notin ToSet(toStart)
    BY DEF Mount, ReactorInv, BatchesTyped, NodeHierarchies, ToSet
  <1>3. MountsWait'
    BY <1>1, <1>2 DEF ReactorInv, MountsWait, NodeHierarchies
  <1>4. BatchesTyped' /\ BatchesKnown' /\ NoGroupForgotten'
    BY <1>1 DEF ReactorInv, BatchesTyped, BatchesKnown, NoGroupForgotten, NodeHierarchies, NodeGroups
  <1>5. JobsTracked' /\ AskedByThreads'
    BY <1>1 DEF ReactorInv, JobsTracked, AskedByThreads, NodeHierarchies
  <1>6. HierarchyShared'
    BY <1>1 DEF ReactorInv, HierarchyShared, AllV2, HearsMounts, NodeHierarchies
  <1>7. OwnPointsAreAnnotated'
    BY <1>1 DEF ReactorInv, OwnPointsAreAnnotated
  <1> QED BY <1>3, <1>4, <1>5, <1>6, <1>7 DEF ReactorInv

\* Sets of hierarchies are finite.
LEMMA MountsFinite ==
    ASSUME ReactorInv, NEW mounts \in SUBSET NodeHierarchies
    PROVE  IsFiniteSet(mounts) /\ Nobody \notin mounts
  <1>1. IsFiniteSet(NodeHierarchies) /\ Nobody \notin NodeHierarchies
    BY ReactorAssumption DEF ReactorInv, BatchesTyped, NodeHierarchies
  <1> QED BY <1>1, FS_Subset

\* The beginning of the callback keeps the invariant.
LEMMA BeginCallbackKeeps ==
    ASSUME ReactorInv, NEW mounts \in SUBSET (unseen \union gathered), BeginCallback(mounts),
           toStart = <<>>, unseen' = {}, gathered' = {},
           UNCHANGED <<plugin, versions, cachedRoot, detectorVars, open, lastPoint>>
    PROVE  ReactorInv'
  <1>1. UNCHANGED <<plugin, versions, cachedRoot, threads, groups, seen, toSetUp, ready, asked, excused, tracked,
                    ended, open, lastPoint>>
    BY DEF detectorVars
  <1>2. mounts \in SUBSET NodeHierarchies /\ \A h \in mounts : threads[h] = "none"
    BY DEF ReactorInv, MountsWait
  <1>3. toStart' = SetToSeq(mounts) /\ mountWatch' = "callback" /\ Share(mounts)
    BY DEF BeginCallback
  <1>4. IsFiniteSet(mounts) /\ Nobody \notin mounts
    BY <1>2, MountsFinite
  <1> DEFINE s == SetToSeq(mounts)
  <1>5. s \in Seq(mounts) /\ \A i, j \in DOMAIN s : s[i] = s[j] => i = j
    BY <1>4, SequenceHasSet
  <1> HIDE DEF s
  <1>6. ToSet(s) \subseteq mounts
    BY <1>5 DEF ToSet
  <1>7. MountsWait'
    <2>1. s \in Seq(NodeHierarchies)
      BY <1>2, <1>5
    <2> QED BY <1>1, <1>2, <1>3, <1>5, <1>6, <2>1 DEF MountsWait, NodeHierarchies, s
  <1>8. HierarchyShared'
    <2>1. CASE HearsMounts /\ \E h \in mounts : versions[h] = 2
      <3>1. shared' \in mounts
        BY <1>3, <2>1 DEF Share
      <3> QED BY <1>4, <3>1 DEF HierarchyShared
    <2>2. CASE ~(HearsMounts /\ \E h \in mounts : versions[h] = 2)
      <3>1. shared' = shared
        BY <1>3, <2>2 DEF Share
      <3> SUFFICES ASSUME HearsMounts', AllV2',
                          toStart' # <<>> \/ \E h \in NodeHierarchies' : threads'[h] # "none"
                   PROVE  shared' # Nobody \/ cachedRoot' # Nobody
        BY DEF HierarchyShared
      <3>2. HearsMounts /\ AllV2
        BY <1>1 DEF HearsMounts, AllV2, NodeHierarchies
      <3>3. mounts = {}
        BY <1>2, <2>2, <3>2 DEF AllV2
      <3>4. s = <<>>
        BY <1>5, <3>3
      <3>5. \E h \in NodeHierarchies : threads[h] # "none"
        BY <1>1, <1>3, <3>4 DEF NodeHierarchies, s
      <3> QED BY <1>1, <3>1, <3>2, <3>5 DEF ReactorInv, HierarchyShared
    <2> QED BY <2>1, <2>2
  <1>9. BatchesTyped' /\ BatchesKnown' /\ NoGroupForgotten'
    BY <1>1 DEF ReactorInv, BatchesTyped, BatchesKnown, NoGroupForgotten, NodeHierarchies, NodeGroups
  <1>10. JobsTracked' /\ AskedByThreads'
    BY <1>1 DEF ReactorInv, JobsTracked, AskedByThreads, NodeHierarchies
  <1>11. OwnPointsAreAnnotated'
    BY <1>1 DEF ReactorInv, OwnPointsAreAnnotated
  <1> QED BY <1>7, <1>8, <1>9, <1>10, <1>11 DEF ReactorInv

\* The step MountEvent keeps the invariant.
LEMMA MountEventKeepsInv == ASSUME ReactorInv, MountEvent PROVE ReactorInv'
  <1>1. toStart = <<>> /\ gathered = {}
    BY DEF ReactorInv, MountsWait, MountEvent
  <1>2. CASE ~MustWait(unseen)
    BY <1>1, <1>2, BeginCallbackKeeps DEF MountEvent
  <1>3. CASE MustWait(unseen)
    <2>1. /\ unseen' = {} /\ gathered' = unseen /\ mountWatch' = "coalescing" /\ UNCHANGED <<toStart, shared>>
          /\ UNCHANGED <<plugin, versions, cachedRoot, threads, groups, seen, toSetUp, ready, asked, excused,
                         tracked, ended, open, lastPoint>>
      BY <1>3 DEF MountEvent, detectorVars
    <2>2. MountsWait'
      BY <1>1, <2>1 DEF ReactorInv, MountsWait, NodeHierarchies
    <2>3. BatchesTyped' /\ BatchesKnown' /\ NoGroupForgotten'
      BY <2>1 DEF ReactorInv, BatchesTyped, BatchesKnown, NoGroupForgotten, NodeHierarchies, NodeGroups
    <2>4. JobsTracked' /\ AskedByThreads'
      BY <2>1 DEF ReactorInv, JobsTracked, AskedByThreads, NodeHierarchies
    <2>5. HierarchyShared'
      BY <2>1 DEF ReactorInv, HierarchyShared, AllV2, HearsMounts, NodeHierarchies
    <2>6. OwnPointsAreAnnotated'
      BY <2>1 DEF ReactorInv, OwnPointsAreAnnotated
    <2> QED BY <2>2, <2>3, <2>4, <2>5, <2>6 DEF ReactorInv
  <1> QED BY <1>2, <1>3

\* The step CoalesceDelay keeps the invariant.
LEMMA CoalesceDelayKeepsInv == ASSUME ReactorInv, CoalesceDelay PROVE ReactorInv'
  <1>1. toStart = <<>>
    BY DEF ReactorInv, MountsWait, CoalesceDelay
  <1> QED BY <1>1, BeginCallbackKeeps DEF CoalesceDelay

\* The first of the hierarchies that wait, and the others.
LEMMA FirstToStart ==
    ASSUME ReactorInv, toStart # <<>>
    PROVE  /\ Head(toStart) \in ToSet(toStart) /\ Head(toStart) \notin ToSet(Tail(toStart))
           /\ ToSet(Tail(toStart)) \subseteq ToSet(toStart)
           /\ Tail(toStart) \in Seq(NodeHierarchies)
           /\ \A i, j \in DOMAIN Tail(toStart) : Tail(toStart)[i] = Tail(toStart)[j] => i = j
  <1>1. /\ toStart \in Seq(NodeHierarchies) /\ Len(toStart) \in Nat /\ Len(toStart) > 0
        /\ \A i, j \in DOMAIN toStart : toStart[i] = toStart[j] => i = j
    BY DEF ReactorInv, MountsWait
  <1>2. Head(toStart) = toStart[1] /\ 1 \in DOMAIN toStart
    BY <1>1
  <1>3. /\ Tail(toStart) \in Seq(NodeHierarchies)
        /\ \A i \in DOMAIN Tail(toStart) : i + 1 \in DOMAIN toStart /\ Tail(toStart)[i] = toStart[i + 1]
        /\ DOMAIN Tail(toStart) \subseteq Nat \ {0}
    BY <1>1
  <1>4. \A i, j \in DOMAIN Tail(toStart) : Tail(toStart)[i] = Tail(toStart)[j] => i = j
    BY <1>1, <1>3
  <1>5. \A i \in DOMAIN Tail(toStart) : Tail(toStart)[i] # toStart[1]
    BY <1>1, <1>2, <1>3
  <1>6. ToSet(Tail(toStart)) \subseteq ToSet(toStart)
    BY <1>3 DEF ToSet
  <1> QED BY <1>2, <1>3, <1>4, <1>5, <1>6 DEF ToSet

\* The step StartDetector keeps the invariant.
LEMMA StartDetectorKeepsInv == ASSUME ReactorInv, StartDetector PROVE ReactorInv'
  <1> DEFINE h == Head(toStart)
  <1>1. /\ mountWatch = "callback" /\ toStart # <<>>
        /\ threads' = [threads EXCEPT ![h] = "idle"] /\ toStart' = Tail(toStart)
        /\ UNCHANGED <<plugin, versions, unseen, gathered, mountWatch, shared, cachedRoot, groups, seen, toSetUp,
                       ready, asked, excused, tracked, ended, open, lastPoint>>
    BY DEF StartDetector
  <1>2. /\ h \in ToSet(toStart) /\ h \notin ToSet(Tail(toStart))
        /\ ToSet(Tail(toStart)) \subseteq ToSet(toStart) /\ Tail(toStart) \in Seq(NodeHierarchies)
        /\ \A i, j \in DOMAIN Tail(toStart) : Tail(toStart)[i] = Tail(toStart)[j] => i = j
    BY <1>1, FirstToStart
  <1> HIDE DEF h
  <1>3. h \in NodeHierarchies /\ threads[h] = "none" /\ h \notin unseen \union gathered
    BY <1>2 DEF ReactorInv, MountsWait
  <1>4. threads' \in [NodeHierarchies -> {"none", "idle", "setup", "dispatch", "dead"}]
    BY <1>1, <1>3 DEF ReactorInv, BatchesTyped
  <1>5. threads'[h] = "idle" /\ \A x \in NodeHierarchies : x # h => threads'[x] = threads[x]
    BY <1>1, <1>3 DEF ReactorInv, BatchesTyped
  <1>6. MountsWait'
    BY <1>1, <1>2, <1>3, <1>5 DEF ReactorInv, MountsWait, NodeHierarchies
  <1>7. BatchesTyped'
    BY <1>1, <1>4 DEF ReactorInv, BatchesTyped, NodeHierarchies, NodeGroups
  <1>8. BatchesKnown'
    BY <1>1, <1>3, <1>5 DEF ReactorInv, BatchesKnown, NodeHierarchies
  <1>9. NoGroupForgotten' /\ JobsTracked'
    BY <1>1 DEF ReactorInv, NoGroupForgotten, JobsTracked, NodeHierarchies
  <1>10. HierarchyShared'
    BY <1>1 DEF ReactorInv, HierarchyShared, AllV2, HearsMounts, NodeHierarchies
  <1>11. AskedByThreads' /\ OwnPointsAreAnnotated'
    BY <1>1, <1>3, <1>5 DEF ReactorInv, AskedByThreads, OwnPointsAreAnnotated, NodeHierarchies
  <1> QED BY <1>6, <1>7, <1>8, <1>9, <1>10, <1>11 DEF ReactorInv

\* The step DetectorFails keeps the invariant.
LEMMA DetectorFailsKeepsInv == ASSUME ReactorInv, DetectorFails PROVE ReactorInv'
  <1>1. /\ mountWatch = "callback" /\ toStart # <<>> /\ toStart' = <<>> /\ mountWatch' = "watching"
        /\ threads' = [h \in DOMAIN threads |-> IF h \in ToSet(toStart) THEN "dead" ELSE threads[h]]
        /\ UNCHANGED <<plugin, versions, unseen, gathered, shared, cachedRoot, groups, seen, toSetUp, ready, asked,
                       excused, tracked, ended, open, lastPoint>>
    BY DEF DetectorFails
  <1>2. /\ threads' \in [NodeHierarchies -> {"none", "idle", "setup", "dispatch", "dead"}]
        /\ \A h \in NodeHierarchies : threads'[h] = IF h \in ToSet(toStart) THEN "dead" ELSE threads[h]
    BY <1>1 DEF ReactorInv, BatchesTyped
  <1>3. ToSet(<<>>) = {}
    BY DEF ToSet
  <1>4. MountsWait'
    BY <1>1, <1>2, <1>3 DEF ReactorInv, MountsWait, NodeHierarchies
  <1>5. BatchesTyped'
    BY <1>1, <1>2 DEF ReactorInv, BatchesTyped, NodeHierarchies, NodeGroups
  <1>6. BatchesKnown'
    BY <1>1, <1>2 DEF ReactorInv, BatchesKnown, NodeHierarchies
  <1>7. NoGroupForgotten' /\ JobsTracked'
    BY <1>1 DEF ReactorInv, NoGroupForgotten, JobsTracked, NodeHierarchies
  <1>8. HierarchyShared'
    BY <1>1 DEF ReactorInv, HierarchyShared, AllV2, HearsMounts, NodeHierarchies
  <1>9. AskedByThreads' /\ OwnPointsAreAnnotated'
    BY <1>1, <1>2 DEF ReactorInv, AskedByThreads, OwnPointsAreAnnotated, NodeHierarchies
  <1> QED BY <1>4, <1>5, <1>6, <1>7, <1>8, <1>9 DEF ReactorInv

\* What the steps of the groups and of the detectors leave alone, with the threads that have
\* started: the mounts wait as before.
LEMMA MountsStay ==
    ASSUME ReactorInv,
           UNCHANGED <<plugin, versions, unseen, gathered, toStart, shared, cachedRoot>>,
           mountWatch' = mountWatch \/ (toStart = <<>> /\ mountWatch' = "stopped" /\ gathered = {}),
           \A h \in NodeHierarchies : threads'[h] = "none" <=> threads[h] = "none"
    PROVE  MountsWait' /\ HierarchyShared'
  <1>1. MountsWait'
    BY DEF ReactorInv, MountsWait, NodeHierarchies
  <1>2. HierarchyShared'
    BY DEF ReactorInv, HierarchyShared, AllV2, HearsMounts, NodeHierarchies
  <1> QED BY <1>1, <1>2

\* Steps that leave the batches and the points alone keep the invariant.
LEMMA BatchesStay ==
    ASSUME ReactorInv, MountsWait', HierarchyShared', groups' \subseteq NodeGroups,
           UNCHANGED <<plugin, versions, threads, seen, toSetUp, ready, asked, excused, tracked, ended, lastPoint>>
    PROVE  ReactorInv'
  <1>1. BatchesTyped' /\ BatchesKnown' /\ NoGroupForgotten'
    BY DEF ReactorInv, BatchesTyped, BatchesKnown, NoGroupForgotten, NodeHierarchies, NodeGroups
  <1>2. JobsTracked' /\ AskedByThreads' /\ OwnPointsAreAnnotated'
    BY DEF ReactorInv, JobsTracked, AskedByThreads, OwnPointsAreAnnotated, NodeHierarchies
  <1> QED BY <1>1, <1>2 DEF ReactorInv

\* The end of the callback, the life of the groups and the end of the pipeline keep the
\* invariant.
LEMMA ReactorOthersKeepInv ==
    ASSUME ReactorInv,
           \/ EndCallback \/ CloseControl
           \/ \E g \in Groups : CreateGroup(g) \/ DeleteGroup(g)
    PROVE  ReactorInv'
  <1>1. UNCHANGED <<plugin, versions, unseen, gathered, toStart, shared, cachedRoot, threads, seen, toSetUp, ready,
                    asked, excused, tracked, ended, lastPoint>>
    BY DEF EndCallback, CloseControl, CreateGroup, DeleteGroup, detectorVars, mountVars
  <1>2. mountWatch' = mountWatch \/ (toStart = <<>> /\ mountWatch' = "stopped" /\ gathered = {})
    BY DEF EndCallback, CloseControl, CreateGroup, DeleteGroup, mountVars, ReactorInv, MountsWait
  <1>3. groups' \subseteq NodeGroups
    BY DEF EndCallback, CloseControl, CreateGroup, DeleteGroup, detectorVars, ReactorInv, BatchesTyped,
           NodeGroups, NodeHierarchies
  <1>4. MountsWait' /\ HierarchyShared'
    BY <1>1, <1>2, MountsStay
  <1> QED BY <1>1, <1>3, <1>4, BatchesStay

\* The step Detect keeps the invariant.
LEMMA DetectKeepsInv == ASSUME ReactorInv, NEW h \in DOMAIN versions, Detect(h) PROVE ReactorInv'
  <1>1. /\ threads[h] = "idle" /\ threads' = [threads EXCEPT ![h] = "setup"] /\ h \in NodeHierarchies
        /\ UNCHANGED <<plugin, versions, unseen, gathered, mountWatch, toStart, shared, cachedRoot, groups, ready,
                       asked, excused, tracked, ended, open, lastPoint>>
    BY DEF Detect, mountVars, NodeHierarchies
  <1>2. PICK newcomers \in SUBSET {g \in groups \ seen : g.h = h} :
            /\ newcomers # {} /\ seen' = seen \union newcomers
            /\ toSetUp' = [toSetUp EXCEPT ![h] = SetToSeq(newcomers)]
    BY DEF Detect
  <1>3. newcomers \in SUBSET NodeGroups /\ IsFiniteSet(newcomers)
    <2>1. newcomers \in SUBSET Groups /\ newcomers \in SUBSET NodeGroups
      BY DEF ReactorInv, BatchesTyped, NodeGroups
    <2> QED BY <2>1, ReactorAssumption, FS_Subset
  <1> DEFINE s == SetToSeq(newcomers)
  <1>4. /\ s \in Seq(newcomers) /\ \A x \in newcomers : \E i \in DOMAIN s : s[i] = x
    BY <1>3, SequenceHasSet
  <1> HIDE DEF s
  <1>5. s \in Seq(NodeGroups) /\ s # <<>>
    BY <1>2, <1>3, <1>4
  <1>6. \A i \in DOMAIN s : s[i] \in newcomers /\ s[i].h = h
    BY <1>4
  <1>7. /\ toSetUp' \in [NodeHierarchies -> Seq(NodeGroups)]
        /\ toSetUp'[h] = s /\ \A x \in NodeHierarchies : x # h => toSetUp'[x] = toSetUp[x]
    BY <1>1, <1>2, <1>5 DEF ReactorInv, BatchesTyped, s
  <1>8. /\ threads' \in [NodeHierarchies -> {"none", "idle", "setup", "dispatch", "dead"}]
        /\ threads'[h] = "setup" /\ \A x \in NodeHierarchies : x # h => threads'[x] = threads[x]
    BY <1>1 DEF ReactorInv, BatchesTyped
  <1>9. MountsWait' /\ HierarchyShared'
    <2>1. \A x \in NodeHierarchies : threads'[x] = "none" <=> threads[x] = "none"
      BY <1>1, <1>8
    <2> QED BY <1>1, <2>1, MountsStay
  <1>10. BatchesTyped'
    BY <1>1, <1>2, <1>3, <1>7, <1>8 DEF ReactorInv, BatchesTyped, NodeHierarchies, NodeGroups
  <1>11. BatchesKnown'
    <2>1. ASSUME NEW x \in NodeHierarchies
          PROVE  /\ \A i \in DOMAIN toSetUp'[x] : toSetUp'[x][i].h = x /\ toSetUp'[x][i] \in seen'
                 /\ threads'[x] \in {"none", "idle", "dispatch"} => toSetUp'[x] = <<>>
                 /\ threads'[x] \in {"none", "idle"} => ready'[x] = <<>>
                 /\ threads'[x] = "setup" => toSetUp'[x] # <<>>
      <3>1. CASE x = h
        BY <1>2, <1>5, <1>6, <1>7, <1>8, <3>1
      <3>2. CASE x # h
        BY <1>1, <1>2, <1>7, <1>8, <3>2 DEF ReactorInv, BatchesKnown
      <3> QED BY <3>1, <3>2
    <2> QED BY <1>1, <2>1 DEF BatchesKnown, NodeHierarchies
  <1>12. NoGroupForgotten'
    <2> SUFFICES ASSUME NEW g \in seen'
                 PROVE  \/ g \in asked \union excused
                        \/ \E i \in DOMAIN toSetUp'[g.h] : toSetUp'[g.h][i] = g
                        \/ \E i \in DOMAIN ready[g.h] : ready[g.h][i] = g
      BY <1>1 DEF NoGroupForgotten
    <2>1. CASE g \in newcomers
      BY <1>4, <1>7, <2>1
    <2>2. CASE g \in seen
      <3>1. toSetUp[h] = <<>> /\ g.h \in NodeHierarchies
        BY <1>1, <2>2 DEF ReactorInv, BatchesKnown, BatchesTyped, NodeGroups
      <3> QED BY <1>7, <2>2, <3>1 DEF ReactorInv, NoGroupForgotten
    <2> QED BY <1>2, <2>1, <2>2
  <1>13. JobsTracked'
    BY <1>1, <1>2 DEF ReactorInv, JobsTracked, NodeHierarchies
  <1>14. AskedByThreads' /\ OwnPointsAreAnnotated'
    BY <1>1, <1>8 DEF ReactorInv, AskedByThreads, OwnPointsAreAnnotated, NodeHierarchies
  <1> QED BY <1>9, <1>10, <1>11, <1>12, <1>13, <1>14 DEF ReactorInv

\* A batch is its head and its tail.
LEMMA BatchSplits ==
    ASSUME NEW S, NEW s \in Seq(S), s # <<>>
    PROVE  /\ Head(s) = s[1] /\ 1 \in DOMAIN s /\ Tail(s) \in Seq(S) /\ Head(s) \in S
           /\ \A i \in DOMAIN Tail(s) : Tail(s)[i] = s[i + 1] /\ i + 1 \in DOMAIN s
           /\ \A i \in DOMAIN s : i = 1 \/ (i - 1 \in DOMAIN Tail(s) /\ Tail(s)[i - 1] = s[i])
           /\ Len(s) = 1 <=> Tail(s) = <<>>
  <1>1. Len(s) \in Nat /\ Len(s) > 0 /\ Tail(s) \in Seq(S) /\ Len(Tail(s)) = Len(s) - 1
    OBVIOUS
  <1>2. \A i \in DOMAIN s : i = 1 \/ (i - 1 \in DOMAIN Tail(s) /\ Tail(s)[i - 1] = s[i])
    BY <1>1
  <1>3. \A i \in DOMAIN Tail(s) : Tail(s)[i] = s[i + 1] /\ i + 1 \in DOMAIN s
    BY <1>1
  <1>4. Len(s) = 1 <=> Tail(s) = <<>>
    BY <1>1
  <1> QED BY <1>1, <1>2, <1>3, <1>4

\* A batch with one more source.
LEMMA BatchGrows ==
    ASSUME NEW S, NEW s \in Seq(S), NEW g \in S
    PROVE  /\ Append(s, g) \in Seq(S)
           /\ \E i \in DOMAIN Append(s, g) : Append(s, g)[i] = g
           /\ \A i \in DOMAIN s : i \in DOMAIN Append(s, g) /\ Append(s, g)[i] = s[i]
           /\ \A i \in DOMAIN Append(s, g) : Append(s, g)[i] = g \/ (i \in DOMAIN s /\ Append(s, g)[i] = s[i])
  <1>1. Len(s) \in Nat /\ Append(s, g) \in Seq(S) /\ Len(Append(s, g)) = Len(s) + 1
    OBVIOUS
  <1>2. Len(s) + 1 \in DOMAIN Append(s, g) /\ Append(s, g)[Len(s) + 1] = g
    BY <1>1
  <1> QED BY <1>1, <1>2

\* The step SetupProbe keeps the invariant.
LEMMA SetupProbeKeepsInv == ASSUME ReactorInv, NEW h \in DOMAIN versions, SetupProbe(h) PROVE ReactorInv'
  <1> DEFINE g == Head(toSetUp[h])
             one == Wanted(g) /\ g \in groups
  <1>1. /\ threads[h] = "setup" /\ h \in NodeHierarchies /\ tracked' = Tracked(g)
        /\ toSetUp' = [toSetUp EXCEPT ![h] = Tail(toSetUp[h])]
        /\ threads' = [threads EXCEPT ![h] = IF Len(toSetUp[h]) = 1 THEN "dispatch" ELSE "setup"]
        /\ UNCHANGED <<plugin, versions, unseen, gathered, mountWatch, toStart, shared, cachedRoot, groups, seen,
                       asked, ended, open, lastPoint>>
    BY DEF SetupProbe, NextOfBatch, AfterFailure, mountVars, NodeHierarchies
  <1>2. /\ one => ready' = [ready EXCEPT ![h] = Append(ready[h], g)] /\ excused' = excused
        /\ ~one => ready' = ready /\ excused' = excused \union {g}
    BY DEF SetupProbe
  <1>3. toSetUp[h] # <<>> /\ toSetUp[h] \in Seq(NodeGroups) /\ ready[h] \in Seq(NodeGroups)
    BY <1>1 DEF ReactorInv, BatchesKnown, BatchesTyped
  <1>4. /\ g = toSetUp[h][1] /\ 1 \in DOMAIN toSetUp[h] /\ g \in NodeGroups
        /\ Tail(toSetUp[h]) \in Seq(NodeGroups)
        /\ \A i \in DOMAIN Tail(toSetUp[h]) :
              Tail(toSetUp[h])[i] = toSetUp[h][i + 1] /\ i + 1 \in DOMAIN toSetUp[h]
        /\ \A i \in DOMAIN toSetUp[h] :
              i = 1 \/ (i - 1 \in DOMAIN Tail(toSetUp[h]) /\ Tail(toSetUp[h])[i - 1] = toSetUp[h][i])
        /\ Len(toSetUp[h]) = 1 <=> Tail(toSetUp[h]) = <<>>
    BY <1>3, BatchSplits
  <1>5. g.h = h /\ g \in seen
    BY <1>1, <1>4 DEF ReactorInv, BatchesKnown
  <1> DEFINE longer == Append(ready[h], g)
  <1>0. g \in NodeGroups
    BY <1>4
  <1>6. /\ longer \in Seq(NodeGroups)
        /\ \E i \in DOMAIN longer : longer[i] = g
        /\ \A i \in DOMAIN ready[h] : i \in DOMAIN longer /\ longer[i] = ready[h][i]
        /\ \A i \in DOMAIN longer : longer[i] = g \/ (i \in DOMAIN ready[h] /\ longer[i] = ready[h][i])
    <2> DEFINE r == ready[h]
    <2>1. r \in Seq(NodeGroups) /\ g \in NodeGroups
      BY <1>0, <1>3
    <2> HIDE DEF g, r
    <2>2. /\ Append(r, g) \in Seq(NodeGroups)
          /\ \E i \in DOMAIN Append(r, g) : Append(r, g)[i] = g
          /\ \A i \in DOMAIN r : i \in DOMAIN Append(r, g) /\ Append(r, g)[i] = r[i]
          /\ \A i \in DOMAIN Append(r, g) : Append(r, g)[i] = g \/ (i \in DOMAIN r /\ Append(r, g)[i] = r[i])
      BY <2>1, BatchGrows
    <2> QED BY <2>2 DEF r
  <1> HIDE DEF g, one, longer
  <1>7. /\ toSetUp' \in [NodeHierarchies -> Seq(NodeGroups)]
        /\ toSetUp'[h] = Tail(toSetUp[h]) /\ \A x \in NodeHierarchies : x # h => toSetUp'[x] = toSetUp[x]
    BY <1>1, <1>4 DEF ReactorInv, BatchesTyped
  <1>8. /\ threads' \in [NodeHierarchies -> {"none", "idle", "setup", "dispatch", "dead"}]
        /\ threads'[h] = IF Len(toSetUp[h]) = 1 THEN "dispatch" ELSE "setup"
        /\ \A x \in NodeHierarchies : x # h => threads'[x] = threads[x]
    BY <1>1 DEF ReactorInv, BatchesTyped
  <1>9. /\ ready' \in [NodeHierarchies -> Seq(NodeGroups)]
        /\ \A x \in NodeHierarchies : x # h => ready'[x] = ready[x]
        /\ ready'[h] = IF one THEN longer ELSE ready[h]
    BY <1>1, <1>2, <1>6 DEF ReactorInv, BatchesTyped, longer
  <1>10. MountsWait' /\ HierarchyShared'
    <2>1. \A x \in NodeHierarchies : threads'[x] = "none" <=> threads[x] = "none"
      BY <1>1, <1>8
    <2> QED BY <1>1, <2>1, MountsStay
  <1>11. BatchesTyped'
    <2>1. NodeHierarchies' = NodeHierarchies /\ NodeGroups' = NodeGroups
      BY <1>1 DEF NodeHierarchies, NodeGroups
    <2> QED BY <1>1, <1>7, <1>8, <1>9, <2>1 DEF ReactorInv, BatchesTyped
  <1>12. BatchesKnown'
    <2>1. ASSUME NEW x \in NodeHierarchies
          PROVE  /\ \A i \in DOMAIN toSetUp'[x] : toSetUp'[x][i].h = x /\ toSetUp'[x][i] \in seen
                 /\ threads'[x] \in {"none", "idle", "dispatch"} => toSetUp'[x] = <<>>
                 /\ threads'[x] \in {"none", "idle"} => ready'[x] = <<>>
                 /\ threads'[x] = "setup" => toSetUp'[x] # <<>>
      <3>1. CASE x = h
        <4>1. \A i \in DOMAIN toSetUp[h] : toSetUp[h][i].h = h /\ toSetUp[h][i] \in seen
          BY <1>1 DEF ReactorInv, BatchesKnown
        <4>2. \A i \in DOMAIN toSetUp'[h] : toSetUp'[h][i].h = h /\ toSetUp'[h][i] \in seen
          BY <1>4, <1>7, <4>1
        <4>3. threads'[h] = "dispatch" <=> toSetUp'[h] = <<>>
          BY <1>4, <1>7, <1>8
        <4> QED BY <1>8, <3>1, <4>2, <4>3
      <3>2. CASE x # h
        <4>1. toSetUp'[x] = toSetUp[x] /\ threads'[x] = threads[x] /\ ready'[x] = ready[x]
          BY <1>7, <1>8, <1>9, <3>2
        <4> QED BY <4>1 DEF ReactorInv, BatchesKnown
      <3> QED BY <3>1, <3>2
    <2> QED BY <1>1, <2>1 DEF BatchesKnown, NodeHierarchies
  <1>13. NoGroupForgotten'
    <2> SUFFICES ASSUME NEW c \in seen
                 PROVE  \/ c \in asked \union excused'
                        \/ \E i \in DOMAIN toSetUp'[c.h] : toSetUp'[c.h][i] = c
                        \/ \E i \in DOMAIN ready'[c.h] : ready'[c.h][i] = c
      BY <1>1 DEF NoGroupForgotten
    <2>1. c.h \in NodeHierarchies
      BY DEF ReactorInv, BatchesTyped, NodeGroups
    <2>2. CASE c \in asked \union excused
      BY <1>2, <2>2
    <2>3. CASE c = g
      BY <1>2, <1>5, <1>6, <1>9, <2>3
    <2>4. CASE c # g /\ \E i \in DOMAIN toSetUp[c.h] : toSetUp[c.h][i] = c
      <3>1. CASE c.h = h
        <4>1. PICK i \in DOMAIN toSetUp[h] : toSetUp[h][i] = c
          BY <2>4, <3>1
        <4>2. i # 1
          BY <1>4, <2>4, <4>1
        <4>3. i - 1 \in DOMAIN Tail(toSetUp[h]) /\ Tail(toSetUp[h])[i - 1] = c
          BY <1>4, <4>1, <4>2
        <4> QED BY <1>7, <3>1, <4>3
      <3>2. CASE c.h # h
        BY <1>7, <2>1, <2>4, <3>2
      <3> QED BY <3>1, <3>2
    <2>5. CASE \E i \in DOMAIN ready[c.h] : ready[c.h][i] = c
      BY <1>6, <1>9, <2>1, <2>5
    <2> QED BY <2>2, <2>3, <2>4, <2>5 DEF ReactorInv, NoGroupForgotten
  <1>14. JobsTracked'
    <2> SUFFICES ASSUME plugin.kind = "oar" PROVE JobsTracked'
      BY <1>1 DEF JobsTracked
    <2>1. /\ g.job # NoJob => tracked' = tracked \union {g.job}
          /\ g.job = NoJob => tracked' = tracked
      BY <1>1 DEF Tracked, HasJob
    <2>2. \A j \in tracked' : j # NoJob /\ \E c \in seen' : c.job = j
      BY <1>1, <1>5, <2>1 DEF ReactorInv, JobsTracked
    <2>3. \A c \in asked' : c.job # NoJob => c.job \in tracked' \union ended'
      BY <1>1, <2>1 DEF ReactorInv, JobsTracked
    <2>4. \A x \in NodeHierarchies' : \A i \in DOMAIN ready'[x] :
             ready'[x][i].job # NoJob => ready'[x][i].job \in tracked' \union ended'
      <3>1. ASSUME NEW x \in NodeHierarchies, NEW i \in DOMAIN ready[x], ready[x][i].job # NoJob
            PROVE  ready[x][i].job \in tracked' \union ended
        BY <2>1, <3>1 DEF ReactorInv, JobsTracked
      <3>2. ASSUME NEW x \in NodeHierarchies, NEW i \in DOMAIN ready'[x]
            PROVE  ready'[x][i] = g \/ (i \in DOMAIN ready[x] /\ ready'[x][i] = ready[x][i])
        BY <1>6, <1>9
      <3>3. g.job # NoJob => g.job \in tracked'
        BY <2>1
      <3>4. ASSUME NEW x \in NodeHierarchies, NEW i \in DOMAIN ready'[x], ready'[x][i].job # NoJob
            PROVE  ready'[x][i].job \in tracked' \union ended
        BY <3>1, <3>2, <3>3, <3>4
      <3> QED BY <1>1, <3>4 DEF NodeHierarchies
    <2> QED BY <1>1, <2>2, <2>3, <2>4 DEF JobsTracked
  <1>15. AskedByThreads' /\ OwnPointsAreAnnotated'
    BY <1>1, <1>8 DEF ReactorInv, AskedByThreads, OwnPointsAreAnnotated, NodeHierarchies
  <1> QED BY <1>10, <1>11, <1>12, <1>13, <1>14, <1>15 DEF ReactorInv

\* The step NoUserName keeps the invariant.
LEMMA NoUserNameKeepsInv == ASSUME ReactorInv, NEW h \in DOMAIN versions, NoUserName(h) PROVE ReactorInv'
  <1>1. /\ threads[h] = "setup" /\ h \in NodeHierarchies /\ threads' = [threads EXCEPT ![h] = "dead"]
        /\ UNCHANGED <<plugin, versions, unseen, gathered, mountWatch, toStart, shared, cachedRoot, groups, seen,
                       toSetUp, ready, asked, excused, tracked, ended, open, lastPoint>>
    BY DEF NoUserName, mountVars, NodeHierarchies
  <1>2. /\ threads' \in [NodeHierarchies -> {"none", "idle", "setup", "dispatch", "dead"}]
        /\ threads'[h] = "dead" /\ \A x \in NodeHierarchies : x # h => threads'[x] = threads[x]
    BY <1>1 DEF ReactorInv, BatchesTyped
  <1>3. MountsWait' /\ HierarchyShared'
    <2>1. \A x \in NodeHierarchies : threads'[x] = "none" <=> threads[x] = "none"
      BY <1>1, <1>2
    <2> QED BY <1>1, <2>1, MountsStay
  <1>4. BatchesTyped'
    BY <1>1, <1>2 DEF ReactorInv, BatchesTyped, NodeHierarchies, NodeGroups
  <1>5. BatchesKnown'
    BY <1>1, <1>2 DEF ReactorInv, BatchesKnown, NodeHierarchies
  <1>6. NoGroupForgotten' /\ JobsTracked'
    BY <1>1 DEF ReactorInv, NoGroupForgotten, JobsTracked, NodeHierarchies
  <1>7. AskedByThreads' /\ OwnPointsAreAnnotated'
    BY <1>1, <1>2 DEF ReactorInv, AskedByThreads, OwnPointsAreAnnotated, NodeHierarchies
  <1> QED BY <1>3, <1>4, <1>5, <1>6, <1>7 DEF ReactorInv

\* The step Dispatch keeps the invariant.
LEMMA DispatchKeepsInv == ASSUME ReactorInv, NEW h \in DOMAIN versions, Dispatch(h) PROVE ReactorInv'
  <1>1. /\ threads[h] = "dispatch" /\ h \in NodeHierarchies
        /\ UNCHANGED <<plugin, versions, unseen, gathered, mountWatch, toStart, shared, cachedRoot, groups, seen,
                       toSetUp, tracked, ended, open, lastPoint>>
    BY DEF Dispatch, mountVars, NodeHierarchies
  <1>2. ready[h] \in Seq(NodeGroups) /\ toSetUp[h] = <<>>
    BY <1>1 DEF ReactorInv, BatchesTyped, BatchesKnown
  <1>3. threads' = threads \/ (threads' = [threads EXCEPT ![h] = "idle"] /\ ready'[h] = <<>>)
    BY <1>1, <1>2 DEF Dispatch, ReactorInv, BatchesTyped
  <1>4. PICK s \in Seq(NodeGroups) :
           /\ ready' = [ready EXCEPT ![h] = s]
           /\ \A i \in DOMAIN s : \E k \in DOMAIN ready[h] : ready[h][k] = s[i]
           /\ \A i \in DOMAIN ready[h] :
                 ready[h][i] \in asked' \union excused' \/ \E k \in DOMAIN s : s[k] = ready[h][i]
           /\ asked \subseteq asked' /\ excused \subseteq excused'
           /\ \A c \in asked' : c \in asked \/ \E k \in DOMAIN ready[h] : ready[h][k] = c
    <2>1. CASE ready[h] = <<>>
      <3>1. ready' = ready /\ asked' = asked /\ excused' = excused
        BY <2>1 DEF Dispatch
      <3>2. ready' = [ready EXCEPT ![h] = <<>>]
        BY <1>1, <2>1, <3>1 DEF ReactorInv, BatchesTyped
      <3>3. <<>> \in Seq(NodeGroups) /\ DOMAIN ready[h] = {} /\ \A i \in DOMAIN <<>> : FALSE
        BY <2>1
      <3> WITNESS <<>> \in Seq(NodeGroups)
      <3> QED BY <3>1, <3>2, <3>3
    <2>2. CASE /\ ready[h] # <<>> /\ asked' = asked \union {Head(ready[h])} /\ excused' = excused
               /\ ready' = [ready EXCEPT ![h] = Tail(ready[h])]
      <3>1. /\ asked' = asked \union {Head(ready[h])} /\ excused' = excused
            /\ ready' = [ready EXCEPT ![h] = Tail(ready[h])]
        BY <2>2
      <3> DEFINE s == Tail(ready[h])
      <3>2. /\ Head(ready[h]) = ready[h][1] /\ 1 \in DOMAIN ready[h] /\ s \in Seq(NodeGroups)
            /\ \A i \in DOMAIN s : s[i] = ready[h][i + 1] /\ i + 1 \in DOMAIN ready[h]
            /\ \A i \in DOMAIN ready[h] : i = 1 \/ (i - 1 \in DOMAIN s /\ s[i - 1] = ready[h][i])
        BY <1>2, <2>2, BatchSplits
      <3> HIDE DEF s
      <3>3. ready' = [ready EXCEPT ![h] = s]
        BY <3>1 DEF s
      <3>4. \A i \in DOMAIN ready[h] :
               ready[h][i] \in asked' \union excused' \/ \E k \in DOMAIN s : s[k] = ready[h][i]
        BY <3>1, <3>2
      <3>5. \A c \in asked' : c \in asked \/ \E k \in DOMAIN ready[h] : ready[h][k] = c
        BY <3>1, <3>2
      <3>6. \A i \in DOMAIN s : \E k \in DOMAIN ready[h] : ready[h][k] = s[i]
        BY <3>2
      <3>7. asked \subseteq asked' /\ excused \subseteq excused'
        BY <3>1
      <3> s \in Seq(NodeGroups)
        BY <3>2
      <3> WITNESS s \in Seq(NodeGroups)
      <3> QED BY <3>3, <3>4, <3>5, <3>6, <3>7
    <2>3. CASE /\ ready[h] # <<>> /\ asked' = asked /\ excused' = excused \union ToSet(ready[h])
               /\ ready' = [ready EXCEPT ![h] = <<>>]
      <3>1. asked' = asked /\ excused' = excused \union ToSet(ready[h]) /\ ready' = [ready EXCEPT ![h] = <<>>]
        BY <2>3
      <3>2. <<>> \in Seq(NodeGroups) /\ \A i \in DOMAIN <<>> : FALSE
        OBVIOUS
      <3>3. \A i \in DOMAIN ready[h] : ready[h][i] \in excused'
        BY <3>1 DEF ToSet
      <3> WITNESS <<>> \in Seq(NodeGroups)
      <3> QED BY <3>1, <3>2, <3>3
    <2> QED BY <2>1, <2>2, <2>3 DEF Dispatch
  <1>5. /\ ready' \in [NodeHierarchies -> Seq(NodeGroups)]
        /\ ready'[h] = s /\ \A x \in NodeHierarchies : x # h => ready'[x] = ready[x]
    BY <1>1, <1>4 DEF ReactorInv, BatchesTyped
  <1>6. /\ threads' \in [NodeHierarchies -> {"none", "idle", "setup", "dispatch", "dead"}]
        /\ threads'[h] = "dispatch" \/ (threads'[h] = "idle" /\ ready'[h] = <<>>)
        /\ \A x \in NodeHierarchies : x # h => threads'[x] = threads[x]
    BY <1>1, <1>3 DEF ReactorInv, BatchesTyped
  <1>7. MountsWait' /\ HierarchyShared'
    <2>1. \A x \in NodeHierarchies : threads'[x] = "none" <=> threads[x] = "none"
      BY <1>1, <1>6
    <2> QED BY <1>1, <2>1, MountsStay
  <1>8. BatchesTyped'
    BY <1>1, <1>5, <1>6 DEF ReactorInv, BatchesTyped, NodeHierarchies, NodeGroups
  <1>9. BatchesKnown'
    <2>1. ASSUME NEW x \in NodeHierarchies
          PROVE  /\ \A i \in DOMAIN toSetUp[x] : toSetUp[x][i].h = x /\ toSetUp[x][i] \in seen
                 /\ threads'[x] \in {"none", "idle", "dispatch"} => toSetUp[x] = <<>>
                 /\ threads'[x] \in {"none", "idle"} => ready'[x] = <<>>
                 /\ threads'[x] = "setup" => toSetUp[x] # <<>>
      BY <1>2, <1>5, <1>6 DEF ReactorInv, BatchesKnown
    <2> QED BY <1>1, <2>1 DEF BatchesKnown, NodeHierarchies
  <1>10. NoGroupForgotten'
    <2> SUFFICES ASSUME NEW c \in seen
                 PROVE  \/ c \in asked' \union excused'
                        \/ \E i \in DOMAIN toSetUp[c.h] : toSetUp[c.h][i] = c
                        \/ \E i \in DOMAIN ready'[c.h] : ready'[c.h][i] = c
      BY <1>1 DEF NoGroupForgotten
    <2>1. c.h \in NodeHierarchies
      BY DEF ReactorInv, BatchesTyped, NodeGroups
    <2>2. CASE \E i \in DOMAIN ready[c.h] : ready[c.h][i] = c
      BY <1>4, <1>5, <2>1, <2>2
    <2> QED BY <1>4, <2>2 DEF ReactorInv, NoGroupForgotten
  <1>11. JobsTracked'
    <2> SUFFICES ASSUME plugin.kind = "oar" PROVE JobsTracked'
      BY <1>1 DEF JobsTracked
    <2>1. ASSUME NEW x \in NodeHierarchies, NEW i \in DOMAIN ready'[x]
          PROVE  \E k \in DOMAIN ready[x] : ready[x][k] = ready'[x][i]
      BY <1>4, <1>5
    <2>2. ASSUME NEW x \in NodeHierarchies, NEW i \in DOMAIN ready'[x], ready'[x][i].job # NoJob
          PROVE  ready'[x][i].job \in tracked \union ended
      BY <2>1, <2>2 DEF ReactorInv, JobsTracked
    <2>3. \A c \in asked' : c.job # NoJob => c.job \in tracked \union ended
      BY <1>1, <1>4 DEF ReactorInv, JobsTracked
    <2> QED BY <1>1, <2>2, <2>3 DEF ReactorInv, JobsTracked, NodeHierarchies
  <1>12. AskedByThreads'
    BY <1>1, <1>6 DEF AskedByThreads, NodeHierarchies
  <1>13. OwnPointsAreAnnotated'
    BY <1>1 DEF ReactorInv, OwnPointsAreAnnotated
  <1> QED BY <1>7, <1>8, <1>9, <1>10, <1>11, <1>12, <1>13 DEF ReactorInv

\* The step DetectRemoval keeps the invariant.
LEMMA DetectRemovalKeepsInv == ASSUME ReactorInv, NEW h \in DOMAIN versions, DetectRemoval(h) PROVE ReactorInv'
  <1>1. /\ threads[h] = "idle" /\ h \in NodeHierarchies
        /\ UNCHANGED <<plugin, versions, unseen, gathered, mountWatch, toStart, shared, cachedRoot, threads, groups,
                       toSetUp, ready, open, lastPoint>>
    BY DEF DetectRemoval, mountVars, NodeHierarchies
  <1>2. PICK gone \in SUBSET {g \in seen \ groups : g.h = h} :
           /\ seen' = seen \ gone
           /\ tracked' = IF plugin.kind = "oar" THEN tracked \ Cleaned(gone) ELSE tracked
           /\ ended' = ended \union {g.job : g \in {x \in gone : HasJob(x)}}
           /\ asked' = asked \ gone /\ excused' = excused \ gone
    BY DEF DetectRemoval
  <1>3. MountsWait' /\ HierarchyShared'
    BY <1>1, MountsStay
  <1>4. BatchesTyped'
    BY <1>1, <1>2 DEF ReactorInv, BatchesTyped, NodeHierarchies, NodeGroups
  <1>5. BatchesKnown'
    <2>1. ASSUME NEW x \in NodeHierarchies, NEW i \in DOMAIN toSetUp[x]
          PROVE  toSetUp[x][i].h = x /\ toSetUp[x][i] \in seen'
      BY <1>1, <1>2 DEF ReactorInv, BatchesKnown
    <2> QED BY <1>1, <2>1 DEF ReactorInv, BatchesKnown, NodeHierarchies
  <1>6. NoGroupForgotten'
    BY <1>1, <1>2 DEF ReactorInv, NoGroupForgotten
  <1>7. JobsTracked'
    <2> SUFFICES ASSUME plugin.kind = "oar" PROVE JobsTracked'
      BY <1>1 DEF JobsTracked
    <2>1. tracked' = tracked \ Cleaned(gone) /\ ended' = ended \union Cleaned(gone)
      BY <1>2 DEF Cleaned
    <2>2. ASSUME NEW j \in tracked' PROVE j # NoJob /\ \E g \in seen' : g.job = j
      <3>1. PICK g \in seen : g.job = j /\ j # NoJob
        BY <2>1 DEF ReactorInv, JobsTracked
      <3>2. g \notin gone
        <4> SUFFICES ASSUME g \in gone PROVE FALSE
          OBVIOUS
        <4>1. HasJob(g)
          BY <3>1 DEF HasJob
        <4> QED BY <2>1, <3>1, <4>1 DEF Cleaned
      <3> QED BY <1>2, <3>1, <3>2
    <2>3. tracked \union ended \subseteq tracked' \union ended'
      BY <2>1
    <2>4. \A g \in asked' : g.job # NoJob => g.job \in tracked' \union ended'
      BY <1>2, <2>3 DEF ReactorInv, JobsTracked
    <2>5. ASSUME NEW x \in NodeHierarchies, NEW i \in DOMAIN ready[x], ready[x][i].job # NoJob
          PROVE  ready[x][i].job \in tracked' \union ended'
      BY <2>3, <2>5 DEF ReactorInv, JobsTracked
    <2> QED BY <1>1, <2>2, <2>4, <2>5 DEF JobsTracked, NodeHierarchies
  <1>8. AskedByThreads' /\ OwnPointsAreAnnotated'
    BY <1>1, <1>2 DEF ReactorInv, AskedByThreads, OwnPointsAreAnnotated, NodeHierarchies
  <1> QED BY <1>3, <1>4, <1>5, <1>6, <1>7, <1>8 DEF ReactorInv

\* The step Apply keeps the invariant.
LEMMA ApplyKeepsInv ==
    ASSUME ReactorInv, NEW g \in Groups, NEW own \in BOOLEAN, Apply(g, own)
    PROVE  ReactorInv'
  <1>1. UNCHANGED <<plugin, versions, unseen, gathered, mountWatch, toStart, threads, groups, seen, toSetUp, ready,
                    asked, excused, tracked, ended, open>>
    BY DEF Apply, detectorVars
  <1>2. MountsWait'
    BY <1>1 DEF ReactorInv, MountsWait, NodeHierarchies
  <1>3. HierarchyShared'
    <2>1. (shared # Nobody \/ cachedRoot # Nobody) => (shared' # Nobody \/ cachedRoot' # Nobody)
      BY DEF Apply, Fetched
    <2> QED BY <1>1, <2>1 DEF ReactorInv, HierarchyShared, AllV2, HearsMounts, NodeHierarchies
  <1>4. BatchesTyped' /\ BatchesKnown' /\ NoGroupForgotten'
    BY <1>1 DEF ReactorInv, BatchesTyped, BatchesKnown, NoGroupForgotten, NodeHierarchies, NodeGroups
  <1>5. JobsTracked' /\ AskedByThreads'
    BY <1>1 DEF ReactorInv, JobsTracked, AskedByThreads, NodeHierarchies
  <1>6. OwnPointsAreAnnotated'
    <2> SUFFICES ASSUME plugin.kind = "slurm", lastPoint'.own, AllV2 PROVE ~lastPoint'.failed
      BY <1>1 DEF OwnPointsAreAnnotated, AllV2, NodeHierarchies
    <2>1. lastPoint'.own = own /\ lastPoint'.failed = (Annotates /\ Fetched = Nobody)
      BY DEF Apply
    <2>2. asked # {}
      BY <2>1 DEF Apply
    <2>3. Annotates => HearsMounts
      BY DEF Annotates, HearsMounts
    <2>4. \E h \in NodeHierarchies : threads[h] # "none"
      BY <2>2 DEF ReactorInv, AskedByThreads
    <2>5. Annotates => Fetched # Nobody
      BY <2>3, <2>4 DEF ReactorInv, HierarchyShared, Fetched
    <2> QED BY <2>1, <2>5
  <1> QED BY <1>2, <1>3, <1>4, <1>5, <1>6 DEF ReactorInv

\* Every step keeps the invariant.
LEMMA ReactorStep == ReactorInv /\ [ReactorNext]_reactorVars => ReactorInv'
  <1> SUFFICES ASSUME ReactorInv, ReactorNext \/ UNCHANGED reactorVars PROVE ReactorInv'
    OBVIOUS
  <1>1. CASE UNCHANGED reactorVars
    <2>1. UNCHANGED <<plugin, versions, unseen, gathered, mountWatch, toStart, shared, cachedRoot, threads, groups,
                      seen, toSetUp, ready, asked, excused, tracked, ended, open, lastPoint>>
      BY <1>1 DEF reactorVars, mountVars, detectorVars
    <2>2. MountsWait' /\ HierarchyShared'
      BY <2>1, MountsStay
    <2>3. groups' \subseteq NodeGroups
      BY <2>1 DEF ReactorInv, BatchesTyped
    <2> QED BY <2>1, <2>2, <2>3, BatchesStay
  <1>2. CASE \/ \E h \in DOMAIN versions : Mount(h)
             \/ MountEvent \/ CoalesceDelay \/ StartDetector \/ DetectorFails
    BY <1>2, MountKeepsInv, MountEventKeepsInv, CoalesceDelayKeepsInv, StartDetectorKeepsInv, DetectorFailsKeepsInv
  <1>3. CASE \/ EndCallback \/ CloseControl
             \/ \E g \in Groups : CreateGroup(g)
             \/ \E g \in Groups : DeleteGroup(g)
    BY <1>3, ReactorOthersKeepInv
  <1>4. CASE \/ \E h \in DOMAIN versions : Detect(h)
             \/ \E h \in DOMAIN versions : SetupProbe(h)
             \/ \E h \in DOMAIN versions : NoUserName(h)
             \/ \E h \in DOMAIN versions : Dispatch(h)
             \/ \E h \in DOMAIN versions : DetectRemoval(h)
    BY <1>4, DetectKeepsInv, SetupProbeKeepsInv, NoUserNameKeepsInv, DispatchKeepsInv, DetectRemovalKeepsInv
  <1>5. CASE \E g \in Groups, own \in BOOLEAN : Apply(g, own)
    BY <1>5, ApplyKeepsInv
  <1> QED BY <1>1, <1>2, <1>3, <1>4, <1>5 DEF ReactorNext

\* The invariant says what is promised of the cgroups.
LEMMA ReactorInvMeasures == ReactorInv => NoGroupForgotten /\ RunningJobsAreTracked /\ OwnPointsAreAnnotated
  <1>1. ReactorInv => RunningJobsAreTracked
    BY DEF ReactorInv, JobsTracked, RunningJobsAreTracked
  <1> QED BY <1>1 DEF ReactorInv

\* Every cgroup that a detector tells has its source on the way unless its own set-up failed,
\* the jobs told are those that run, and the points of slurm are annotated on a node with cgroup
\* v2 only, for any number of hierarchies and cgroups and any order of the mounts.
THEOREM GroupsAreMeasured == ReactorSpec => [](NoGroupForgotten /\ RunningJobsAreTracked /\ OwnPointsAreAnnotated)
  BY ReactorInitOK, ReactorStep, ReactorInvMeasures, PTL DEF ReactorSpec

-------------------------------------------------------------------------------
(* The monitoring of the processes.                                           *)

WatcherSteps == {"idle", "list", "stat", "filter", "open", "failed"}
Cursors == [pid : ProcPids \union {0}, inc : 0..MaxForks]
Watchers ==
    [pc : WatcherSteps, left : SUBSET ProcPids, cur : Cursors,
     group : Nat \ {0}, found : SUBSET Incarnations, seen : SUBSET Incarnations]
Processes == [inc : 0..MaxForks, ppid : {0, 1}, kind : {"user", "other", "foreign", "kernel"}]
SourceOrders == [kind : {"create", "trigger"}, incs : SUBSET Incarnations]

MonitorTyped ==
    /\ filters \in ProcFilters /\ strategy \in {"watcher", "event"}
    /\ forks \in 0..MaxForks /\ procs \in [ProcPids -> Processes]
    /\ watcher \in Watchers /\ printOf = [p \in ProcPids |-> printOf[p]]
    /\ listed \subseteq Incarnations /\ orders \in Seq(SourceOrders)
    /\ untriggered = {}

\* Two processes that live are not the same, and a process has its first parent until it is adopted.
ProcessesDiffer ==
    /\ \A p \in ProcPids : procs[p].inc =< forks
    /\ \A p, q \in ProcPids : procs[p].inc = procs[q].inc /\ procs[p].inc # 0 => p = q
    /\ \A p \in ProcPids : procs[p].inc # 0 /\ procs[p].inc \notin adopted => procs[p].ppid = Launcher

\* Where a process is on its way to its source.
IsOrdered(i) == \E n \in DOMAIN orders : i \in orders[n].incs
IsTried(i) == watcher.cur.inc = i /\ watcher.pc \in {"filter", "open"}
IsAwaited(i) == IsTried(i) \/ i \in watcher.found \/ IsOrdered(i)

\* A process that has not started has left no trace.
NoTraceOf(i) ==
    /\ procProbes[i].made = 0 /\ watcher.cur.inc # i /\ ~IsOrdered(i)
    /\ i \notin watcher.found \union watcher.seen \union listed
    /\ \A p \in ProcPids : printOf[p] # <<i, Launcher>>

NoneBeforeStart == \A i \in Incarnations : i > forks => NoTraceOf(i)

\* The watcher goes on with the process that it has listed under its pid.
CursorHolds ==
    /\ watcher.pc \in {"stat", "filter", "open"} =>
          /\ watcher.cur.inc # 0
          /\ \A p \in ProcPids : procs[p].inc = watcher.cur.inc => p = watcher.cur.pid
    /\ watcher.pc = "stat" => watcher.group = 1
    /\ watcher.pc = "idle" => watcher.found = {}

\* A process gets its source in one way: its fingerprint is recorded, then it is tried, found and
\* ordered, in this order and once; a process listed is beyond the first two, so that the failure
\* of the watcher takes nothing from it.
IsFollowed(p, i) ==
    /\ \A m, n \in DOMAIN orders : i \in orders[m].incs /\ i \in orders[n].incs => m = n
    /\ IsTried(i) => i \notin watcher.found
    /\ IsTried(i) \/ i \in watcher.found => ~IsOrdered(i)
    /\ procProbes[i].made \in {0, 1} /\ (IsAwaited(i) => procProbes[i].made = 0)
    /\ printOf[p] # <<i, Launcher>> =>
          ~IsAwaited(i) /\ procProbes[i].made = 0 /\ i \notin watcher.seen \union listed
    /\ i \in listed => ~IsTried(i) /\ i \notin watcher.found
    /\ /\ watcher.pc # "failed" \/ i \in listed
       /\ printOf[p] = <<i, Launcher>> /\ WantedProcess(procs[p])
       => IsAwaited(i) \/ procProbes[i].made = 1
    /\ IsTried(i) /\ watcher.pc = "filter" =>
          \A k \in DOMAIN filters : k < watcher.group => Accepts(filters[k], procs[p]) # "yes"

ProcessesFollowed ==
    \A p \in ProcPids : procs[p].inc # 0 /\ procs[p].inc \notin adopted => IsFollowed(p, procs[p].inc)

OnlyCreates == \A n \in DOMAIN orders : orders[n].kind = "create"

WatcherInv ==
    /\ ProcessesDiffer /\ NoneBeforeStart /\ CursorHolds /\ ProcessesFollowed /\ OnlyCreates

\* The orders of an event that are still to come.
CreateOf(i) == [kind |-> "create", incs |-> {i}]
TriggerOf(i) == [kind |-> "trigger", incs |-> {i}]
EventInv ==
    /\ watcher.pc = "idle" /\ listed = {}
    /\ \/ orders = <<>>
       \/ \E i \in Incarnations : orders = <<CreateOf(i), TriggerOf(i)>>
       \/ \E i \in Incarnations : orders = <<TriggerOf(i)>> /\ procProbes[i].made # 0

MonitorInv ==
    /\ ProcWatcherInv /\ MonitorTyped
    /\ strategy = "watcher" => WatcherInv
    /\ strategy = "event" => EventInv

\* The invariant holds initially.
LEMMA MonitorInitOK == ProcWatcherInit => MonitorInv
  <1> SUFFICES ASSUME ProcWatcherInit PROVE MonitorInv
    OBVIOUS
  <1>1. NoProcess \in Processes /\ NoProcess.inc = 0
    BY ProcWatcherAssumption DEF NoProcess, Processes, Launcher
  <1>2. watcher \in Watchers /\ watcher.pc = "idle" /\ watcher.found = {} /\ watcher.seen = {}
        /\ watcher.cur.inc = 0
    <2>1. NoCurrent \in Cursors /\ NoCurrent.inc = 0
      BY ProcWatcherAssumption DEF NoCurrent, Cursors
    <2>2. watcher = Resting
      BY DEF ProcWatcherInit
    <2> HIDE DEF NoCurrent
    <2>3. Resting \in Watchers
      BY <2>1 DEF Resting, Watchers, WatcherSteps
    <2>4. Resting.cur = NoCurrent /\ Resting.pc = "idle" /\ Resting.found = {} /\ Resting.seen = {}
      BY DEF Resting
    <2> QED BY <2>1, <2>2, <2>3, <2>4
  <1>3. /\ \A p \in ProcPids : procs[p] = NoProcess /\ printOf[p] = <<>>
        /\ \A i \in Incarnations : procProbes[i].made = 0
        /\ procs \in [ProcPids -> Processes] /\ printOf = [p \in ProcPids |-> printOf[p]]
    BY <1>1 DEF ProcWatcherInit, NoProcProbe
  <1>4. forks = 0 /\ orders = <<>> /\ listed = {} /\ untriggered = {} /\ DOMAIN orders = {}
    BY DEF ProcWatcherInit
  <1>5. MonitorTyped
    BY <1>2, <1>3, <1>4, ProcWatcherAssumption DEF MonitorTyped, ProcWatcherInit
  <1>6. WatcherInv
    <2>1. ProcessesDiffer /\ ProcessesFollowed
      BY <1>1, <1>3, <1>4 DEF ProcessesDiffer, ProcessesFollowed
    <2>2. NoneBeforeStart
      <3>1. \A i : <<>> # <<i, Launcher>>
        OBVIOUS
      <3>2. ~\E n \in DOMAIN orders : TRUE
        BY <1>4
      <3>3. \A i \in Incarnations : i # 0
        BY DEF Incarnations
      <3> QED BY <1>2, <1>3, <1>4, <3>1, <3>2, <3>3 DEF NoneBeforeStart, NoTraceOf, IsOrdered
    <2>3. CursorHolds /\ OnlyCreates
      BY <1>2, <1>4 DEF CursorHolds, OnlyCreates
    <2> QED BY <2>1, <2>2, <2>3 DEF WatcherInv
  <1>7. EventInv
    BY <1>2, <1>4 DEF EventInv
  <1> QED BY <1>5, <1>6, <1>7, ProcWatcherInitOK DEF MonitorInv

\* What the steps of the sources and of the time leave alone.
MonitorRests ==
    UNCHANGED <<procs, forks, adopted, filters, strategy, watcher, printOf, listed, orders, untriggered>>

\* A step of a source or of the time keeps the invariant.
LEMMA MonitorStays ==
    ASSUME MonitorInv, ProcWatcherInv', MonitorRests,
           \A i \in Incarnations : procProbes'[i].made = procProbes[i].made
    PROVE  MonitorInv'
  <1>1. MonitorTyped'
    BY DEF MonitorInv, MonitorTyped, MonitorRests
  <1>2. CASE strategy = "watcher"
    <2>1. ProcessesDiffer' /\ CursorHolds' /\ OnlyCreates'
      BY <1>2 DEF MonitorInv, WatcherInv, ProcessesDiffer, CursorHolds, OnlyCreates, MonitorRests
    <2>2. NoneBeforeStart'
      BY <1>2 DEF MonitorInv, WatcherInv, NoneBeforeStart, NoTraceOf, IsOrdered, MonitorRests
    <2>3. ProcessesFollowed'
      <3> SUFFICES ASSUME NEW p \in ProcPids, procs[p].inc # 0, procs[p].inc \notin adopted
                   PROVE  IsFollowed(p, procs[p].inc)'
        BY DEF ProcessesFollowed, MonitorRests
      <3>1. procs[p].inc \in Incarnations
        BY DEF MonitorInv, MonitorTyped, Processes, Incarnations
      <3>2. IsFollowed(p, procs[p].inc)
        BY <1>2 DEF MonitorInv, WatcherInv, ProcessesFollowed
      <3> QED BY <3>1, <3>2 DEF IsFollowed, IsAwaited, IsTried, IsOrdered, WantedProcess, MonitorRests
    <2> QED BY <1>1, <1>2, <2>1, <2>2, <2>3 DEF MonitorInv, WatcherInv, MonitorRests
  <1>3. CASE strategy = "event"
    BY <1>1, <1>3 DEF MonitorInv, EventInv, MonitorRests
  <1> QED BY <1>2, <1>3 DEF MonitorInv, MonitorTyped

\* The polls of the sources and the CPU time keep the invariant.
LEMMA SourcesKeepMonitor ==
    ASSUME MonitorInv, NEW i \in Incarnations, PollStat(i) \/ PollMemory(i) \/ RunProcess(i)
    PROVE  MonitorInv'
  <1>1. ProcWatcherInv'
    BY PollStatKeepsInv, PollMemoryKeepsInv, RunProcessKeepsInv DEF MonitorInv
  <1>2. procProbes \in [Incarnations -> ProcessSource]
    BY DEF MonitorInv, ProcWatcherInv
  <1>3. ASSUME NEW q, q.made = procProbes[i].made, SetProbe(i, q)
        PROVE  MonitorRests /\ \A j \in Incarnations : procProbes'[j].made = procProbes[j].made
    <2>1. procProbes' = [procProbes EXCEPT ![i] = q]
      BY <1>3 DEF SetProbe
    <2>2. MonitorRests
      BY <1>3 DEF SetProbe, MonitorRests, procWorld, procConfig, watcherState
    <2> QED BY <1>2, <1>3, <2>1, <2>2
  <1>4. ASSUME NEW x, NEW t, NEW v
        PROVE  /\ [procProbes[i] EXCEPT !.pc = x, !.stat = t].made = procProbes[i].made
               /\ [procProbes[i] EXCEPT !.pc = x].made = procProbes[i].made
               /\ [procProbes[i] EXCEPT !.pc = x, !.told = v, !.prev = t].made = procProbes[i].made
    BY <1>2 DEF ProcessSource
  <1>5. CASE PollStat(i)
    <2>1. \E q : q.made = procProbes[i].made /\ SetProbe(i, q)
      BY <1>4, <1>5 DEF PollStat
    <2> QED BY <1>1, <1>3, <2>1, MonitorStays
  <1>6. CASE PollMemory(i)
    <2> DEFINE done == [procProbes[i] EXCEPT !.pc = "idle", !.told = @ + CpuDelta(procProbes[i]),
                                              !.prev = procProbes[i].stat]
               over == [procProbes[i] EXCEPT !.pc = NotFoundEnd]
               reads == Lives(i) /\ ~(slowMem /\ ProcessOf(i).kind = "kernel")
    <2>1. SetProbe(i, IF reads THEN done ELSE over)
      BY <1>6 DEF PollMemory
    <2>2. done.made = procProbes[i].made /\ over.made = procProbes[i].made
      BY <1>2 DEF ProcessSource
    <2> HIDE DEF done, over, reads
    <2> QED BY <1>1, <1>3, <2>1, <2>2, MonitorStays
  <1>7. CASE RunProcess(i)
    <2>1. MonitorRests /\ procProbes' = procProbes
      BY <1>7 DEF RunProcess, MonitorRests, procConfig, watcherState
    <2> QED BY <1>1, <2>1, MonitorStays
  <1> QED BY <1>5, <1>6, <1>7

\* What a step of the refresh leaves alone.
RefreshRests == UNCHANGED <<procs, forks, adopted, ticksOf, filters, strategy, orders, procProbes, untriggered>>

\* A step of the refresh keeps the invariant when it keeps the parts about the watcher.
LEMMA RefreshKeeps ==
    ASSUME MonitorInv, strategy = "watcher", RefreshRests,
           watcher' \in Watchers, printOf' = [p \in ProcPids |-> printOf'[p]], listed' \subseteq Incarnations,
           NoneBeforeStart', CursorHolds', ProcessesFollowed'
    PROVE  MonitorInv'
  <1>1. ProcWatcherInv'
    BY SourcesStay DEF MonitorInv, RefreshRests
  <1>2. MonitorTyped'
    BY DEF MonitorInv, MonitorTyped, RefreshRests
  <1>3. ProcessesDiffer' /\ OnlyCreates'
    BY DEF MonitorInv, WatcherInv, ProcessesDiffer, OnlyCreates, RefreshRests
  <1> QED BY <1>1, <1>2, <1>3 DEF MonitorInv, WatcherInv, RefreshRests

\* A process that the watcher neither tried nor tries is followed as before.
LEMMA RefreshFollows ==
    ASSUME MonitorInv, strategy = "watcher", RefreshRests, listed' = listed, watcher.pc # "failed",
           watcher'.found = watcher.found, NEW p \in ProcPids, procs[p].inc # 0, procs[p].inc \notin adopted,
           printOf'[p] = printOf[p], ~IsTried(procs[p].inc), ~IsTried(procs[p].inc)',
           watcher'.seen \subseteq watcher.seen \/ printOf[p] = <<procs[p].inc, Launcher>>
             \/ (procs[p].inc \notin watcher'.seen \ watcher.seen)
    PROVE  IsFollowed(p, procs[p].inc)'
  <1>1. IsFollowed(p, procs[p].inc)
    BY DEF MonitorInv, WatcherInv, ProcessesFollowed
  <1> QED BY <1>1 DEF IsFollowed, IsAwaited, IsTried, IsOrdered, WantedProcess, RefreshRests

\* The step StartRefresh keeps the invariant.
LEMMA StartRefreshKeepsInv == ASSUME MonitorInv, StartRefresh PROVE MonitorInv'
  <1>1. /\ strategy = "watcher" /\ watcher.pc = "idle" /\ RefreshRests /\ printOf' = printOf /\ listed' = listed
        /\ watcher' = [Resting EXCEPT !.pc = "list", !.left = ProcPids]
    BY DEF StartRefresh, RefreshRests, procWorld, procConfig
  <1>2. /\ watcher' \in Watchers /\ watcher'.pc = "list" /\ watcher'.found = {} /\ watcher'.seen = {}
        /\ watcher'.cur.inc = 0
    <2>1. NoCurrent \in Cursors /\ NoCurrent.inc = 0
      BY ProcWatcherAssumption DEF NoCurrent, Cursors
    <2> HIDE DEF NoCurrent
    <2>2. Resting \in Watchers
      BY <2>1 DEF Resting, Watchers, WatcherSteps
    <2>3. Resting.cur = NoCurrent /\ Resting.found = {} /\ Resting.seen = {}
      BY DEF Resting
    <2> HIDE DEF Resting
    <2> QED BY <1>1, <2>1, <2>2, <2>3 DEF Watchers, WatcherSteps
  <1>3. WatcherInv /\ MonitorTyped /\ watcher.found = {}
    BY <1>1 DEF MonitorInv, WatcherInv, CursorHolds
  <1>4. NoneBeforeStart'
    BY <1>1, <1>2, <1>3 DEF WatcherInv, NoneBeforeStart, NoTraceOf, IsOrdered, RefreshRests, Incarnations
  <1>5. CursorHolds'
    BY <1>2 DEF CursorHolds
  <1>6. ProcessesFollowed'
    <2>1. ASSUME NEW p \in ProcPids, procs[p].inc # 0, procs[p].inc \notin adopted
          PROVE  IsFollowed(p, procs[p].inc)'
      BY <1>1, <1>2, <1>3, <2>1, RefreshFollows DEF IsTried
    <2> QED BY <1>1, <2>1 DEF ProcessesFollowed, RefreshRests
  <1> QED BY <1>1, <1>2, <1>3, <1>4, <1>5, <1>6, RefreshKeeps DEF MonitorTyped

\* The step ListEntry keeps the invariant.
LEMMA ListEntryKeepsInv == ASSUME MonitorInv, NEW p \in ProcPids, ListEntry(p) PROVE MonitorInv'
  <1> DEFINE x == IF procs[p].inc = 0 THEN "list" ELSE "stat"
             c == [pid |-> p, inc |-> procs[p].inc]
             rest == watcher.left \ {p}
  <1>1. /\ watcher.pc = "list" /\ RefreshRests /\ printOf' = printOf /\ listed' = listed
        /\ watcher' = [watcher EXCEPT !.left = rest, !.pc = x, !.cur = c, !.group = 1]
    BY DEF ListEntry, RefreshRests, procWorld, procConfig
  <1>2. strategy = "watcher" /\ WatcherInv /\ MonitorTyped
    BY <1>1 DEF MonitorInv, MonitorTyped, EventInv
  <1>3. /\ x \in {"list", "stat"} /\ (x = "stat" => procs[p].inc # 0)
        /\ c \in Cursors /\ c.inc = procs[p].inc /\ c.pid = p
        /\ rest \in SUBSET ProcPids
    BY <1>2 DEF MonitorTyped, Processes, Watchers, Cursors
  <1> HIDE DEF x, c, rest
  <1>4. /\ watcher' \in Watchers
        /\ watcher'.pc = x /\ watcher'.cur = c /\ watcher'.group = 1
        /\ watcher'.found = watcher.found /\ watcher'.seen = watcher.seen
    <2>1. watcher \in Watchers
      BY <1>2 DEF MonitorTyped
    <2>2. watcher' \in Watchers
      <3> DEFINE w == [watcher EXCEPT !.left = rest, !.pc = x]
      <3>1. w \in Watchers
        BY <1>3, <2>1 DEF Watchers, WatcherSteps
      <3>2. [w EXCEPT !.cur = c, !.group = 1] \in Watchers
        <4> HIDE DEF w
        <4> DEFINE v == [w EXCEPT !.cur = c]
        <4>1. v \in Watchers
          BY <1>3, <3>1 DEF Watchers
        <4> HIDE DEF v
        <4>2. [v EXCEPT !.group = 1] \in Watchers
          BY <4>1 DEF Watchers
        <4> USE DEF v
        <4>3. [v EXCEPT !.group = 1] = [w EXCEPT !.cur = c, !.group = 1]
          BY <3>1 DEF Watchers
        <4> HIDE DEF v
        <4> QED BY <4>2, <4>3
      <3>3. watcher' = [w EXCEPT !.cur = c, !.group = 1]
        BY <1>1, <2>1 DEF Watchers
      <3> HIDE DEF w
      <3> QED BY <3>2, <3>3
    <2>3. watcher'.pc = x /\ watcher'.cur = c
      BY <1>1, <2>1 DEF Watchers
    <2>4. watcher'.group = 1
      BY <1>1, <2>1 DEF Watchers
    <2>5. watcher'.found = watcher.found /\ watcher'.seen = watcher.seen
      BY <1>1, <2>1 DEF Watchers
    <2> QED BY <2>2, <2>3, <2>4, <2>5
  <1>5. NoneBeforeStart'
    <2>1. procs[p].inc =< forks /\ procs[p].inc \in 0..MaxForks /\ forks \in 0..MaxForks
      BY <1>2 DEF WatcherInv, ProcessesDiffer, MonitorTyped, Processes
    <2>2. ASSUME NEW i \in Incarnations, i > forks PROVE procs[p].inc # i
      BY <2>1, <2>2 DEF Incarnations
    <2> QED BY <1>1, <1>2, <1>3, <1>4, <2>2 DEF WatcherInv, NoneBeforeStart, NoTraceOf, IsOrdered, RefreshRests
  <1>6. CursorHolds'
    BY <1>1, <1>2, <1>3, <1>4 DEF WatcherInv, ProcessesDiffer, CursorHolds, RefreshRests
  <1>7. ProcessesFollowed'
    <2>1. ASSUME NEW q \in ProcPids, procs[q].inc # 0, procs[q].inc \notin adopted
          PROVE  IsFollowed(q, procs[q].inc)'
      BY <1>1, <1>2, <1>3, <1>4, <2>1, RefreshFollows DEF IsTried
    <2> QED BY <1>1, <2>1 DEF ProcessesFollowed, RefreshRests
  <1> QED BY <1>1, <1>2, <1>4, <1>5, <1>6, <1>7, RefreshKeeps DEF MonitorTyped

\* The process of a number, while it lives.
LEMMA ProcessIsFound ==
    ASSUME ProcessesDiffer, NEW p \in ProcPids, procs[p].inc # 0
    PROVE  Lives(procs[p].inc) /\ ProcessOf(procs[p].inc) = procs[p]
  BY DEF ProcessesDiffer, Lives, ProcessOf

\* The watcher leaves a process, and ends nothing.
LEMMA LeaveEntryKeeps ==
    ASSUME MonitorInv, strategy = "watcher", RefreshRests, printOf' = printOf, listed' = listed,
           watcher.pc \in {"stat", "filter", "open"},
           watcher' = [watcher EXCEPT !.pc = "list"],
           \A p \in ProcPids : procs[p].inc # 0 /\ procs[p].inc \notin adopted /\ IsTried(procs[p].inc) =>
              ~WantedProcess(procs[p])
    PROVE  MonitorInv'
  <1>1. WatcherInv /\ MonitorTyped
    BY DEF MonitorInv
  <1>2. /\ watcher' \in Watchers
        /\ watcher'.pc = "list" /\ watcher'.cur = watcher.cur
        /\ watcher'.found = watcher.found /\ watcher'.seen = watcher.seen
    BY <1>1 DEF MonitorTyped, Watchers, WatcherSteps
  <1>3. NoneBeforeStart'
    BY <1>1, <1>2 DEF WatcherInv, NoneBeforeStart, NoTraceOf, IsOrdered, RefreshRests
  <1>4. CursorHolds'
    BY <1>2 DEF CursorHolds
  <1>5. ProcessesFollowed'
    <2>1. ASSUME NEW q \in ProcPids, procs[q].inc # 0, procs[q].inc \notin adopted
          PROVE  IsFollowed(q, procs[q].inc)'
      <3>1. IsFollowed(q, procs[q].inc)
        BY <1>1, <2>1 DEF WatcherInv, ProcessesFollowed
      <3>2. ~IsTried(procs[q].inc)'
        BY <1>2 DEF IsTried
      <3>3. CASE IsTried(procs[q].inc)
        <4>1. ~WantedProcess(procs[q]) /\ ~WantedProcess(procs[q])'
          BY <2>1, <3>3 DEF WantedProcess, RefreshRests
        <4> QED BY <1>2, <3>1, <3>2, <3>3, <4>1 DEF IsFollowed, IsAwaited, IsOrdered, RefreshRests
      <3> QED BY <1>2, <2>1, <3>2, <3>3, RefreshFollows
    <2> QED BY <2>1 DEF ProcessesFollowed, RefreshRests
  <1> QED BY <1>1, <1>2, <1>3, <1>4, <1>5, RefreshKeeps DEF MonitorTyped

\* The watcher fails: it loses those that it has not listed yet.
LEMMA WatcherEndsKeeps ==
    ASSUME MonitorInv, strategy = "watcher", RefreshRests, printOf' = printOf, listed' = listed, WatcherEnds
    PROVE  MonitorInv'
  <1>1. WatcherInv /\ MonitorTyped
    BY DEF MonitorInv
  <1>2. /\ watcher' \in Watchers
        /\ watcher'.pc = "failed" /\ watcher'.cur = watcher.cur
        /\ watcher'.found = watcher.found /\ watcher'.seen = watcher.seen
    BY <1>1 DEF MonitorTyped, Watchers, WatcherSteps, WatcherEnds
  <1>3. NoneBeforeStart'
    BY <1>1, <1>2 DEF WatcherInv, NoneBeforeStart, NoTraceOf, IsOrdered, RefreshRests
  <1>4. CursorHolds'
    BY <1>2 DEF CursorHolds
  <1>5. ProcessesFollowed'
    <2>1. ASSUME NEW q \in ProcPids, procs[q].inc # 0, procs[q].inc \notin adopted
          PROVE  IsFollowed(q, procs[q].inc)'
      <3>1. IsFollowed(q, procs[q].inc)
        BY <1>1, <2>1 DEF WatcherInv, ProcessesFollowed
      <3>2. ~IsTried(procs[q].inc)'
        BY <1>2 DEF IsTried
      <3>3. IsAwaited(procs[q].inc)' => IsAwaited(procs[q].inc)
        BY <1>2, <3>2 DEF IsAwaited, IsOrdered, RefreshRests
      <3>4. procs[q].inc \in listed /\ IsAwaited(procs[q].inc) => IsAwaited(procs[q].inc)'
        BY <1>2, <3>1 DEF IsFollowed, IsAwaited, IsOrdered, RefreshRests
      <3>5. IsOrdered(procs[q].inc)' <=> IsOrdered(procs[q].inc)
        BY DEF IsOrdered, RefreshRests
      <3>6. WantedProcess(procs[q])' <=> WantedProcess(procs[q])
        BY DEF WantedProcess, RefreshRests
      <3> QED BY <1>2, <3>1, <3>2, <3>3, <3>4, <3>5, <3>6 DEF IsFollowed, RefreshRests
    <2> QED BY <2>1 DEF ProcessesFollowed, RefreshRests
  <1> QED BY <1>1, <1>2, <1>3, <1>4, <1>5, RefreshKeeps DEF MonitorTyped

\* The step ReadProcStat keeps the invariant.
LEMMA ReadProcStatKeepsInv == ASSUME MonitorInv, ReadProcStat PROVE MonitorInv'
  <1> DEFINE c == watcher.cur
             print == Fingerprint(c.inc)
             x == IF printOf[c.pid] = print THEN "list" ELSE "filter"
             read == watcher.seen \union {c.inc}
  <1>1. /\ watcher.pc = "stat" /\ RefreshRests /\ listed' = listed
        /\ \/ watcher' = [watcher EXCEPT !.pc = "list"] /\ printOf' = printOf
           \/ WatcherEnds /\ printOf' = printOf
           \/ /\ Lives(c.inc) /\ watcher' = [watcher EXCEPT !.pc = x, !.seen = read]
              /\ printOf' = [printOf EXCEPT ![c.pid] = print]
    BY DEF ReadProcStat, RefreshRests, procWorld, procConfig
  <1>2. strategy = "watcher" /\ WatcherInv /\ MonitorTyped
    BY <1>1 DEF MonitorInv, MonitorTyped, EventInv
  <1>3. c.inc \in Incarnations /\ read \in SUBSET Incarnations /\ x \in {"list", "filter"} /\ c.inc # 0
    <2>1. c.inc \in 0..MaxForks /\ c.inc # 0 /\ watcher.seen \in SUBSET Incarnations
      BY <1>1, <1>2 DEF MonitorTyped, Watchers, Cursors, WatcherInv, CursorHolds
    <2> HIDE DEF c
    <2> QED BY <2>1, ProcWatcherAssumption DEF Incarnations
  <1>4. \A i \in Incarnations : ~IsTried(i)
    BY <1>1 DEF IsTried
  <1>5. CASE watcher' = [watcher EXCEPT !.pc = "list"] /\ printOf' = printOf
    BY <1>1, <1>2, <1>5, LeaveEntryKeeps DEF IsTried
  <1>50. CASE WatcherEnds /\ printOf' = printOf
    BY <1>1, <1>2, <1>50, WatcherEndsKeeps
  <1>6. CASE Lives(c.inc) /\ watcher' = [watcher EXCEPT !.pc = x, !.seen = read]
             /\ printOf' = [printOf EXCEPT ![c.pid] = print]
    <2>1. PICK p \in ProcPids : procs[p].inc = c.inc
      BY <1>6 DEF Lives
    <2>2. p = c.pid
      BY <1>1, <1>2, <2>1 DEF WatcherInv, CursorHolds
    <2>3. procs[p].inc # 0 /\ print = <<c.inc, procs[p].ppid>>
      BY <1>2, <1>3, <2>1, ProcessIsFound DEF WatcherInv, Fingerprint
    <2> HIDE DEF x, read, print
    <2>4. /\ watcher' \in Watchers /\ watcher'.pc = x /\ watcher'.cur = c /\ watcher'.seen = read
      <3>1. watcher \in Watchers
        BY <1>2 DEF MonitorTyped
      <3>2. watcher' \in Watchers
        BY <1>3, <1>6, <3>1 DEF Watchers, WatcherSteps
      <3>3. watcher'.pc = x /\ watcher'.cur = c /\ watcher'.seen = read
        BY <1>6, <3>1 DEF Watchers
      <3> QED BY <3>2, <3>3
    <2>5. watcher'.found = watcher.found /\ watcher'.group = watcher.group
      BY <1>2, <1>6 DEF MonitorTyped, Watchers
    <2>6. /\ \A q \in ProcPids : printOf'[q] = IF q = p THEN print ELSE printOf[q]
          /\ printOf' = [q \in ProcPids |-> printOf'[q]]
      BY <1>2, <1>6, <2>2 DEF MonitorTyped
    <2>7. NoneBeforeStart'
      <3>1. ASSUME NEW i \in Incarnations, i > forks PROVE c.inc # i
        <4>1. procs[p].inc =< forks /\ forks \in 0..MaxForks /\ procs[p].inc \in 0..MaxForks
          BY <1>2 DEF WatcherInv, ProcessesDiffer, MonitorTyped, Processes
        <4> HIDE DEF c
        <4> QED BY <2>1, <3>1, <4>1 DEF Incarnations
      <3>2. ASSUME NEW i \in Incarnations, i > forks PROVE NoTraceOf(i)'
        <4>1. NoTraceOf(i) /\ c.inc # i
          BY <1>2, <3>1, <3>2 DEF WatcherInv, NoneBeforeStart
        <4>2. \A q \in ProcPids : printOf'[q] # <<i, Launcher>>
          BY <2>3, <2>6, <4>1 DEF NoTraceOf
        <4>3. i \notin watcher'.found \union watcher'.seen \union listed'
          BY <1>1, <2>4, <2>5, <4>1 DEF NoTraceOf, read
        <4> QED BY <1>1, <2>4, <4>1, <4>2, <4>3 DEF NoTraceOf, IsOrdered, RefreshRests
      <3> QED BY <1>1, <3>2 DEF NoneBeforeStart, RefreshRests
    <2>8. CursorHolds'
      BY <1>1, <1>2, <1>3, <2>4, <2>5 DEF WatcherInv, CursorHolds, RefreshRests
    <2>9. ASSUME NEW q \in ProcPids, procs[q].inc # 0, procs[q].inc \notin adopted
          PROVE  IsFollowed(q, procs[q].inc)'
      <3> DEFINE i == procs[q].inc
      <3>1. IsFollowed(q, i) /\ i \in Incarnations
        BY <1>1, <1>2, <2>9 DEF WatcherInv, ProcessesFollowed, MonitorTyped, Processes, Incarnations
      <3>2. ~IsTried(i)
        BY <1>4, <3>1
      <3>3. CASE q # p
        <4>1. i # c.inc
          BY <1>2, <2>1, <2>9, <3>3 DEF WatcherInv, ProcessesDiffer
        <4>2. ~IsTried(i)' /\ i \notin watcher'.seen \ watcher.seen /\ printOf'[q] = printOf[q]
          BY <1>1, <2>4, <2>6, <3>3, <4>1 DEF IsTried, read, RefreshRests
        <4> QED BY <1>1, <1>2, <2>5, <2>9, <3>2, <4>2, RefreshFollows
      <3>4. CASE q = p /\ printOf[p] = print
        <4>1. procs[p].ppid = Launcher
          BY <1>2, <2>9, <3>4 DEF WatcherInv, ProcessesDiffer
        <4>2. printOf[q] = <<i, Launcher>> /\ printOf'[q] = printOf[q]
          BY <2>1, <2>3, <2>6, <3>4, <4>1
        <4>3. x = "list"
          BY <2>2, <3>4 DEF x
        <4>4. ~IsTried(i)'
          BY <2>4, <4>3 DEF IsTried
        <4> QED BY <1>1, <1>2, <2>5, <2>9, <3>2, <4>2, <4>4, RefreshFollows
      <3>5. CASE q = p /\ printOf[p] # print
        <4>0. PICK j : j = procs[q].inc
          OBVIOUS
        <4>1. procs[p].ppid = Launcher
          BY <1>2, <2>9, <3>5 DEF WatcherInv, ProcessesDiffer
        <4>2. printOf[q] # <<j, Launcher>> /\ printOf'[q] = <<j, Launcher>>
          BY <2>1, <2>3, <2>6, <3>5, <4>0, <4>1
        <4>3. ~IsAwaited(j) /\ procProbes[j].made = 0 /\ j \notin watcher.seen \union listed
          BY <3>1, <4>0, <4>2 DEF IsFollowed
        <4>4. x = "filter" /\ watcher'.cur.inc = j
          BY <2>1, <2>2, <2>4, <3>5, <4>0 DEF x
        <4>5. IsTried(j)' /\ j \notin watcher'.found /\ ~IsOrdered(j)'
          BY <1>1, <2>4, <2>5, <4>3, <4>4 DEF IsTried, IsAwaited, IsOrdered, RefreshRests
        <4>6. watcher'.group = 1 /\ filters' = filters /\ filters \in Seq({"any", "exe", "child"})
          BY <1>1, <1>2, <2>5, ProcWatcherAssumption DEF WatcherInv, CursorHolds, MonitorTyped, RefreshRests
        <4>7. ~\E k \in DOMAIN filters' : k < watcher'.group
          BY <4>6
        <4>8. \A m, n \in DOMAIN orders' : j \in orders'[m].incs /\ j \in orders'[n].incs => m = n
          BY <1>1, <3>1, <4>0 DEF IsFollowed, RefreshRests
        <4>9. procProbes'[j].made = 0 /\ IsAwaited(j)'
          BY <1>1, <4>3, <4>5 DEF IsAwaited, RefreshRests
        <4>10. j \notin listed'
          BY <1>1, <4>3
        <4>11. IsFollowed(q, j)'
          BY <4>2, <4>5, <4>7, <4>8, <4>9, <4>10 DEF IsFollowed
        <4> QED BY <1>1, <4>0, <4>11 DEF IsFollowed, IsAwaited, IsTried, IsOrdered, WantedProcess, RefreshRests
      <3> QED BY <3>3, <3>4, <3>5
    <2>10. ProcessesFollowed'
      BY <1>1, <2>9 DEF ProcessesFollowed, RefreshRests
    <2> QED BY <1>1, <1>2, <2>4, <2>6, <2>7, <2>8, <2>10, RefreshKeeps DEF MonitorTyped
  <1> QED BY <1>1, <1>5, <1>50, <1>6

\* The step ApplyFilter keeps the invariant.
LEMMA ApplyFilterKeepsInv == ASSUME MonitorInv, ApplyFilter PROVE MonitorInv'
  <1> DEFINE i == watcher.cur.inc
             f == filters[watcher.group]
             decision == IF Lives(i) THEN Accepts(f, ProcessOf(i)) ELSE IF f = "any" THEN "yes" ELSE "error"
  <1>1. /\ watcher.pc = "filter" /\ RefreshRests /\ printOf' = printOf /\ listed' = listed
        /\ IF watcher.group > Len(filters) THEN watcher' = [watcher EXCEPT !.pc = "list"]
           ELSE CASE decision = "yes" -> watcher' = [watcher EXCEPT !.pc = "open"]
                  [] decision = "no" -> watcher' = [watcher EXCEPT !.group = @ + 1]
                  [] decision = "denied" -> watcher' = [watcher EXCEPT !.group = @ + 1, !.pc = OnDenied]
                  [] decision = "error" -> WatcherEnds
    BY DEF ApplyFilter, RefreshRests, procWorld, procConfig
  <1>2. strategy = "watcher" /\ WatcherInv /\ MonitorTyped
    BY <1>1 DEF MonitorInv, MonitorTyped, EventInv
  <1>3. /\ filters \in Seq({"any", "exe", "child"}) /\ Len(filters) \in Nat /\ DOMAIN filters = 1..Len(filters)
        /\ watcher \in Watchers /\ watcher.group \in Nat \ {0}
    BY <1>2, ProcWatcherAssumption DEF MonitorTyped, Watchers
  <1>4. ASSUME NEW p \in ProcPids, procs[p].inc # 0, procs[p].inc \notin adopted, IsTried(procs[p].inc)
        PROVE  /\ procs[p].inc = i /\ Lives(i) /\ ProcessOf(i) = procs[p]
               /\ \A k \in DOMAIN filters : k < watcher.group => Accepts(filters[k], procs[p]) # "yes"
    <2>1. procs[p].inc = i
      BY <1>4 DEF IsTried
    <2>2. IsFollowed(p, procs[p].inc)
      BY <1>1, <1>2, <1>4 DEF WatcherInv, ProcessesFollowed
    <2> QED BY <1>1, <1>2, <1>4, <2>1, <2>2, ProcessIsFound DEF IsFollowed, WatcherInv
  <1>5. CASE watcher.group > Len(filters)
    <2>1. watcher' = [watcher EXCEPT !.pc = "list"]
      BY <1>1, <1>5
    <2>2. ASSUME NEW p \in ProcPids, procs[p].inc # 0, procs[p].inc \notin adopted, IsTried(procs[p].inc)
          PROVE  ~WantedProcess(procs[p])
      BY <1>3, <1>4, <1>5, <2>2 DEF WantedProcess
    <2> QED BY <1>1, <1>2, <2>1, <2>2, LeaveEntryKeeps
  <1>6. CASE ~(watcher.group > Len(filters)) /\ WatcherEnds
    BY <1>1, <1>2, <1>6, WatcherEndsKeeps
  <1>7. CASE /\ ~(watcher.group > Len(filters))
             /\ \/ watcher' = [watcher EXCEPT !.pc = "open"]
                \/ watcher' = [watcher EXCEPT !.group = @ + 1] /\ decision # "yes"
    <2>1. /\ watcher' \in Watchers
          /\ watcher'.pc \in {"filter", "open"} /\ watcher'.cur = watcher.cur
          /\ watcher'.found = watcher.found /\ watcher'.seen = watcher.seen
          /\ watcher'.pc = "filter" => watcher'.group = watcher.group + 1 /\ decision # "yes"
      <3> HIDE DEF decision
      <3>1. CASE watcher' = [watcher EXCEPT !.pc = "open"]
        <4>1. watcher' \in Watchers
          BY <1>3, <3>1 DEF Watchers, WatcherSteps
        <4>2. /\ watcher'.pc = "open" /\ watcher'.cur = watcher.cur
              /\ watcher'.found = watcher.found /\ watcher'.seen = watcher.seen
          BY <1>3, <3>1 DEF Watchers
        <4> QED BY <4>1, <4>2
      <3>2. CASE watcher' = [watcher EXCEPT !.group = @ + 1] /\ decision # "yes"
        <4>1. watcher' \in Watchers
          BY <1>3, <3>2 DEF Watchers
        <4>2. /\ watcher'.pc = watcher.pc /\ watcher'.cur = watcher.cur
              /\ watcher'.found = watcher.found /\ watcher'.seen = watcher.seen
          BY <1>3, <3>2 DEF Watchers
        <4>3. watcher'.group = watcher.group + 1
          BY <1>3, <3>2 DEF Watchers
        <4> QED BY <1>1, <3>2, <4>1, <4>2, <4>3
      <3> QED BY <1>7, <3>1, <3>2
    <2>2. NoneBeforeStart'
      BY <1>1, <1>2, <2>1 DEF WatcherInv, NoneBeforeStart, NoTraceOf, IsOrdered, RefreshRests
    <2>3. CursorHolds'
      BY <1>1, <1>2, <2>1 DEF WatcherInv, CursorHolds, RefreshRests
    <2>4. ASSUME NEW p \in ProcPids, procs[p].inc # 0, procs[p].inc \notin adopted
          PROVE  IsFollowed(p, procs[p].inc)'
      <3>1. IsFollowed(p, procs[p].inc)
        BY <1>1, <1>2, <2>4 DEF WatcherInv, ProcessesFollowed
      <3>2. ASSUME IsTried(procs[p].inc), watcher'.pc = "filter", NEW k \in DOMAIN filters, k < watcher'.group
            PROVE  Accepts(filters[k], procs[p]) # "yes"
        <4>1. CASE k < watcher.group
          BY <1>4, <2>4, <3>2, <4>1
        <4>2. CASE k = watcher.group
          BY <1>4, <2>1, <2>4, <3>2, <4>2
        <4> QED BY <1>3, <2>1, <3>2, <4>1, <4>2
      <3>3. IsTried(procs[p].inc)' <=> IsTried(procs[p].inc)
        BY <1>1, <2>1 DEF IsTried, RefreshRests
      <3>4. IsAwaited(procs[p].inc)' <=> IsAwaited(procs[p].inc)
        BY <1>1, <2>1, <3>3 DEF IsAwaited, IsOrdered, RefreshRests
      <3>5. IsOrdered(procs[p].inc)' <=> IsOrdered(procs[p].inc)
        BY <1>1 DEF IsOrdered, RefreshRests
      <3>6. WantedProcess(procs[p])' <=> WantedProcess(procs[p])
        BY <1>1 DEF WantedProcess, RefreshRests
      <3> QED BY <1>1, <2>1, <3>1, <3>2, <3>3, <3>4, <3>5, <3>6 DEF IsFollowed, RefreshRests
    <2>5. ProcessesFollowed'
      BY <1>1, <2>4 DEF ProcessesFollowed, RefreshRests
    <2> QED BY <1>1, <1>2, <2>1, <2>2, <2>3, <2>5, RefreshKeeps DEF MonitorTyped
  <1>8. CASE ~(watcher.group > Len(filters)) /\ ~WatcherEnds
    <2>1. [watcher EXCEPT !.group = @ + 1, !.pc = OnDenied] = [watcher EXCEPT !.group = @ + 1]
      BY <1>1, <1>3 DEF Watchers, OnDenied
    <2>2. decision \in {"yes", "no", "denied", "error"}
      <3>1. f \in {"any", "exe", "child"}
        BY <1>3, <1>8
      <3>2. ASSUME Lives(i) PROVE ProcessOf(i).kind \in {"user", "other", "foreign", "kernel"}
        <4>1. \E p \in ProcPids : procs[p].inc = i /\ i # 0
          BY <3>2 DEF Lives
        <4>2. PICK p \in ProcPids : procs[p].inc = i /\ procs[p].inc # 0
          BY <4>1
        <4>3. ProcessOf(i) = procs[p]
          BY <1>2, <4>2, ProcessIsFound DEF WatcherInv
        <4> QED BY <1>2, <4>3 DEF MonitorTyped, Processes
      <3> HIDE DEF f, i
      <3> QED BY <3>1, <3>2 DEF Accepts
    <2> HIDE DEF decision
    <2>3. \/ watcher' = [watcher EXCEPT !.pc = "open"]
          \/ watcher' = [watcher EXCEPT !.group = @ + 1] /\ decision # "yes"
      BY <1>1, <1>8, <2>1, <2>2
    <2> QED BY <1>7, <1>8, <2>3
  <1> QED BY <1>5, <1>6, <1>8

\* The step OpenProcess keeps the invariant.
LEMMA OpenProcessKeepsInv == ASSUME MonitorInv, OpenProcess PROVE MonitorInv'
  <1> DEFINE c == watcher.cur.inc
             more == watcher.found \union {c}
  <1>1. /\ watcher.pc = "open" /\ RefreshRests /\ printOf' = printOf /\ listed' = listed
        /\ \/ CanOpen(c) /\ watcher' = [watcher EXCEPT !.pc = "list", !.found = more]
           \/ WatcherEnds
    BY DEF OpenProcess, RefreshRests, procWorld, procConfig
  <1>2. strategy = "watcher" /\ WatcherInv /\ MonitorTyped
    BY <1>1 DEF MonitorInv, MonitorTyped, EventInv
  <1>3. CASE WatcherEnds
    BY <1>1, <1>2, <1>3, WatcherEndsKeeps
  <1>4. CASE CanOpen(c) /\ watcher' = [watcher EXCEPT !.pc = "list", !.found = more]
    <2>1. more \in SUBSET Incarnations /\ c \in Incarnations
      <3>1. c \in 0..MaxForks /\ c # 0 /\ watcher.found \in SUBSET Incarnations
        BY <1>1, <1>2 DEF MonitorTyped, Watchers, Cursors, WatcherInv, CursorHolds
      <3> HIDE DEF c
      <3> QED BY <3>1, ProcWatcherAssumption DEF Incarnations
    <2> HIDE DEF more
    <2>2. /\ watcher' \in Watchers /\ watcher'.pc = "list" /\ watcher'.cur = watcher.cur
          /\ watcher'.found = more /\ watcher'.seen = watcher.seen
      <3>1. watcher \in Watchers
        BY <1>2 DEF MonitorTyped
      <3>2. watcher' \in Watchers
        BY <1>4, <2>1, <3>1 DEF Watchers, WatcherSteps
      <3>3. watcher'.pc = "list" /\ watcher'.cur = watcher.cur
        BY <1>4, <3>1 DEF Watchers
      <3>4. watcher'.found = more /\ watcher'.seen = watcher.seen
        BY <1>4, <3>1 DEF Watchers
      <3> QED BY <3>2, <3>3, <3>4
    <2>3. NoneBeforeStart'
      <3>1. \A i \in Incarnations : i > forks => i \notin watcher'.found
        BY <1>2, <2>2 DEF WatcherInv, NoneBeforeStart, NoTraceOf, more
      <3> QED BY <1>1, <1>2, <2>2, <3>1 DEF WatcherInv, NoneBeforeStart, NoTraceOf, IsOrdered, RefreshRests
    <2>4. CursorHolds'
      BY <2>2 DEF CursorHolds
    <2>5. ASSUME NEW p \in ProcPids, procs[p].inc # 0, procs[p].inc \notin adopted
          PROVE  IsFollowed(p, procs[p].inc)'
      <3>1. IsFollowed(p, procs[p].inc)
        BY <1>1, <1>2, <2>5 DEF WatcherInv, ProcessesFollowed
      <3>2. /\ ~IsTried(procs[p].inc)'
            /\ procs[p].inc \in watcher'.found <=> IsTried(procs[p].inc) \/ procs[p].inc \in watcher.found
        BY <1>1, <2>2 DEF IsTried, more
      <3>3. IsAwaited(procs[p].inc)' <=> IsAwaited(procs[p].inc)
        BY <1>1, <3>2 DEF IsAwaited, IsOrdered, RefreshRests
      <3>4. IsOrdered(procs[p].inc)' <=> IsOrdered(procs[p].inc)
        BY <1>1 DEF IsOrdered, RefreshRests
      <3>5. WantedProcess(procs[p])' <=> WantedProcess(procs[p])
        BY <1>1 DEF WantedProcess, RefreshRests
      <3> QED BY <1>1, <2>2, <3>1, <3>2, <3>3, <3>4, <3>5 DEF IsFollowed, RefreshRests
    <2>6. ProcessesFollowed'
      BY <1>1, <2>5 DEF ProcessesFollowed, RefreshRests
    <2> QED BY <1>1, <1>2, <2>2, <2>3, <2>4, <2>6, RefreshKeeps DEF MonitorTyped
  <1> QED BY <1>1, <1>3, <1>4

\* The orders after one more: it is the last.
LEMMA OrdersGrow ==
    ASSUME NEW s \in Seq(SourceOrders), NEW o \in SourceOrders
    PROVE  /\ Append(s, o) \in Seq(SourceOrders)
           /\ \A n \in DOMAIN s : n \in DOMAIN Append(s, o) /\ Append(s, o)[n] = s[n]
           /\ \A n \in DOMAIN Append(s, o) : n \in DOMAIN s \/ n = Len(s) + 1
           /\ Len(s) + 1 \in DOMAIN Append(s, o) /\ Append(s, o)[Len(s) + 1] = o
           /\ Len(s) + 1 \notin DOMAIN s
  <1>1. Len(s) \in Nat /\ Append(s, o) \in Seq(SourceOrders) /\ Len(Append(s, o)) = Len(s) + 1
    OBVIOUS
  <1> QED BY <1>1

\* The step EndRefresh keeps the invariant.
LEMMA EndRefreshKeepsInv == ASSUME MonitorInv, EndRefresh PROVE MonitorInv'
  <1> DEFINE o == [kind |-> "create", incs |-> watcher.found]
  <1>1. /\ watcher.pc = "list" /\ watcher' = Resting /\ listed' = listed \union watcher.seen
        /\ orders' = IF watcher.found = {} THEN orders ELSE Append(orders, o)
        /\ UNCHANGED <<procs, forks, adopted, ticksOf, filters, strategy, printOf, procProbes, untriggered>>
    BY DEF EndRefresh, procWorld, procConfig
  <1>2. strategy = "watcher" /\ WatcherInv /\ MonitorTyped
    BY <1>1 DEF MonitorInv, MonitorTyped, EventInv
  <1>3. ProcWatcherInv'
    BY <1>1, SourcesStay DEF MonitorInv
  <1>4. /\ watcher' \in Watchers /\ watcher'.pc = "idle" /\ watcher'.found = {} /\ watcher'.seen = {}
        /\ watcher'.cur.inc = 0
    <2>1. NoCurrent \in Cursors /\ NoCurrent.inc = 0
      BY ProcWatcherAssumption DEF NoCurrent, Cursors
    <2> HIDE DEF NoCurrent
    <2>2. Resting \in Watchers
      BY <2>1 DEF Resting, Watchers, WatcherSteps
    <2>3. Resting.cur = NoCurrent /\ Resting.pc = "idle" /\ Resting.found = {} /\ Resting.seen = {}
      BY DEF Resting
    <2> HIDE DEF Resting
    <2> QED BY <1>1, <2>1, <2>2, <2>3
  <1>5. /\ watcher.found \subseteq Incarnations /\ watcher.seen \subseteq Incarnations
        /\ orders \in Seq(SourceOrders) /\ o \in SourceOrders /\ o.kind = "create" /\ o.incs = watcher.found
    BY <1>2 DEF MonitorTyped, Watchers, SourceOrders
  <1> HIDE DEF o
  <1>6. MonitorTyped'
    BY <1>1, <1>2, <1>4, <1>5, OrdersGrow DEF MonitorTyped
  <1>7. \A i : IsOrdered(i)' <=> IsOrdered(i) \/ i \in watcher.found
    BY <1>1, <1>5, OrdersGrow DEF IsOrdered
  <1>8. OnlyCreates'
    BY <1>1, <1>2, <1>5, OrdersGrow DEF WatcherInv, OnlyCreates
  <1>9. NoneBeforeStart'
    <2>1. ASSUME NEW i \in Incarnations, i > forks PROVE NoTraceOf(i)'
      <3>1. NoTraceOf(i) /\ i # 0
        BY <1>2, <2>1 DEF WatcherInv, NoneBeforeStart, Incarnations
      <3>2. ~IsOrdered(i)'
        BY <1>7, <3>1 DEF NoTraceOf
      <3> QED BY <1>1, <1>4, <3>1, <3>2 DEF NoTraceOf
    <2> QED BY <1>1, <2>1 DEF NoneBeforeStart
  <1>10. CursorHolds' /\ ProcessesDiffer'
    BY <1>1, <1>2, <1>4 DEF CursorHolds, WatcherInv, ProcessesDiffer
  <1>11. ASSUME NEW p \in ProcPids, procs[p].inc # 0, procs[p].inc \notin adopted
         PROVE  IsFollowed(p, procs[p].inc)'
    <2>1. IsFollowed(p, procs[p].inc)
      BY <1>1, <1>2, <1>11 DEF WatcherInv, ProcessesFollowed
    <2>2. ~IsTried(procs[p].inc)' /\ ~IsTried(procs[p].inc) /\ procs[p].inc \notin watcher'.found
      BY <1>1, <1>4 DEF IsTried
    <2>3. IsOrdered(procs[p].inc)' <=> IsOrdered(procs[p].inc) \/ procs[p].inc \in watcher.found
      BY <1>1, <1>7
    <2>4. IsAwaited(procs[p].inc)' <=> IsAwaited(procs[p].inc)
      BY <1>1, <2>2, <2>3 DEF IsAwaited
    <2>5. ASSUME NEW m \in DOMAIN orders', NEW n \in DOMAIN orders',
                 procs[p].inc \in orders'[m].incs, procs[p].inc \in orders'[n].incs
          PROVE  m = n
      <3>1. CASE orders' = orders
        BY <2>1, <2>5, <3>1 DEF IsFollowed
      <3>2. CASE orders' = Append(orders, o)
        <4>1. CASE procs[p].inc \in watcher.found
          <5>1. ~IsOrdered(procs[p].inc)
            BY <2>1, <4>1 DEF IsFollowed
          <5> QED BY <1>5, <2>5, <3>2, <5>1, OrdersGrow DEF IsOrdered
        <4>2. CASE procs[p].inc \notin watcher.found
          <5>1. m \in DOMAIN orders /\ n \in DOMAIN orders /\ orders'[m] = orders[m] /\ orders'[n] = orders[n]
            BY <1>5, <2>5, <3>2, <4>2, OrdersGrow
          <5> QED BY <2>1, <2>5, <5>1 DEF IsFollowed
        <4> QED BY <4>1, <4>2
      <3> QED BY <1>1, <3>1, <3>2
    <2>6. WantedProcess(procs[p])' <=> WantedProcess(procs[p])
      BY <1>1 DEF WantedProcess
    <2> QED BY <1>1, <1>4, <2>1, <2>2, <2>4, <2>5, <2>6 DEF IsFollowed
  <1>12. ProcessesFollowed'
    BY <1>1, <1>11 DEF ProcessesFollowed
  <1> QED BY <1>1, <1>2, <1>3, <1>6, <1>8, <1>9, <1>10, <1>12 DEF MonitorInv, WatcherInv

\* The step StartMonitoring keeps the invariant.
LEMMA StartMonitoringKeepsInv == ASSUME MonitorInv, NEW p \in ProcPids, StartMonitoring(p) PROVE MonitorInv'
  <1> DEFINE i == procs[p].inc
  <1>1. /\ strategy = "event" /\ i # 0 /\ orders' = <<CreateOf(i), TriggerOf(i)>>
        /\ UNCHANGED <<procs, forks, adopted, ticksOf, filters, strategy, watcher, printOf, listed, procProbes,
                       untriggered>>
    BY DEF StartMonitoring, InOrder, CreateOf, TriggerOf, procWorld, procConfig, watcherState
  <1>2. MonitorTyped /\ EventInv /\ ProcWatcherInv'
    BY <1>1, SourcesStay DEF MonitorInv
  <1>3. i \in Incarnations
    <2>1. procs[p].inc \in 0..MaxForks
      BY <1>2 DEF MonitorTyped, Processes
    <2> QED BY <1>1, <2>1, ProcWatcherAssumption DEF Incarnations
  <1> HIDE DEF i
  <1>4. CreateOf(i) \in SourceOrders /\ TriggerOf(i) \in SourceOrders
    BY <1>3 DEF CreateOf, TriggerOf, SourceOrders
  <1>5. orders' \in Seq(SourceOrders)
    BY <1>1, <1>4
  <1>6. MonitorTyped'
    BY <1>1, <1>2, <1>5 DEF MonitorTyped
  <1>7. EventInv'
    <2>1. PICK j \in Incarnations : j = i
      BY <1>3
    <2>2. orders' = <<CreateOf(j), TriggerOf(j)>>
      BY <1>1, <2>1
    <2> QED BY <1>1, <1>2, <2>2 DEF EventInv, CreateOf, TriggerOf
  <1> QED BY <1>1, <1>2, <1>6, <1>7 DEF MonitorInv

\* An order makes one source of each of its processes, or looks for it.
LEMMA OrderMakes ==
    ASSUME MonitorInv, HandleOrder
    PROVE  /\ orders # <<>> /\ orders' = Tail(orders) /\ Head(orders) \in SourceOrders /\ Head(orders) = orders[1]
           /\ UNCHANGED <<procs, forks, adopted, ticksOf, filters, strategy, watcher, printOf, listed>>
           /\ Head(orders).kind = "create" =>
                 /\ untriggered' = untriggered
                 /\ \A i \in Incarnations :
                       procProbes'[i].made = procProbes[i].made + (IF i \in Head(orders).incs THEN 1 ELSE 0)
           /\ Head(orders).kind = "trigger" =>
                 /\ untriggered' = untriggered \union {i \in Head(orders).incs : procProbes[i].made = 0}
                 /\ procProbes' = procProbes
  <1> DEFINE o == Head(orders)
             made(q) == IF q.made = 0 THEN [q EXCEPT !.made = 1, !.pc = "idle"]
                        ELSE [q EXCEPT !.made = @ + 1]
             added(i) == IF i \notin o.incs THEN procProbes[i] ELSE made(procProbes[i])
  <1>1. /\ orders # <<>> /\ orders' = Tail(orders)
        /\ UNCHANGED <<procs, forks, adopted, ticksOf, filters, strategy, watcher, printOf, listed>>
        /\ IF o.kind = "create" THEN procProbes' = [i \in Incarnations |-> added(i)] /\ untriggered' = untriggered
           ELSE /\ untriggered' = untriggered \union {i \in o.incs : procProbes[i].made = 0}
                /\ procProbes' = procProbes
    BY DEF HandleOrder, procWorld, procConfig, watcherState
  <1>2. o \in SourceOrders /\ o = orders[1]
    BY <1>1, BatchSplits DEF MonitorInv, MonitorTyped
  <1>3. o.kind \in {"create", "trigger"}
    BY <1>2 DEF SourceOrders
  <1>4. ASSUME NEW i \in Incarnations
        PROVE  added(i).made = procProbes[i].made + (IF i \in o.incs THEN 1 ELSE 0)
    <2>1. procProbes[i] \in ProcessSource
      BY DEF MonitorInv, ProcWatcherInv
    <2> QED BY <2>1 DEF ProcessSource
  <1> HIDE DEF added, o
  <1>5. o.kind = "create" => \A i \in Incarnations :
           procProbes'[i].made = procProbes[i].made + (IF i \in o.incs THEN 1 ELSE 0)
    BY <1>1, <1>4
  <1>6. o.kind = "trigger" => o.kind # "create"
    OBVIOUS
  <1>7. /\ o.kind = "create" => untriggered' = untriggered
        /\ o.kind = "trigger" =>
              /\ untriggered' = untriggered \union {i \in o.incs : procProbes[i].made = 0}
              /\ procProbes' = procProbes
    BY <1>1, <1>6
  <1> QED BY <1>1, <1>2, <1>5, <1>7 DEF o

\* The step HandleOrder keeps the invariant.
LEMMA OrderKeepsMonitor == ASSUME MonitorInv, HandleOrder PROVE MonitorInv'
  <1> DEFINE o == Head(orders)
  <1>1. /\ orders # <<>> /\ orders' = Tail(orders) /\ o \in SourceOrders /\ o = orders[1]
        /\ UNCHANGED <<procs, forks, adopted, ticksOf, filters, strategy, watcher, printOf, listed>>
    BY OrderMakes
  <1>2. /\ o.kind = "create" =>
              /\ untriggered' = untriggered
              /\ \A i \in Incarnations : procProbes'[i].made = procProbes[i].made + (IF i \in o.incs THEN 1 ELSE 0)
        /\ o.kind = "trigger" =>
              /\ untriggered' = untriggered \union {i \in o.incs : procProbes[i].made = 0}
              /\ procProbes' = procProbes
    BY OrderMakes
  <1> HIDE DEF o
  <1>3. MonitorTyped /\ orders \in Seq(SourceOrders) /\ orders' \in Seq(SourceOrders)
    BY <1>1, BatchSplits DEF MonitorInv, MonitorTyped
  <1>4. ProcWatcherInv'
    BY HandleOrderKeepsInv DEF MonitorInv
  <1>5. ASSUME untriggered' = {} PROVE MonitorTyped'
    BY <1>1, <1>3, <1>5 DEF MonitorTyped
  <1>6. ASSUME NEW i \in Incarnations PROVE procProbes[i].made \in Nat
    BY DEF MonitorInv, ProcWatcherInv, ProcessSource
  <1>7. CASE strategy = "watcher"
    <2>1. WatcherInv /\ o.kind = "create"
      BY <1>1, <1>3, <1>7, BatchSplits DEF MonitorInv, WatcherInv, OnlyCreates
    <2>2. /\ untriggered' = {}
          /\ \A i \in Incarnations : procProbes'[i].made = procProbes[i].made + (IF i \in o.incs THEN 1 ELSE 0)
      BY <1>2, <1>3, <2>1 DEF MonitorTyped
    <2>3. /\ \A n \in DOMAIN orders' : n + 1 \in DOMAIN orders /\ orders'[n] = orders[n + 1]
          /\ \A n \in DOMAIN orders : n = 1 \/ (n - 1 \in DOMAIN orders' /\ orders'[n - 1] = orders[n])
          /\ 1 \in DOMAIN orders /\ DOMAIN orders \subseteq Nat /\ DOMAIN orders' \subseteq Nat \ {0}
      BY <1>1, <1>3, BatchSplits
    <2>4. OnlyCreates'
      BY <2>1, <2>3 DEF WatcherInv, OnlyCreates
    <2>5. \A i : IsOrdered(i) <=> IsOrdered(i)' \/ i \in o.incs
      BY <1>1, <2>3 DEF IsOrdered
    <2>6. NoneBeforeStart'
      <3>1. ASSUME NEW i \in Incarnations, i > forks PROVE NoTraceOf(i)'
        <4>1. NoTraceOf(i)
          BY <2>1, <3>1 DEF WatcherInv, NoneBeforeStart
        <4>2. ~IsOrdered(i)' /\ i \notin o.incs
          BY <2>5, <4>1 DEF NoTraceOf
        <4>3. procProbes'[i].made = 0
          BY <1>6, <2>2, <4>1, <4>2 DEF NoTraceOf
        <4> QED BY <1>1, <4>1, <4>2, <4>3 DEF NoTraceOf
      <3> QED BY <1>1, <3>1 DEF NoneBeforeStart
    <2>7. CursorHolds' /\ ProcessesDiffer'
      BY <1>1, <2>1 DEF CursorHolds, WatcherInv, ProcessesDiffer
    <2>8. ASSUME NEW p \in ProcPids, procs[p].inc # 0, procs[p].inc \notin adopted
          PROVE  IsFollowed(p, procs[p].inc)'
      <3>1. IsFollowed(p, procs[p].inc) /\ procs[p].inc \in Incarnations
        BY <1>3, <2>1, <2>8 DEF WatcherInv, ProcessesFollowed, MonitorTyped, Processes, Incarnations
      <3>2. PICK i \in Incarnations : i = procs[p].inc
        BY <3>1
      <3>3. IsFollowed(p, i)
        BY <3>1, <3>2
      <3>4. IsOrdered(i) <=> IsOrdered(i)' \/ i \in o.incs
        BY <2>5
      <3>5. (IsTried(i)' <=> IsTried(i)) /\ (i \in watcher'.found <=> i \in watcher.found)
        BY <1>1 DEF IsTried
      <3>6. ASSUME NEW m \in DOMAIN orders', NEW n \in DOMAIN orders', i \in orders'[m].incs, i \in orders'[n].incs
            PROVE  m = n
        <4>1. m + 1 \in DOMAIN orders /\ n + 1 \in DOMAIN orders
              /\ i \in orders[m + 1].incs /\ i \in orders[n + 1].incs
          BY <2>3, <3>6
        <4>2. m + 1 = n + 1
          BY <3>3, <4>1 DEF IsFollowed
        <4> QED BY <2>3, <4>2
      <3>7. i \in o.incs => ~IsOrdered(i)'
        <4> SUFFICES ASSUME i \in o.incs, NEW n \in DOMAIN orders', i \in orders'[n].incs PROVE FALSE
          BY DEF IsOrdered
        <4>1. n + 1 \in DOMAIN orders /\ i \in orders[n + 1].incs /\ 1 \in DOMAIN orders /\ i \in orders[1].incs
          BY <1>1, <2>3
        <4>2. n + 1 = 1
          BY <3>3, <4>1 DEF IsFollowed
        <4> QED BY <2>3, <4>2
      <3>8. CASE i \in o.incs
        <4>1. IsOrdered(i) /\ ~IsOrdered(i)'
          BY <3>4, <3>7, <3>8
        <4>2. procProbes[i].made = 0 /\ ~IsTried(i) /\ i \notin watcher.found
          BY <3>3, <4>1 DEF IsFollowed, IsAwaited
        <4>3. procProbes'[i].made = 1
          BY <2>2, <3>8, <4>2
        <4>4. ~IsAwaited(i)'
          BY <3>5, <4>1, <4>2 DEF IsAwaited
        <4>5. printOf[p] = <<i, Launcher>>
          BY <3>3, <4>1 DEF IsFollowed, IsAwaited
        <4>6. IsFollowed(p, i)'
          BY <1>1, <3>5, <3>6, <4>1, <4>2, <4>3, <4>4, <4>5 DEF IsFollowed
        <4> QED BY <1>1, <3>2, <4>6 DEF IsFollowed, IsAwaited, IsTried, IsOrdered, WantedProcess
      <3>9. CASE i \notin o.incs
        <4>1. (IsOrdered(i)' <=> IsOrdered(i)) /\ procProbes'[i].made = procProbes[i].made
          BY <1>6, <2>2, <3>4, <3>9
        <4>2. IsAwaited(i)' <=> IsAwaited(i)
          BY <3>5, <4>1 DEF IsAwaited
        <4>3. WantedProcess(procs[p])' <=> WantedProcess(procs[p])
          BY <1>1 DEF WantedProcess
        <4>4. IsFollowed(p, i)'
          BY <1>1, <3>3, <3>5, <3>6, <4>1, <4>2, <4>3 DEF IsFollowed
        <4> QED BY <1>1, <3>2, <4>4 DEF IsFollowed, IsAwaited, IsTried, IsOrdered, WantedProcess
      <3> QED BY <3>8, <3>9
    <2>9. ProcessesFollowed'
      BY <1>1, <2>8 DEF ProcessesFollowed
    <2> QED BY <1>1, <1>4, <1>5, <1>7, <2>2, <2>4, <2>6, <2>7, <2>9 DEF MonitorInv, WatcherInv
  <1>8. CASE strategy = "event"
    <2>1. EventInv
      BY <1>8 DEF MonitorInv
    <2>2. CASE \E i \in Incarnations : orders = <<CreateOf(i), TriggerOf(i)>>
      <3>1. PICK i \in Incarnations : orders = <<CreateOf(i), TriggerOf(i)>>
        BY <2>2
      <3>2. orders[1] = CreateOf(i) /\ orders' = <<TriggerOf(i)>>
        BY <1>1, <3>1
      <3>3. o.kind = "create" /\ o.incs = {i}
        BY <1>1, <3>2 DEF CreateOf
      <3>4. untriggered' = {} /\ procProbes'[i].made = procProbes[i].made + 1
        BY <1>2, <1>3, <3>3 DEF MonitorTyped
      <3>5. procProbes'[i].made # 0
        BY <1>6, <3>4
      <3>6. EventInv'
        BY <1>1, <2>1, <3>2, <3>5 DEF EventInv, TriggerOf, CreateOf
      <3> QED BY <1>1, <1>4, <1>5, <1>8, <3>4, <3>6 DEF MonitorInv
    <2>3. CASE \E i \in Incarnations : orders = <<TriggerOf(i)>> /\ procProbes[i].made # 0
      <3>1. PICK i \in Incarnations : orders = <<TriggerOf(i)>> /\ procProbes[i].made # 0
        BY <2>3
      <3>2. orders[1] = TriggerOf(i) /\ orders' = <<>>
        BY <1>1, <3>1
      <3>3. o.kind = "trigger" /\ o.incs = {i}
        BY <1>1, <3>2 DEF TriggerOf
      <3>4. untriggered' = {}
        BY <1>2, <1>3, <3>1, <3>3 DEF MonitorTyped
      <3>5. EventInv'
        BY <1>1, <2>1, <3>2 DEF EventInv
      <3> QED BY <1>1, <1>4, <1>5, <1>8, <3>4, <3>5 DEF MonitorInv
    <2> QED BY <1>1, <2>1, <2>2, <2>3 DEF EventInv
  <1> QED BY <1>3, <1>7, <1>8 DEF MonitorTyped

\* What a step of the system leaves alone.
SystemRests ==
    UNCHANGED <<ticksOf, filters, strategy, watcher, printOf, listed, orders, procProbes, untriggered>>

\* A process that is still there is followed as before.
LEMMA SystemFollows ==
    ASSUME MonitorInv, strategy = "watcher", SystemRests, NEW p \in ProcPids,
           procs[p].inc # 0, procs[p].inc \notin adopted, procs'[p] = procs[p]
    PROVE  IsFollowed(p, procs[p].inc)'
  <1>1. IsFollowed(p, procs[p].inc)
    BY DEF MonitorInv, WatcherInv, ProcessesFollowed
  <1> QED BY <1>1 DEF IsFollowed, IsAwaited, IsTried, IsOrdered, WantedProcess, SystemRests

\* A step of the system keeps the invariant when it keeps the parts about the processes.
LEMMA SystemKeeps ==
    ASSUME MonitorInv, SystemRests, forks' \in 0..MaxForks, procs' \in [ProcPids -> Processes],
           strategy = "watcher" => ProcessesDiffer' /\ NoneBeforeStart' /\ CursorHolds' /\ ProcessesFollowed'
    PROVE  MonitorInv'
  <1>1. ProcWatcherInv'
    BY SourcesStay DEF MonitorInv, SystemRests
  <1>2. MonitorTyped'
    BY DEF MonitorInv, MonitorTyped, SystemRests
  <1>3. OnlyCreates <=> OnlyCreates'
    BY DEF OnlyCreates, SystemRests
  <1>4. EventInv <=> EventInv'
    BY DEF EventInv, SystemRests
  <1> QED BY <1>1, <1>2, <1>3, <1>4 DEF MonitorInv, WatcherInv, SystemRests

\* The step ForkProcess keeps the invariant.
LEMMA ForkProcessKeepsInv ==
    ASSUME MonitorInv, NEW p \in ProcPids, NEW k \in ProcKinds, ForkProcess(p, k)
    PROVE  MonitorInv'
  <1> DEFINE new == [inc |-> forks + 1, ppid |-> Launcher, kind |-> k]
  <1>1. /\ procs[p].inc = 0 /\ forks < MaxForks /\ forks' = forks + 1 /\ adopted' = adopted /\ SystemRests
        /\ procs' = [procs EXCEPT ![p] = new]
    BY DEF ForkProcess, SystemRests, procConfig, watcherState
  <1>2. MonitorTyped
    BY DEF MonitorInv
  <1>3. forks \in Nat /\ MaxForks \in Nat /\ forks' \in 0..MaxForks /\ forks + 1 \in Incarnations
    BY <1>1, <1>2, ProcWatcherAssumption DEF MonitorTyped, Incarnations
  <1>4. new \in Processes /\ new.inc = forks + 1 /\ new.ppid = Launcher
    BY <1>3, ProcWatcherAssumption DEF Processes, Incarnations, Launcher
  <1> HIDE DEF new
  <1>5. /\ procs' \in [ProcPids -> Processes]
        /\ \A q \in ProcPids : procs'[q] = IF q = p THEN new ELSE procs[q]
    BY <1>1, <1>2, <1>4 DEF MonitorTyped
  <1>6. CASE strategy = "watcher"
    <2>1. WatcherInv
      BY <1>6 DEF MonitorInv
    <2>2. ASSUME NEW q \in ProcPids PROVE procs[q].inc \in Nat /\ procs[q].inc =< forks
      BY <1>2, <2>1 DEF MonitorTyped, Processes, WatcherInv, ProcessesDiffer
    <2>3. ProcessesDiffer'
      <3>1. \A q \in ProcPids : procs'[q].inc =< forks'
        BY <1>1, <1>3, <1>4, <1>5, <2>2
      <3>2. ASSUME NEW q \in ProcPids, NEW r \in ProcPids, procs'[q].inc = procs'[r].inc, procs'[q].inc # 0
            PROVE  q = r
        <4>1. CASE q = p
          BY <1>3, <1>4, <1>5, <2>2, <3>2, <4>1
        <4>2. CASE r = p
          BY <1>3, <1>4, <1>5, <2>2, <3>2, <4>2
        <4>3. CASE q # p /\ r # p
          BY <1>5, <2>1, <3>2, <4>3 DEF WatcherInv, ProcessesDiffer
        <4> QED BY <4>1, <4>2, <4>3
      <3>3. \A q \in ProcPids : procs'[q].inc # 0 /\ procs'[q].inc \notin adopted' => procs'[q].ppid = Launcher
        BY <1>1, <1>4, <1>5, <2>1 DEF WatcherInv, ProcessesDiffer
      <3> QED BY <3>1, <3>2, <3>3 DEF ProcessesDiffer
    <2>4. NoTraceOf(forks + 1)
      BY <1>3, <2>1 DEF WatcherInv, NoneBeforeStart
    <2>5. NoneBeforeStart'
      <3>1. ASSUME NEW i \in Incarnations, i > forks' PROVE NoTraceOf(i)'
        <4>1. i > forks
          BY <1>1, <1>3, <3>1 DEF Incarnations
        <4>2. NoTraceOf(i)
          BY <2>1, <4>1 DEF WatcherInv, NoneBeforeStart
        <4> QED BY <1>1, <4>2 DEF NoTraceOf, IsOrdered, SystemRests
      <3> QED BY <3>1 DEF NoneBeforeStart
    <2>6. CursorHolds'
      <3>1. watcher.cur.inc # forks + 1
        BY <2>4 DEF NoTraceOf
      <3> QED BY <1>1, <1>4, <1>5, <2>1, <3>1 DEF WatcherInv, CursorHolds, SystemRests
    <2>7. ASSUME NEW q \in ProcPids, procs'[q].inc # 0, procs'[q].inc \notin adopted
          PROVE  IsFollowed(q, procs[q].inc)'
      <3>1. CASE q # p
        <4>1. procs'[q] = procs[q]
          BY <1>5, <3>1
        <4> QED BY <1>1, <1>6, <2>7, <4>1, SystemFollows
      <3>2. CASE q = p
        <4>1. PICK i \in Incarnations : i = procs'[q].inc
          BY <1>3, <1>4, <1>5, <3>2
        <4>2. NoTraceOf(i)
          BY <1>4, <1>5, <2>4, <3>2, <4>1
        <4>3. ~IsTried(i)' /\ ~IsOrdered(i)' /\ i \notin watcher'.found
          BY <1>1, <4>2 DEF NoTraceOf, IsTried, IsOrdered, SystemRests
        <4>4. ~IsAwaited(i)'
          BY <4>3 DEF IsAwaited
        <4>5. /\ procProbes'[i].made = 0 /\ printOf'[q] # <<i, Launcher>>
              /\ i \notin watcher'.seen \union listed'
          BY <1>1, <4>2 DEF NoTraceOf, SystemRests
        <4>6. \A m, n \in DOMAIN orders' : i \in orders'[m].incs /\ i \in orders'[n].incs => m = n
          BY <4>3 DEF IsOrdered
        <4>7. IsFollowed(q, i)'
          BY <4>3, <4>4, <4>5, <4>6 DEF IsFollowed
        <4> QED BY <4>1, <4>7 DEF IsFollowed, IsAwaited, IsTried, IsOrdered, WantedProcess
      <3> QED BY <3>1, <3>2
    <2>8. ProcessesFollowed'
      BY <1>1, <2>7 DEF ProcessesFollowed, SystemRests
    <2> QED BY <1>1, <1>3, <1>5, <2>3, <2>5, <2>6, <2>8, SystemKeeps
  <1> QED BY <1>1, <1>3, <1>5, <1>6, SystemKeeps

\* The step ExitProcess keeps the invariant.
LEMMA ExitProcessKeepsInv == ASSUME MonitorInv, NEW p \in ProcPids, ExitProcess(p) PROVE MonitorInv'
  <1>1. /\ procs' = [procs EXCEPT ![p] = NoProcess] /\ forks' = forks /\ adopted' = adopted /\ SystemRests
    BY DEF ExitProcess, SystemRests, procConfig, watcherState
  <1>2. MonitorTyped
    BY DEF MonitorInv
  <1>3. NoProcess \in Processes /\ NoProcess.inc = 0
    BY ProcWatcherAssumption DEF NoProcess, Processes, Launcher
  <1>4. /\ procs' \in [ProcPids -> Processes] /\ forks' \in 0..MaxForks
        /\ \A q \in ProcPids : procs'[q] = IF q = p THEN NoProcess ELSE procs[q]
    BY <1>1, <1>2, <1>3 DEF MonitorTyped
  <1>5. CASE strategy = "watcher"
    <2>1. WatcherInv
      BY <1>5 DEF MonitorInv
    <2>2. ProcessesDiffer'
      <3>1. \A q \in ProcPids : procs'[q].inc =< forks'
        BY <1>1, <1>2, <1>3, <1>4, <2>1 DEF WatcherInv, ProcessesDiffer, MonitorTyped
      <3>2. \A q, r \in ProcPids : procs'[q].inc = procs'[r].inc /\ procs'[q].inc # 0 => q = r
        BY <1>3, <1>4, <2>1 DEF WatcherInv, ProcessesDiffer
      <3>3. \A q \in ProcPids : procs'[q].inc # 0 /\ procs'[q].inc \notin adopted' => procs'[q].ppid = Launcher
        BY <1>1, <1>3, <1>4, <2>1 DEF WatcherInv, ProcessesDiffer
      <3> QED BY <3>1, <3>2, <3>3 DEF ProcessesDiffer
    <2>3. NoneBeforeStart'
      BY <1>1, <2>1 DEF WatcherInv, NoneBeforeStart, NoTraceOf, IsOrdered, SystemRests
    <2>4. CursorHolds'
      BY <1>1, <1>3, <1>4, <2>1 DEF WatcherInv, CursorHolds, SystemRests
    <2>5. ASSUME NEW q \in ProcPids, procs'[q].inc # 0, procs'[q].inc \notin adopted
          PROVE  IsFollowed(q, procs[q].inc)'
      <3>1. procs'[q] = procs[q]
        BY <1>3, <1>4, <2>5
      <3> QED BY <1>1, <1>5, <2>5, <3>1, SystemFollows
    <2>6. ProcessesFollowed'
      BY <1>1, <2>5 DEF ProcessesFollowed, SystemRests
    <2> QED BY <1>1, <1>4, <2>2, <2>3, <2>4, <2>6, SystemKeeps
  <1> QED BY <1>1, <1>4, <1>5, SystemKeeps

\* The step AdoptProcess keeps the invariant.
LEMMA AdoptProcessKeepsInv == ASSUME MonitorInv, NEW p \in ProcPids, AdoptProcess(p) PROVE MonitorInv'
  <1>1. /\ procs[p].inc # 0 /\ procs' = [procs EXCEPT ![p].ppid = 1] /\ forks' = forks
        /\ adopted' = adopted \union {procs[p].inc} /\ SystemRests
    BY DEF AdoptProcess, SystemRests, procConfig, watcherState
  <1>2. MonitorTyped
    BY DEF MonitorInv
  <1>3. /\ procs' \in [ProcPids -> Processes] /\ forks' \in 0..MaxForks
        /\ \A q \in ProcPids : q # p => procs'[q] = procs[q]
        /\ procs'[p].inc = procs[p].inc
    <2>1. [procs[p] EXCEPT !.ppid = 1] \in Processes /\ [procs[p] EXCEPT !.ppid = 1].inc = procs[p].inc
      BY <1>2 DEF MonitorTyped, Processes
    <2>2. procs' = [procs EXCEPT ![p] = [procs[p] EXCEPT !.ppid = 1]]
      BY <1>1, <1>2 DEF MonitorTyped
    <2> QED BY <1>1, <1>2, <2>1, <2>2 DEF MonitorTyped
  <1>4. CASE strategy = "watcher"
    <2>1. WatcherInv
      BY <1>4 DEF MonitorInv
    <2>2. \A q \in ProcPids : procs'[q].inc = procs[q].inc
      BY <1>3
    <2>3. ProcessesDiffer'
      <3>1. \A q \in ProcPids : procs'[q].inc # 0 /\ procs'[q].inc \notin adopted' => procs'[q].ppid = Launcher
        BY <1>1, <1>3, <2>1 DEF WatcherInv, ProcessesDiffer
      <3> QED BY <1>1, <2>1, <2>2, <3>1 DEF WatcherInv, ProcessesDiffer
    <2>4. NoneBeforeStart'
      BY <1>1, <2>1 DEF WatcherInv, NoneBeforeStart, NoTraceOf, IsOrdered, SystemRests
    <2>5. CursorHolds'
      BY <1>1, <2>1, <2>2 DEF WatcherInv, CursorHolds, SystemRests
    <2>6. ASSUME NEW q \in ProcPids, procs'[q].inc # 0, procs'[q].inc \notin adopted'
          PROVE  IsFollowed(q, procs[q].inc)'
      <3>1. procs'[q] = procs[q] /\ procs[q].inc \notin adopted
        BY <1>1, <1>3, <2>2, <2>6
      <3> QED BY <1>1, <1>4, <2>6, <3>1, SystemFollows
    <2>7. ProcessesFollowed'
      BY <1>1, <2>6 DEF ProcessesFollowed, SystemRests
    <2> QED BY <1>1, <1>3, <2>3, <2>4, <2>5, <2>7, SystemKeeps
  <1> QED BY <1>1, <1>3, <1>4, SystemKeeps

\* Every step keeps the invariant of the monitoring.
LEMMA MonitorStep == MonitorInv /\ [ProcWatcherNext]_procWatcherVars => MonitorInv'
  <1> SUFFICES ASSUME MonitorInv, [ProcWatcherNext]_procWatcherVars PROVE MonitorInv'
    OBVIOUS
  <1>1. CASE ProcWatcherNext
    BY <1>1, StartRefreshKeepsInv, ListEntryKeepsInv, ReadProcStatKeepsInv, ApplyFilterKeepsInv,
       OpenProcessKeepsInv, EndRefreshKeepsInv, StartMonitoringKeepsInv, OrderKeepsMonitor,
       SourcesKeepMonitor, ForkProcessKeepsInv, ExitProcessKeepsInv, AdoptProcessKeepsInv
       DEF ProcWatcherNext
  <1>2. CASE UNCHANGED procWatcherVars
    <2>1. MonitorRests /\ procProbes' = procProbes /\ ticksOf' = ticksOf
      BY <1>2 DEF procWatcherVars, procWorld, procConfig, watcherState, MonitorRests
    <2>2. ProcWatcherInv'
      BY <2>1, SourcesStay DEF MonitorInv
    <2> QED BY <2>1, <2>2, MonitorStays
  <1> QED BY <1>1, <1>2

\* A process that has been listed has its fingerprint recorded, and waits for its order only.
LEMMA MonitorMeasures == MonitorInv => ProcessesAreMeasured
  <1> SUFFICES ASSUME MonitorInv, orders = <<>>, NEW p \in ProcPids,
                      procs[p].inc \in listed \ adopted, WantedProcess(procs[p])
               PROVE  procProbes[procs[p].inc].made = 1
    BY DEF ProcessesAreMeasured, MonitorInv, MonitorTyped
  <1>1. strategy = "watcher" /\ WatcherInv
    BY DEF MonitorInv, MonitorTyped, EventInv
  <1>2. procs[p].inc # 0
    BY DEF MonitorInv, MonitorTyped, Incarnations
  <1>3. IsFollowed(p, procs[p].inc)
    BY <1>1, <1>2 DEF WatcherInv, ProcessesFollowed
  <1>4. ~IsAwaited(procs[p].inc)
    BY <1>3 DEF IsFollowed, IsAwaited, IsOrdered
  <1> QED BY <1>3, <1>4 DEF IsFollowed

\* A process that lives on after a complete refresh that has read it, and that a group accepts, has
\* exactly one source, also when the watcher has failed since because of another process; the source
\* that an event creates is there when it is triggered.
THEOREM ProcessesHaveSources == ProcWatcherSpec => []ProcessesAreMeasured
  BY MonitorInitOK, MonitorStep, MonitorMeasures, PTL DEF ProcWatcherSpec

\* Why the watcher may fail for a process.
Blamed(i) ==
    \/ ~Lives(i)
    \/ ProcessOf(i).kind = "kernel" /\ \E g \in DOMAIN filters : filters[g] = "exe"
    \/ ProcessOf(i).kind = "foreign" /\ slowMem

\* A process is blamed for as long as it lives, and then because it has gone.
LEMMA BlameStays ==
    ASSUME ProcessesDiffer, ProcessesDiffer', filters' = filters, slowMem' = slowMem, NEW i, Blamed(i),
           \A p \in ProcPids : procs'[p].inc = i /\ i # 0 => procs[p].inc = i /\ procs'[p].kind = procs[p].kind
    PROVE  Blamed(i)'
  <1>1. CASE ~Lives(i)'
    BY <1>1 DEF Blamed
  <1>2. CASE Lives(i)'
    <2>1. PICK p \in ProcPids : procs'[p].inc = i /\ i # 0
      BY <1>2 DEF Lives
    <2>2. procs[p].inc = i /\ procs'[p].kind = procs[p].kind
      BY <2>1
    <2>3. Lives(i) /\ ProcessOf(i) = procs[p]
      BY <2>1, <2>2, ProcessIsFound
    <2>4. ProcessOf(i)' = procs'[p]
      BY <2>1 DEF ProcessesDiffer, ProcessOf
    <2> QED BY <2>2, <2>3, <2>4 DEF Blamed
  <1> QED BY <1>1, <1>2

\* The blame does not change with a step that leaves the watcher alone.
LEMMA FailureStays ==
    ASSUME MonitorInv, MonitorInv', WatcherFailsForOne, watcher' = watcher,
           filters' = filters, slowMem' = slowMem, strategy' = strategy,
           \A p \in ProcPids : procs'[p].inc = watcher.cur.inc /\ watcher.cur.inc # 0 =>
              procs[p].inc = watcher.cur.inc /\ procs'[p].kind = procs[p].kind
    PROVE  WatcherFailsForOne'
  <1> SUFFICES ASSUME watcher.pc = "failed" PROVE Blamed(watcher.cur.inc)'
    BY DEF WatcherFailsForOne, Blamed
  <1>1. strategy = "watcher"
    BY DEF MonitorInv, MonitorTyped, EventInv
  <1>2. ProcessesDiffer /\ ProcessesDiffer'
    BY <1>1 DEF MonitorInv, WatcherInv
  <1>3. Blamed(watcher.cur.inc)
    BY DEF WatcherFailsForOne, Blamed
  <1>4. PICK i : i = watcher.cur.inc
    OBVIOUS
  <1>5. Blamed(i)'
    BY <1>2, <1>3, <1>4, BlameStays
  <1> QED BY <1>4, <1>5 DEF Blamed, Lives, ProcessOf

\* A step of the watcher that fails blames the process in hand.
LEMMA FailureIsBlamed ==
    ASSUME MonitorInv, WatcherEnds, UNCHANGED <<procs, filters, slowMem>>, Blamed(watcher.cur.inc)
    PROVE  WatcherFailsForOne'
  <1>1. watcher'.cur = watcher.cur
    BY DEF WatcherEnds, MonitorInv, MonitorTyped, Watchers
  <1> QED BY <1>1 DEF WatcherFailsForOne, Blamed, Lives, ProcessOf

\* A step that leaves the watcher running blames no one.
LEMMA RunningBlamesNone == ASSUME watcher'.pc # "failed" PROVE WatcherFailsForOne'
  BY DEF WatcherFailsForOne

\* The step ReadProcStat fails for a process that is gone.
LEMMA ReadProcStatBlames == ASSUME MonitorInv, ReadProcStat PROVE WatcherFailsForOne'
  <1>1. watcher \in Watchers /\ UNCHANGED <<procs, filters, slowMem>>
    BY DEF MonitorInv, MonitorTyped, ReadProcStat, procWorld, procConfig
  <1>2. CASE ~Lives(watcher.cur.inc) /\ WatcherEnds
    BY <1>1, <1>2, FailureIsBlamed DEF Blamed
  <1>3. CASE \E x \in {"list", "filter"} : \E s : watcher' = [watcher EXCEPT !.pc = x, !.seen = s]
    <2>1. watcher'.pc \in {"list", "filter"}
      BY <1>1, <1>3 DEF Watchers
    <2> QED BY <2>1, RunningBlamesNone
  <1>4. CASE watcher' = [watcher EXCEPT !.pc = "list"]
    <2>1. watcher'.pc = "list"
      BY <1>1, <1>4 DEF Watchers
    <2> QED BY <2>1, RunningBlamesNone
  <1> QED BY <1>2, <1>3, <1>4 DEF ReadProcStat

\* The step ApplyFilter fails for a process that is gone, or one without an executable.
LEMMA ApplyFilterBlames == ASSUME MonitorInv, ApplyFilter PROVE WatcherFailsForOne'
  <1> DEFINE i == watcher.cur.inc
             f == filters[watcher.group]
             decision == IF Lives(i) THEN Accepts(f, ProcessOf(i)) ELSE IF f = "any" THEN "yes" ELSE "error"
  <1>1. /\ watcher \in Watchers /\ watcher.pc = "filter" /\ UNCHANGED <<procs, filters, slowMem>>
        /\ IF watcher.group > Len(filters) THEN watcher' = [watcher EXCEPT !.pc = "list"]
           ELSE CASE decision = "yes" -> watcher' = [watcher EXCEPT !.pc = "open"]
                  [] decision = "no" -> watcher' = [watcher EXCEPT !.group = @ + 1]
                  [] decision = "denied" -> watcher' = [watcher EXCEPT !.group = @ + 1, !.pc = OnDenied]
                  [] decision = "error" -> WatcherEnds
    BY DEF MonitorInv, MonitorTyped, ApplyFilter, procWorld, procConfig
  <1>2. strategy = "watcher" /\ WatcherInv /\ MonitorTyped
    BY <1>1 DEF MonitorInv, MonitorTyped, EventInv
  <1>3. /\ filters \in Seq({"any", "exe", "child"}) /\ Len(filters) \in Nat /\ DOMAIN filters = 1..Len(filters)
        /\ watcher.group \in Nat \ {0}
    BY <1>1, <1>2, ProcWatcherAssumption DEF MonitorTyped, Watchers
  <1>4. CASE watcher.group > Len(filters)
    <2>1. watcher'.pc = "list"
      BY <1>1, <1>4 DEF Watchers
    <2> QED BY <2>1, RunningBlamesNone
  <1>5. CASE ~(watcher.group > Len(filters))
    <2>1. f \in {"any", "exe", "child"} /\ watcher.group \in DOMAIN filters
      BY <1>3, <1>5
    <2>2. Lives(i) => ProcessOf(i).kind \in {"user", "other", "foreign", "kernel"}
      <3> SUFFICES ASSUME Lives(i) PROVE ProcessOf(i).kind \in {"user", "other", "foreign", "kernel"}
        OBVIOUS
      <3>1. PICK p \in ProcPids : procs[p].inc = i /\ procs[p].inc # 0
        BY DEF Lives
      <3>2. ProcessOf(i) = procs[p]
        BY <1>2, <3>1, ProcessIsFound DEF WatcherInv
      <3> QED BY <1>2, <3>2 DEF MonitorTyped, Processes
    <2>3. decision = "error" => Blamed(i)
      <3> SUFFICES ASSUME decision = "error", Lives(i)
                   PROVE  ProcessOf(i).kind = "kernel" /\ f = "exe"
        BY <2>1 DEF Blamed
      <3> HIDE DEF f, i
      <3> QED BY <2>1, <2>2 DEF Accepts
    <2>4. decision \in {"yes", "no", "denied", "error"}
      <3> HIDE DEF f, i
      <3> QED BY <2>1, <2>2 DEF Accepts
    <2> HIDE DEF decision, f
    <2>5. CASE decision = "error"
      <3>1. WatcherEnds
        BY <1>1, <1>5, <2>5
      <3> QED BY <1>1, <2>3, <2>5, <3>1, FailureIsBlamed
    <2>6. CASE decision # "error"
      <3>1. \/ watcher' = [watcher EXCEPT !.pc = "open"]
            \/ watcher' = [watcher EXCEPT !.group = @ + 1]
            \/ watcher' = [watcher EXCEPT !.group = @ + 1, !.pc = OnDenied]
        BY <1>1, <1>5, <2>4, <2>6
      <3>2. watcher'.pc \in {"open", "filter"}
        BY <1>1, <3>1 DEF Watchers, OnDenied
      <3> QED BY <3>2, RunningBlamesNone
    <2> QED BY <2>5, <2>6
  <1> QED BY <1>4, <1>5

\* The step OpenProcess fails for a process that is gone, or whose memory the watcher may not read.
LEMMA OpenProcessBlames == ASSUME MonitorInv, OpenProcess PROVE WatcherFailsForOne'
  <1>1. watcher \in Watchers /\ UNCHANGED <<procs, filters, slowMem>>
    BY DEF MonitorInv, MonitorTyped, OpenProcess, procWorld, procConfig
  <1>2. CASE ~CanOpen(watcher.cur.inc)
    <2>1. WatcherEnds
      BY <1>2 DEF OpenProcess
    <2>2. Blamed(watcher.cur.inc)
      BY <1>2 DEF CanOpen, Blamed
    <2> QED BY <1>1, <2>1, <2>2, FailureIsBlamed
  <1>3. CASE CanOpen(watcher.cur.inc)
    <2>1. \E s : watcher' = [watcher EXCEPT !.pc = "list", !.found = s]
      BY <1>3 DEF OpenProcess
    <2>2. watcher'.pc = "list"
      BY <1>1, <2>1 DEF Watchers
    <2> QED BY <2>2, RunningBlamesNone
  <1> QED BY <1>2, <1>3

\* The steps of the system leave the blame where it is.
LEMMA SystemKeepsBlame ==
    ASSUME MonitorInv, MonitorInv', WatcherFailsForOne, NEW p \in ProcPids,
           ExitProcess(p) \/ AdoptProcess(p) \/ \E k \in ProcKinds : ForkProcess(p, k)
    PROVE  WatcherFailsForOne'
  <1>1. /\ watcher' = watcher /\ filters' = filters /\ slowMem' = slowMem /\ strategy' = strategy
        /\ procs \in [ProcPids -> Processes]
    BY DEF ExitProcess, AdoptProcess, ForkProcess, procConfig, watcherState, MonitorInv, MonitorTyped
  <1>2. CASE ExitProcess(p)
    <2>1. \A q \in ProcPids : procs'[q] = IF q = p THEN NoProcess ELSE procs[q]
      BY <1>1, <1>2 DEF ExitProcess
    <2>2. NoProcess.inc = 0
      BY DEF NoProcess
    <2> QED BY <1>1, <2>1, <2>2, FailureStays
  <1>3. CASE AdoptProcess(p)
    <2>1. \A q \in ProcPids : procs'[q].inc = procs[q].inc /\ procs'[q].kind = procs[q].kind
      BY <1>1, <1>3 DEF AdoptProcess, Processes
    <2> QED BY <1>1, <2>1, FailureStays
  <1>4. ASSUME NEW k \in ProcKinds, ForkProcess(p, k) PROVE WatcherFailsForOne'
    <2>1. /\ \A q \in ProcPids : q # p => procs'[q] = procs[q]
          /\ procs'[p].inc = forks + 1 /\ forks < MaxForks
      BY <1>1, <1>4 DEF ForkProcess
    <2>2. CASE watcher.pc = "failed"
      <3>1. WatcherInv /\ forks + 1 \in Incarnations /\ forks + 1 > forks
        BY <2>1, <2>2, ProcWatcherAssumption DEF MonitorInv, MonitorTyped, EventInv, Incarnations
      <3>2. watcher.cur.inc # forks + 1
        BY <3>1 DEF WatcherInv, NoneBeforeStart, NoTraceOf
      <3> QED BY <1>1, <2>1, <3>2, FailureStays
    <2>3. CASE watcher.pc # "failed"
      BY <1>1, <2>3, RunningBlamesNone
    <2> QED BY <2>2, <2>3
  <1> QED BY <1>2, <1>3, <1>4

\* Every step keeps the blame right.
LEMMA BlameStep ==
    MonitorInv /\ WatcherFailsForOne /\ [ProcWatcherNext]_procWatcherVars => WatcherFailsForOne'
  <1> SUFFICES ASSUME MonitorInv, WatcherFailsForOne, [ProcWatcherNext]_procWatcherVars
               PROVE  WatcherFailsForOne'
    OBVIOUS
  <1>1. MonitorInv'
    BY MonitorStep
  <1>2. watcher \in Watchers
    BY DEF MonitorInv, MonitorTyped
  <1>3. ASSUME watcher' = watcher, UNCHANGED <<procs, filters, slowMem, strategy>> PROVE WatcherFailsForOne'
    BY <1>1, <1>3, FailureStays
  <1>4. CASE \/ \E p \in ProcPids : StartMonitoring(p)
             \/ HandleOrder
             \/ \E i \in Incarnations : PollStat(i) \/ PollMemory(i) \/ RunProcess(i)
             \/ UNCHANGED procWatcherVars
    <2>1. watcher' = watcher /\ UNCHANGED <<procs, filters, slowMem, strategy>>
      BY <1>4 DEF StartMonitoring, HandleOrder, PollStat, PollMemory, SetProbe, RunProcess, procWatcherVars,
                  procWorld, procConfig, watcherState
    <2> QED BY <1>3, <2>1
  <1>5. CASE StartRefresh \/ EndRefresh
    <2>1. ASSUME StartRefresh PROVE watcher'.pc = "list"
      BY <2>1 DEF StartRefresh, Resting
    <2>2. ASSUME EndRefresh PROVE watcher'.pc = "idle"
      BY <2>2 DEF EndRefresh, Resting
    <2> QED BY <1>5, <2>1, <2>2, RunningBlamesNone
  <1>6. ASSUME NEW p \in ProcPids, ListEntry(p) PROVE WatcherFailsForOne'
    <2>1. watcher'.pc \in {"list", "stat"}
      BY <1>2, <1>6 DEF ListEntry, Watchers
    <2> QED BY <2>1, RunningBlamesNone
  <1>7. CASE ReadProcStat \/ ApplyFilter \/ OpenProcess
    BY <1>7, ReadProcStatBlames, ApplyFilterBlames, OpenProcessBlames
  <1>8. ASSUME NEW p \in ProcPids,
               ExitProcess(p) \/ AdoptProcess(p) \/ \E k \in ProcKinds : ForkProcess(p, k)
        PROVE  WatcherFailsForOne'
    BY <1>1, <1>8, SystemKeepsBlame
  <1> QED BY <1>4, <1>5, <1>6, <1>7, <1>8 DEF ProcWatcherNext

\* The watcher of the processes fails only for the one that it has in hand: one that has gone, one of
\* the kernel whose executable a group asks for, or one whose memory it may not read.
THEOREM WatcherFailuresAreExplained == ProcWatcherSpec => []WatcherFailsForOne
  <1>1. ProcWatcherInit => WatcherFailsForOne
    BY DEF ProcWatcherInit, Resting, WatcherFailsForOne
  <1> QED BY <1>1, MonitorInitOK, MonitorStep, BlameStep, PTL DEF ProcWatcherSpec

-------------------------------------------------------------------------------
(* The detection of the cgroups: paths.                                       *)

Paths == Cgroups \union {Root}
PathNames == UNION {Range(p) : p \in Cgroups}

\* The paths are sequences of names.
LEMMA PathsAreSequences == Paths \subseteq Seq(PathNames)
  <1>1. Root \in Seq(PathNames)
    BY DEF Root
  <1>2. ASSUME NEW p \in Cgroups PROVE p \in Seq(PathNames)
    <2>1. p \in Seq(Range(p)) /\ Range(p) \subseteq PathNames
      BY DetectionAssumption DEF PathNames
    <2> QED BY <2>1
  <1> QED BY <1>1, <1>2 DEF Paths

\* A prefix, name by name.
LEMMA PrefixByNames ==
    ASSUME NEW S, NEW s \in Seq(S), NEW t \in Seq(S)
    PROVE  IsPrefix(s, t) <=> Len(s) =< Len(t) /\ \A i \in 1..Len(s) : s[i] = t[i]
  <1>1. ASSUME Len(s) =< Len(t)
        PROVE  SubSeq(s, 1, Len(s)) = SubSeq(t, 1, Len(s)) <=> \A i \in 1..Len(s) : s[i] = t[i]
    <2>1. /\ SubSeq(s, 1, Len(s)) \in Seq(S) /\ Len(SubSeq(s, 1, Len(s))) = Len(s)
          /\ SubSeq(t, 1, Len(s)) \in Seq(S) /\ Len(SubSeq(t, 1, Len(s))) = Len(s)
          /\ \A i \in 1..Len(s) : SubSeq(s, 1, Len(s))[i] = s[i] /\ SubSeq(t, 1, Len(s))[i] = t[i]
      BY <1>1
    <2> QED BY <2>1
  <1> QED BY <1>1 DEF IsPrefix

\* A prefix is the beginning of its length.
LEMMA PrefixIsBeginning ==
    ASSUME NEW x \in Paths, NEW p \in Paths, IsPrefix(x, p)
    PROVE  /\ Len(x) \in Nat /\ Len(p) \in Nat /\ Len(x) =< Len(p) /\ x = SubSeq(p, 1, Len(x))
           /\ Len(x) = Len(p) => x = p
           /\ Len(x) = 0 => x = Root
  <1>1. x \in Seq(PathNames) /\ p \in Seq(PathNames)
    BY PathsAreSequences
  <1>2. Len(x) =< Len(p) /\ \A i \in 1..Len(x) : x[i] = p[i]
    BY <1>1, PrefixByNames
  <1>3. Len(x) \in Nat /\ Len(p) \in Nat /\ x = SubSeq(p, 1, Len(x))
    BY <1>1, <1>2
  <1>4. Len(x) = Len(p) => x = p
    BY <1>1, <1>2
  <1>5. Len(x) = 0 => x = Root
    BY <1>1 DEF Root
  <1> QED BY <1>2, <1>3, <1>4, <1>5

\* Prefixes are an order, and the root is the least path.
LEMMA PathOrder ==
    /\ \A p \in Paths : IsPrefix(p, p) /\ IsPrefix(Root, p)
    /\ \A x, y, p \in Paths : IsPrefix(x, y) /\ IsPrefix(y, p) => IsPrefix(x, p)
    /\ \A x \in Paths : IsPrefix(x, Root) => x = Root
  <1>1. ASSUME NEW p \in Paths PROVE IsPrefix(p, p) /\ IsPrefix(Root, p)
    BY PathsAreSequences, PrefixByNames DEF Paths, Root
  <1>2. ASSUME NEW x \in Paths, NEW y \in Paths, NEW p \in Paths, IsPrefix(x, y), IsPrefix(y, p)
        PROVE  IsPrefix(x, p)
    <2>1. x \in Seq(PathNames) /\ y \in Seq(PathNames) /\ p \in Seq(PathNames)
      BY PathsAreSequences
    <2>2. /\ Len(x) =< Len(y) /\ \A i \in 1..Len(x) : x[i] = y[i]
          /\ Len(y) =< Len(p) /\ \A i \in 1..Len(y) : y[i] = p[i]
      BY <1>2, <2>1, PrefixByNames
    <2>3. Len(x) =< Len(p) /\ \A i \in 1..Len(x) : x[i] = p[i]
      BY <2>1, <2>2
    <2> QED BY <2>1, <2>3, PrefixByNames
  <1>3. ASSUME NEW x \in Paths, IsPrefix(x, Root) PROVE x = Root
    <2>1. Root \in Paths /\ Len(Root) = 0
      BY DEF Paths, Root
    <2> QED BY <1>3, <2>1, PrefixIsBeginning
  <1> QED BY <1>1, <1>2, <1>3

\* The beginning of a sequence.
LEMMA BeginningByNames ==
    ASSUME NEW S, NEW s \in Seq(S), NEW n \in Nat, n =< Len(s)
    PROVE  /\ SubSeq(s, 1, n) \in Seq(S) /\ Len(SubSeq(s, 1, n)) = n
           /\ \A i \in 1..n : SubSeq(s, 1, n)[i] = s[i]
  OBVIOUS

\* The parent of a path is its longest strict prefix.
LEMMA ParentIsPrefix ==
    ASSUME NEW p \in Cgroups
    PROVE  /\ p # Root /\ p \in Paths /\ ParentOf(p) \in Paths /\ IsPrefix(ParentOf(p), p)
           /\ \A x \in Paths : IsPrefix(x, p) /\ x # p => IsPrefix(x, ParentOf(p))
           /\ Len(p) \in Nat \ {0} /\ Len(ParentOf(p)) = Len(p) - 1 /\ ParentOf(p) # p
           /\ \A n \in 1..(Len(p) - 1) : SubSeq(ParentOf(p), 1, n) = SubSeq(p, 1, n)
  <1> DEFINE f == ParentOf(p)
  <1>1. p # Root /\ f \in Paths /\ p \in Paths
    BY DetectionAssumption DEF Paths, ParentOf
  <1>2. p \in Seq(PathNames) /\ f \in Seq(PathNames) /\ p # <<>>
    BY <1>1, PathsAreSequences DEF Root
  <1>3. Len(p) \in Nat \ {0} /\ Len(f) = Len(p) - 1 /\ \A i \in 1..Len(f) : f[i] = p[i]
    <2>1. p \in Seq(PathNames) /\ Len(p) \in Nat \ {0} /\ f = SubSeq(p, 1, Len(p) - 1)
      BY <1>2 DEF ParentOf, Front
    <2> HIDE DEF f
    <2>2. PICK n \in Nat : n = Len(p) - 1 /\ n =< Len(p)
      BY <2>1
    <2>3. Len(f) = n /\ \A i \in 1..n : f[i] = p[i]
      BY <2>1, <2>2, BeginningByNames
    <2> QED BY <2>1, <2>2, <2>3
  <1>4. f # p
    BY <1>3
  <1> HIDE DEF f
  <1>5. IsPrefix(f, p)
    BY <1>2, <1>3, PrefixByNames
  <1>6. ASSUME NEW x \in Paths, IsPrefix(x, p), x # p PROVE IsPrefix(x, f)
    <2>1. x \in Seq(PathNames) /\ Len(x) \in Nat
      BY PathsAreSequences
    <2>2. Len(x) =< Len(p) /\ Len(x) # Len(p) /\ \A i \in 1..Len(x) : x[i] = p[i]
      BY <1>1, <1>2, <1>6, <2>1, PrefixByNames, PrefixIsBeginning
    <2>3. Len(x) =< Len(f) /\ \A i \in 1..Len(x) : x[i] = f[i]
      BY <1>3, <2>1, <2>2
    <2> QED BY <1>2, <2>1, <2>3, PrefixByNames
  <1>7. ASSUME NEW n \in 1..(Len(p) - 1) PROVE SubSeq(f, 1, n) = SubSeq(p, 1, n)
    <2>1. n \in Nat /\ n =< Len(f) /\ n =< Len(p) /\ n >= 1
      BY <1>3
    <2>2. /\ SubSeq(f, 1, n) \in Seq(PathNames) /\ Len(SubSeq(f, 1, n)) = n
          /\ SubSeq(p, 1, n) \in Seq(PathNames) /\ Len(SubSeq(p, 1, n)) = n
          /\ \A i \in 1..n : SubSeq(f, 1, n)[i] = f[i] /\ SubSeq(p, 1, n)[i] = p[i]
      BY <1>2, <2>1
    <2>3. \A i \in 1..n : f[i] = p[i]
      BY <1>3, <2>1
    <2> QED BY <2>2, <2>3
  <1> QED BY <1>1, <1>3, <1>4, <1>5, <1>6, <1>7 DEF f

\* Below a strict prefix, there is the next one.
LEMMA NextPrefix ==
    ASSUME NEW x \in Paths, NEW p \in Cgroups, IsPrefix(x, p), x # p, NEW y, y = SubSeq(p, 1, Len(x) + 1),
           y \in Cgroups
    PROVE  IsPrefix(y, p) /\ ParentOf(y) = x
  <1>1. x \in Seq(PathNames) /\ p \in Seq(PathNames) /\ y \in Seq(PathNames) /\ p \in Paths
    BY PathsAreSequences DEF Paths
  <1>2. Len(x) \in Nat /\ Len(p) \in Nat /\ Len(x) < Len(p) /\ \A i \in 1..Len(x) : x[i] = p[i]
    BY <1>1, PrefixByNames, PrefixIsBeginning
  <1>3. Len(y) = Len(x) + 1 /\ \A i \in 1..Len(y) : y[i] = p[i]
    BY <1>1, <1>2
  <1>4. IsPrefix(y, p)
    <2>1. Len(y) \in Nat /\ Len(y) =< Len(p)
      BY <1>2, <1>3
    <2> QED BY <1>1, <1>3, <2>1, PrefixByNames
  <1>5. ParentOf(y) = x
    <2>1. ParentOf(y) = SubSeq(y, 1, Len(x))
      BY <1>1, <1>2, <1>3 DEF ParentOf, Front
    <2> DEFINE f == SubSeq(y, 1, Len(x))
    <2>2. f \in Seq(PathNames) /\ Len(f) = Len(x) /\ \A i \in 1..Len(x) : f[i] = y[i]
      BY <1>1, <1>2, <1>3
    <2>3. \A i \in 1..Len(x) : f[i] = x[i]
      BY <1>2, <1>3, <2>2
    <2> HIDE DEF f
    <2>4. f = x
      BY <1>1, <2>2, <2>3
    <2> QED BY <2>1, <2>4 DEF f
  <1> QED BY <1>4, <1>5

-------------------------------------------------------------------------------
(* The detection of the cgroups: the invariant.                               *)

Alive == dirs \union {Root}
PendingEvents ==
    [type : {"create", "delete", "self", "overflow"}, wd : (Paths \X Nat) \union {Root}, path : Paths]
Visits == [step : {"stat", "add", "list"}, path : Paths, gen : Nat]

\* The events that were not processed yet, in their order.
Pending == batch \o events

\* The detector keeps up with the kernel.
Follows == ~overflowed /\ loop # "panicked"

\* The directory at a path has a watch.
Marked(p) == Directory(p) \in marks

\* The watch loop will come to a path: by an event, a visit, or the list of a parent.
ComesTo(p) ==
    \E x \in Paths : IsPrefix(x, p) /\
        \/ \E i \in DOMAIN Pending : Pending[i].type = "create" /\ Pending[i].path = x
        \/ \E k \in DOMAIN todo : todo[k].path = x /\ (todo[k].step \in {"stat", "add"} \/ x # p)

\* The removal of a cgroup is still to be told.
RemovalComes(p) ==
    \E i \in DOMAIN Pending : Pending[i].type \in {"delete", "self"} /\ Pending[i].path = p

\* A path or a parent of it is gone, and this is still to be told.
GoneFrom(p, i) ==
    \E j \in DOMAIN Pending : j > i /\ IsPrefix(Pending[j].path, p) /\ Pending[j].path \notin dirs

\* What the watch loop will have in the set at the end of the batch.
WillBeKnown(p) ==
    CASE loop \in {"process", "forget"} -> (p \in known /\ p \notin deleted) \/ p \in created
      [] loop = "register" -> p \in known \/ p \in created
      [] OTHER -> p \in known

ScanWillFind(p) == main \in {"setup", "scan"} \/ (main = "register" /\ p \in found)

DetectionTyped ==
    /\ dirs \subseteq Cgroups /\ blurred \subseteq Cgroups
    /\ gen \in [Cgroups -> Nat]
    /\ events \in Seq(PendingEvents) /\ batch \in Seq(PendingEvents) /\ todo \in Seq(Visits)
    /\ sources \subseteq Cgroups \X Nat
    /\ marks \subseteq Paths \X Nat
    /\ \A d \in marks : d[1] \in Cgroups => d[2] =< gen[d[1]]

\* Every beginning of an existing path exists.
DirsAreClosed == \A p \in dirs : \A n \in 1..Len(p) : SubSeq(p, 1, n) \in dirs

\* Without inotify, there is no watch loop.
PollingHasNoLoop == mode # "inotify" => loop = "setup" /\ todo = <<>>

LoopOrder ==
    /\ loop \in {"setup", "poll", "process", "forget", "register"}
    /\ needRescan = FALSE
    /\ \A i \in DOMAIN Pending : Pending[i].type # "overflow" /\ Pending[i].path \in Cgroups
    /\ loop \notin {"setup", "process"} => todo = <<>>
    /\ loop # "process" => batch = <<>>
    /\ loop = "setup" <=> main = "setup"
AliveAreVisited == \A p \in Alive : Sharp(p) => p \in watchedPaths \/ ComesTo(p)
WatchedAreMarked == \A p \in Alive : Sharp(p) /\ p \in watchedPaths => Marked(p)
MarkedFromRoot == \A p \in dirs : Sharp(p) /\ Marked(p) => Marked(ParentOf(p))
RemovedAreTold ==
    \A p \in Cgroups : Sharp(p) /\ p \in watchedPaths /\ p \notin dirs => RemovalComes(p)
AliveNotTold == \A p \in dirs : Sharp(p) => ~RemovalComes(p)
SourcesAreOpen ==
    \A p \in dirs : Sharp(p) => \A d \in sources : d[1] = p => d = Directory(p)

\* A visit to come is to a directory of a watched parent, or to one whose removal is
\* still to be told.
VisitRight(v) ==
    IF v.path = Root THEN v.gen = 0 /\ (v.step = "list" => Marked(Root))
    ELSE Sharp(v.path) =>
           \/ /\ v.path \in dirs /\ Marked(ParentOf(v.path))
              /\ v.step # "stat" => v.gen = gen[v.path]
              /\ v.step = "list" => Marked(v.path)
           \/ GoneFrom(v.path, 0)
VisitsRight == \A k \in DOMAIN todo : VisitRight(todo[k])
CreationsRight ==
    \A i \in DOMAIN Pending :
        Pending[i].type = "create" /\ Sharp(Pending[i].path) =>
            \/ Pending[i].path \in dirs /\ Marked(ParentOf(Pending[i].path))
            \/ GoneFrom(Pending[i].path, i)

WatchedWillBeKnown ==
    \A p \in dirs : Sharp(p) /\ p \in watchedPaths => ScanWillFind(p) \/ WillBeKnown(p)
KnownAreFollowed ==
    \A p \in Cgroups :
        Sharp(p) /\ WillBeKnown(p) => p \in watchedPaths \/ (p \in dirs /\ p \in found)
FoundAreAlive == \A p \in found : Sharp(p) /\ main = "register" => p \in dirs
BatchesAgree ==
    /\ loop \in {"process", "forget"} =>
          \A p \in dirs : Sharp(p) /\ p \in deleted /\ p \in watchedPaths => p \in created
    /\ loop = "process" =>
          \A p \in created : Sharp(p) =>
             \A i \in DOMAIN batch : batch[i].path = p => batch[i].type \notin {"delete", "self"}

FollowInv ==
    /\ LoopOrder
    /\ AliveAreVisited /\ WatchedAreMarked /\ MarkedFromRoot /\ RemovedAreTold /\ AliveNotTold
    /\ SourcesAreOpen /\ VisitsRight /\ CreationsRight
    /\ WatchedWillBeKnown /\ KnownAreFollowed /\ FoundAreAlive /\ BatchesAgree
DetectionInv ==
    /\ DetectionTyped /\ DirsAreClosed /\ PollingHasNoLoop
    /\ mode = "inotify" /\ Follows => FollowInv

\* The existing paths.
LEMMA ClosedPaths ==
    ASSUME DetectionTyped, DirsAreClosed
    PROVE  /\ \A p \in dirs, x \in Cgroups : IsPrefix(x, p) => x \in dirs
           /\ \A p \in Alive, x \in Paths : IsPrefix(x, p) => x \in Alive
           /\ \A p \in dirs : ParentOf(p) \in Alive
           /\ \A p \in dirs, x \in Paths :
                 IsPrefix(x, p) /\ x # p => \E y \in ChildrenOf(x) : IsPrefix(y, p)
  <1>0. dirs \subseteq Cgroups
    BY DEF DetectionTyped
  <1>1. ASSUME NEW p \in dirs, NEW x \in Cgroups, IsPrefix(x, p) PROVE x \in dirs
    <2>1. x \in Paths /\ p \in Paths /\ p \in Cgroups
      BY <1>0 DEF Paths
    <2>2. Len(x) \in Nat /\ Len(p) \in Nat /\ Len(x) =< Len(p) /\ x = SubSeq(p, 1, Len(x)) /\ x # Root
      BY <1>1, <2>1, PrefixIsBeginning, DetectionAssumption
    <2>3. Len(x) # 0
      BY <1>1, <2>1, <2>2, PrefixIsBeginning
    <2>4. Len(x) \in 1..Len(p)
      BY <2>2, <2>3
    <2> QED BY <2>2, <2>4 DEF DirsAreClosed
  <1>2. ASSUME NEW p \in Alive, NEW x \in Paths, IsPrefix(x, p) PROVE x \in Alive
    <2>1. CASE p = Root
      BY <1>2, <2>1, PathOrder DEF Alive
    <2>2. CASE p \in dirs
      BY <1>1, <1>2, <2>2 DEF Alive, Paths
    <2> QED BY <2>1, <2>2 DEF Alive
  <1>3. ASSUME NEW p \in dirs PROVE ParentOf(p) \in Alive
    BY <1>0, <1>2, ParentIsPrefix DEF Alive
  <1>4. ASSUME NEW p \in dirs, NEW x \in Paths, IsPrefix(x, p), x # p
        PROVE  \E y \in ChildrenOf(x) : IsPrefix(y, p)
    <2>1. p \in Cgroups /\ p \in Paths
      BY <1>0 DEF Paths
    <2>2. Len(x) \in Nat /\ Len(p) \in Nat /\ Len(x) =< Len(p) /\ Len(x) # Len(p)
      BY <1>4, <2>1, PrefixIsBeginning
    <2>3. PICK y : y = SubSeq(p, 1, Len(x) + 1)
      OBVIOUS
    <2>4. Len(x) + 1 \in 1..Len(p)
      BY <2>2
    <2>5. y \in dirs
      BY <2>3, <2>4 DEF DirsAreClosed
    <2>6. IsPrefix(y, p) /\ ParentOf(y) = x
      BY <1>0, <1>4, <2>1, <2>3, <2>5, NextPrefix
    <2> QED BY <2>5, <2>6 DEF ChildrenOf
  <1> QED BY <1>1, <1>2, <1>3, <1>4

\* A parent of a path that was not blurred was not either.
LEMMA SharpBelow ==
    ASSUME DetectionTyped
    PROVE  /\ \A p \in Paths, x \in Paths : Sharp(p) /\ IsPrefix(x, p) => Sharp(x)
           /\ \A p \in Paths : Sharp(p) => p \notin blurred
           /\ Sharp(Root)
  <1>1. blurred \subseteq Paths /\ Root \notin blurred
    BY DetectionAssumption DEF DetectionTyped, Paths
  <1>2. ASSUME NEW p \in Paths, NEW x \in Paths, Sharp(p), IsPrefix(x, p) PROVE Sharp(x)
    BY <1>1, <1>2, PathOrder DEF Sharp
  <1>3. ASSUME NEW p \in Paths, Sharp(p) PROVE p \notin blurred
    BY <1>3, PathOrder DEF Sharp
  <1>4. Sharp(Root)
    BY <1>1, PathOrder DEF Sharp
  <1> QED BY <1>2, <1>3, <1>4

\* What is blurred stays so.
LEMMA SharpBefore ==
    ASSUME blurred \subseteq blurred'
    PROVE  \A p \in Paths : Sharp(p)' => Sharp(p)
  BY DEF Sharp

\* The elements of a concatenation.
LEMMA Concatenation ==
    ASSUME NEW S, NEW s \in Seq(S), NEW t \in Seq(S)
    PROVE  /\ s \o t \in Seq(S) /\ Len(s \o t) = Len(s) + Len(t) /\ Len(s) \in Nat /\ Len(t) \in Nat
           /\ \A i \in DOMAIN s : i \in DOMAIN (s \o t) /\ (s \o t)[i] = s[i]
           /\ \A i \in DOMAIN t :
                 Len(s) + i \in DOMAIN (s \o t) /\ Len(s) + i > Len(s) /\ (s \o t)[Len(s) + i] = t[i]
           /\ \A i \in DOMAIN (s \o t) :
                 i \in DOMAIN s \/ (i - Len(s) \in DOMAIN t /\ (s \o t)[i] = t[i - Len(s)])
  OBVIOUS

\* The elements of a tail.
LEMMA TailElements ==
    ASSUME NEW S, NEW s \in Seq(S), s # <<>>
    PROVE  /\ Tail(s) \in Seq(S) /\ Len(s) \in Nat \ {0} /\ Len(Tail(s)) = Len(s) - 1
           /\ 1 \in DOMAIN s /\ Head(s) = s[1] /\ Head(s) \in S
           /\ \A i \in DOMAIN Tail(s) : i + 1 \in DOMAIN s /\ Tail(s)[i] = s[i + 1]
           /\ \A i \in DOMAIN s : i = 1 \/ (i - 1 \in DOMAIN Tail(s) /\ Tail(s)[i - 1] = s[i])
  OBVIOUS

\* The events that were not processed yet are those of the batch, then those of the queue.
LEMMA PendingIsBoth ==
    ASSUME DetectionTyped
    PROVE  /\ Pending \in Seq(PendingEvents) /\ Len(Pending) = Len(batch) + Len(events)
           /\ \A i \in DOMAIN batch : i \in DOMAIN Pending /\ Pending[i] = batch[i]
           /\ {Pending[i].path : i \in DOMAIN Pending} = Untold
  <1>1. events \in Seq(PendingEvents) /\ batch \in Seq(PendingEvents)
    BY DEF DetectionTyped
  <1>2. /\ Pending \in Seq(PendingEvents) /\ Len(Pending) = Len(batch) + Len(events)
        /\ \A i \in DOMAIN batch : i \in DOMAIN Pending /\ Pending[i] = batch[i]
        /\ \A i \in DOMAIN events : Len(batch) + i \in DOMAIN Pending /\ Pending[Len(batch) + i] = events[i]
        /\ \A i \in DOMAIN Pending :
              i \in DOMAIN batch \/ (i - Len(batch) \in DOMAIN events /\ Pending[i] = events[i - Len(batch)])
    BY <1>1, Concatenation DEF Pending
  <1>3. {Pending[i].path : i \in DOMAIN Pending} \subseteq Untold
    BY <1>2 DEF Untold
  <1>4. Untold \subseteq {Pending[i].path : i \in DOMAIN Pending}
    BY <1>2 DEF Untold
  <1> QED BY <1>2, <1>3, <1>4

\* Events are added at the end.
LEMMA PendingGrows ==
    ASSUME DetectionTyped, batch' = batch, NEW es \in Seq(PendingEvents), events' = events \o es
    PROVE  /\ Len(Pending') = Len(Pending) + Len(es)
           /\ \A i \in DOMAIN Pending : i \in DOMAIN Pending' /\ Pending'[i] = Pending[i]
           /\ \A i \in DOMAIN Pending' :
                 (i \in DOMAIN Pending /\ Pending'[i] = Pending[i]) \/ \E j \in DOMAIN es : Pending'[i] = es[j]
           /\ \A j \in DOMAIN es : \E i \in DOMAIN Pending' : i > Len(Pending) /\ Pending'[i] = es[j]
  <1>1. events \in Seq(PendingEvents) /\ batch \in Seq(PendingEvents)
    BY DEF DetectionTyped
  <1>2. Pending \in Seq(PendingEvents) /\ Len(Pending) \in Nat
    BY PendingIsBoth
  <1>3. Pending' = Pending \o es
    BY <1>1 DEF Pending
  <1> HIDE DEF Pending
  <1>4. PICK q : q = Pending \o es
    OBVIOUS
  <1>5. /\ Len(q) = Len(Pending) + Len(es) /\ \A i \in DOMAIN Pending : i \in DOMAIN q /\ q[i] = Pending[i]
        /\ \A i \in DOMAIN q : i \in DOMAIN Pending \/ (i - Len(Pending) \in DOMAIN es /\ q[i] = es[i - Len(Pending)])
        /\ \A j \in DOMAIN es :
              Len(Pending) + j \in DOMAIN q /\ Len(Pending) + j > Len(Pending) /\ q[Len(Pending) + j] = es[j]
    BY <1>2, <1>4, Concatenation
  <1> QED BY <1>3, <1>4, <1>5

\* The first event is processed.
LEMMA PendingShrinks ==
    ASSUME DetectionTyped, batch # <<>>, batch' = Tail(batch), events' = events
    PROVE  /\ 1 \in DOMAIN Pending /\ 1 \in DOMAIN batch
           /\ Pending[1] = Head(batch) /\ batch[1] = Head(batch)
           /\ Head(batch) \in PendingEvents
           /\ \A i \in DOMAIN Pending' : i + 1 \in DOMAIN Pending /\ Pending'[i] = Pending[i + 1]
           /\ \A i \in DOMAIN Pending : i = 1 \/ (i - 1 \in DOMAIN Pending' /\ Pending'[i - 1] = Pending[i])
           /\ \A i \in DOMAIN batch' : i + 1 \in DOMAIN batch /\ batch'[i] = batch[i + 1]
  <1>1. events \in Seq(PendingEvents) /\ batch \in Seq(PendingEvents)
    BY DEF DetectionTyped
  <1>2. /\ batch' \in Seq(PendingEvents) /\ Len(batch) \in Nat \ {0} /\ Len(batch') = Len(batch) - 1
        /\ 1 \in DOMAIN batch /\ Head(batch) = batch[1] /\ Head(batch) \in PendingEvents
        /\ \A i \in DOMAIN batch' : i + 1 \in DOMAIN batch /\ batch'[i] = batch[i + 1]
    BY <1>1, TailElements
  <1>3. Pending \in Seq(PendingEvents) /\ Pending # <<>> /\ Pending[1] = batch[1]
    BY <1>1, <1>2, Concatenation DEF Pending
  <1>4. Pending' = Tail(Pending)
    BY <1>1 DEF Pending
  <1>5. /\ 1 \in DOMAIN Pending
        /\ \A i \in DOMAIN Pending' : i + 1 \in DOMAIN Pending /\ Pending'[i] = Pending[i + 1]
        /\ \A i \in DOMAIN Pending : i = 1 \/ (i - 1 \in DOMAIN Pending' /\ Pending'[i - 1] = Pending[i])
    BY <1>3, <1>4, TailElements
  <1> QED BY <1>2, <1>3, <1>5

\* The first visit is replaced.
LEMMA VisitsContinue ==
    ASSUME DetectionTyped, todo # <<>>, NEW vs \in Seq(Visits), Continue(vs)
    PROVE  /\ todo' \in Seq(Visits)
           /\ 1 \in DOMAIN todo /\ todo[1] = Head(todo) /\ Head(todo) \in Visits
           /\ \A k \in DOMAIN todo' :
                 (\E j \in DOMAIN vs : todo'[k] = vs[j]) \/ (\E j \in DOMAIN todo : todo'[k] = todo[j])
           /\ \A j \in DOMAIN vs : j \in DOMAIN todo' /\ todo'[j] = vs[j]
           /\ \A j \in DOMAIN todo : j = 1 \/ \E k \in DOMAIN todo' : todo'[k] = todo[j]
  <1>1. todo \in Seq(Visits)
    BY DEF DetectionTyped
  <1>2. PICK t \in Seq(Visits) : t = Tail(todo)
    BY <1>1, TailElements
  <1>3. /\ \A i \in DOMAIN t : i + 1 \in DOMAIN todo /\ t[i] = todo[i + 1]
        /\ todo[1] = Head(todo) /\ Head(todo) \in Visits /\ 1 \in DOMAIN todo
        /\ \A j \in DOMAIN todo : j = 1 \/ (j - 1 \in DOMAIN t /\ t[j - 1] = todo[j])
    BY <1>1, <1>2, TailElements
  <1>4. todo' = vs \o t
    BY <1>2 DEF Continue
  <1>5. PICK q \in Seq(Visits) : q = vs \o t
    BY <1>2, Concatenation
  <1>6. /\ \A k \in DOMAIN q : k \in DOMAIN vs \/ (k - Len(vs) \in DOMAIN t /\ q[k] = t[k - Len(vs)])
        /\ \A j \in DOMAIN vs : j \in DOMAIN q /\ q[j] = vs[j]
        /\ \A j \in DOMAIN t : Len(vs) + j \in DOMAIN q /\ q[Len(vs) + j] = t[j]
    BY <1>2, <1>5, Concatenation
  <1>7. ASSUME NEW j \in DOMAIN todo PROVE j = 1 \/ \E k \in DOMAIN q : q[k] = todo[j]
    BY <1>3, <1>6
  <1>8. ASSUME NEW k \in DOMAIN q
        PROVE  (\E j \in DOMAIN vs : q[k] = vs[j]) \/ (\E j \in DOMAIN todo : q[k] = todo[j])
    <2>1. CASE k \in DOMAIN vs
      BY <1>6, <2>1
    <2>2. CASE k - Len(vs) \in DOMAIN t /\ q[k] = t[k - Len(vs)]
      BY <1>3, <2>2
    <2> QED BY <1>6, <2>1, <2>2
  <1> QED BY <1>3, <1>4, <1>5, <1>6, <1>7, <1>8

-------------------------------------------------------------------------------
(* The detection of the cgroups: the steps.                                   *)

\* What a step does not touch stays right.
LEMMA DirectoriesStay ==
    ASSUME UNCHANGED <<dirs, gen, blurred>>
    PROVE  /\ \A p \in Paths : Sharp(p)' = Sharp(p) /\ Directory(p)' = Directory(p)
           /\ Alive' = Alive
  BY DEF Sharp, Directory, Alive

\* What is to be visited is still to be visited.
LEMMA AliveAreVisitedStays ==
    ASSUME AliveAreVisited, UNCHANGED <<dirs, blurred, watchedPaths, batch, events, todo>>
    PROVE  AliveAreVisited'
  BY DEF AliveAreVisited, Alive, Sharp, ComesTo, Pending

\* Watched cgroups keep their watches.
LEMMA WatchedAreMarkedStays ==
    ASSUME WatchedAreMarked, UNCHANGED <<dirs, blurred, gen, watchedPaths, marks>>
    PROVE  WatchedAreMarked'
  BY DEF WatchedAreMarked, Alive, Sharp, Marked, Directory

\* Watches still come from the root.
LEMMA MarkedFromRootStays ==
    ASSUME MarkedFromRoot, UNCHANGED <<dirs, blurred, gen, marks>>
    PROVE  MarkedFromRoot'
  BY DEF MarkedFromRoot, Sharp, Marked, Directory, ParentOf

\* A removal that is to be told still is.
LEMMA RemovedAreToldStays ==
    ASSUME RemovedAreTold, UNCHANGED <<dirs, blurred, watchedPaths, batch, events>>
    PROVE  RemovedAreTold'
  BY DEF RemovedAreTold, Sharp, RemovalComes, Pending

\* No removal of an existing cgroup is told.
LEMMA AliveNotToldStays ==
    ASSUME AliveNotTold, UNCHANGED <<dirs, blurred, batch, events>>
    PROVE  AliveNotTold'
  BY DEF AliveNotTold, Sharp, RemovalComes, Pending

\* The sources of the existing cgroups still hold their directories.
LEMMA SourcesAreOpenStays ==
    ASSUME SourcesAreOpen, UNCHANGED <<dirs, blurred, gen, sources>>
    PROVE  SourcesAreOpen'
  BY DEF SourcesAreOpen, Sharp, Directory

\* Visits stay right.
LEMMA VisitsRightStays ==
    ASSUME VisitsRight, UNCHANGED <<dirs, blurred, gen, marks, batch, events, todo>>
    PROVE  VisitsRight'
  BY DEF VisitsRight, VisitRight, Sharp, Marked, Directory, ParentOf, GoneFrom, Pending

\* Creations stay right.
LEMMA CreationsRightStays ==
    ASSUME CreationsRight, UNCHANGED <<dirs, blurred, gen, marks, batch, events>>
    PROVE  CreationsRight'
  BY DEF CreationsRight, Sharp, Marked, Directory, ParentOf, GoneFrom, Pending

\* Watched cgroups will still be known.
LEMMA WatchedWillBeKnownStays ==
    ASSUME WatchedWillBeKnown,
           UNCHANGED <<dirs, blurred, watchedPaths, main, found, loop, known, deleted, created>>
    PROVE  WatchedWillBeKnown'
  BY DEF WatchedWillBeKnown, Sharp, ScanWillFind, WillBeKnown

\* Known cgroups are still followed.
LEMMA KnownAreFollowedStays ==
    ASSUME KnownAreFollowed,
           UNCHANGED <<dirs, blurred, watchedPaths, found, loop, known, deleted, created>>
    PROVE  KnownAreFollowed'
  BY DEF KnownAreFollowed, Sharp, WillBeKnown

\* What the scan has found still exists.
LEMMA FoundAreAliveStays ==
    ASSUME FoundAreAlive, UNCHANGED <<dirs, blurred, main, found>>
    PROVE  FoundAreAlive'
  BY DEF FoundAreAlive, Sharp

\* The sets of the batch still agree.
LEMMA BatchesAgreeStays ==
    ASSUME BatchesAgree, UNCHANGED <<dirs, blurred, loop, deleted, watchedPaths, created, batch>>
    PROVE  BatchesAgree'
  BY DEF BatchesAgree, Sharp

\* The watch loop and the scan, between the walks and the events.
LEMMA SightsStay ==
    ASSUME FollowInv, UNCHANGED <<dirs, gen, blurred, marks, events, batch, todo, watchedPaths>>
    PROVE  /\ AliveAreVisited' /\ WatchedAreMarked' /\ MarkedFromRoot' /\ RemovedAreTold' /\ AliveNotTold'
           /\ VisitsRight' /\ CreationsRight'
  BY AliveAreVisitedStays, WatchedAreMarkedStays, MarkedFromRootStays, RemovedAreToldStays,
     AliveNotToldStays, VisitsRightStays, CreationsRightStays DEF FollowInv

\* The watch loop starts when the root was walked through.
LEMMA FollowsStartThread ==
    ASSUME DetectionTyped, FollowInv, StartThread
    PROVE  FollowInv'
  <1>1. /\ UNCHANGED <<dirs, gen, blurred, marks, events, batch, todo, watchedPaths, sources, needRescan,
                       found, known>>
        /\ loop = "setup" /\ todo = <<>> /\ loop' = "poll" /\ main' = "scan" /\ created' = {} /\ deleted' = {}
    BY DEF StartThread, filesystem, kernel, probes
  <1>2. LoopOrder'
    BY <1>1 DEF FollowInv, LoopOrder, Pending
  <1>3. SourcesAreOpen'
    BY <1>1, SourcesAreOpenStays DEF FollowInv
  <1>4. WatchedWillBeKnown'
    BY <1>1 DEF WatchedWillBeKnown, ScanWillFind
  <1>5. KnownAreFollowed'
    BY <1>1 DEF FollowInv, KnownAreFollowed, WillBeKnown, Sharp
  <1>6. FoundAreAlive' /\ BatchesAgree'
    BY <1>1 DEF FoundAreAlive, BatchesAgree
  <1> QED BY <1>1, <1>2, <1>3, <1>4, <1>5, <1>6, SightsStay DEF FollowInv

\* Reading events changes where they wait, not what waits.
LEMMA FollowsReadEvents ==
    ASSUME DetectionTyped, FollowInv, ReadEvents
    PROVE  FollowInv'
  <1>1. /\ UNCHANGED <<dirs, gen, blurred, marks, todo, watchedPaths, sources, main, found, known>>
        /\ loop = "poll" /\ loop' = "process" /\ created' = {} /\ deleted' = {} /\ needRescan' = FALSE
    BY DEF ReadEvents, filesystem, probes
  <1>2. events \in Seq(PendingEvents) /\ batch = <<>>
    BY <1>1 DEF DetectionTyped, FollowInv, LoopOrder
  <1>3. Pending' = Pending
    <2>1. PICK n \in 1..Len(events) :
             /\ batch' = SubSeq(events, 1, n) /\ events' = SubSeq(events, n + 1, Len(events))
      BY DEF ReadEvents
    <2>2. SubSeq(events, 1, n) \o SubSeq(events, n + 1, Len(events)) = events
      BY <1>2, <2>1
    <2>3. batch \o events = events
      BY <1>2
    <2> QED BY <2>1, <2>2, <2>3 DEF Pending
  <1>4. LoopOrder'
    BY <1>1, <1>3 DEF FollowInv, LoopOrder
  <1>5. AliveAreVisited' /\ RemovedAreTold' /\ AliveNotTold'
    BY <1>1, <1>3 DEF FollowInv, AliveAreVisited, RemovedAreTold, AliveNotTold, Alive, Sharp, ComesTo, RemovalComes
  <1>6. WatchedAreMarked' /\ MarkedFromRoot' /\ SourcesAreOpen'
    BY <1>1, WatchedAreMarkedStays, MarkedFromRootStays, SourcesAreOpenStays DEF FollowInv
  <1>7. VisitsRight' /\ CreationsRight'
    BY <1>1, <1>3 DEF FollowInv, VisitsRight, VisitRight, CreationsRight, Sharp, Marked, Directory, ParentOf, GoneFrom
  <1>8. WatchedWillBeKnown' /\ KnownAreFollowed'
    BY <1>1 DEF FollowInv, WatchedWillBeKnown, KnownAreFollowed, ScanWillFind, WillBeKnown, Sharp
  <1>9. FoundAreAlive' /\ BatchesAgree'
    BY <1>1, FoundAreAliveStays DEF FollowInv, BatchesAgree
  <1> QED BY <1>4, <1>5, <1>6, <1>7, <1>8, <1>9 DEF FollowInv

\* The end of a batch: what it has collected is handled, if there is any.
LEMMA FollowsEndBatch ==
    ASSUME DetectionTyped, FollowInv, EndBatch
    PROVE  FollowInv'
  <1>1. /\ UNCHANGED <<dirs, gen, blurred, marks, events, batch, todo, watchedPaths, sources, main, found,
                       known, created, deleted, needRescan>>
        /\ loop = "process" /\ todo = <<>> /\ batch = <<>> /\ needRescan = FALSE
        /\ loop' = IF created \union deleted # {} THEN "forget" ELSE "poll"
    BY DEF EndBatch, AfterFs, filesystem, kernel, probes, FollowInv, LoopOrder
  <1>2. LoopOrder'
    BY <1>1 DEF FollowInv, LoopOrder, Pending
  <1>3. \A p \in Cgroups : WillBeKnown(p)' = WillBeKnown(p) /\ ScanWillFind(p)' = ScanWillFind(p)
    BY <1>1 DEF WillBeKnown, ScanWillFind
  <1>4. WatchedWillBeKnown' /\ KnownAreFollowed'
    BY <1>1, <1>3 DEF FollowInv, WatchedWillBeKnown, KnownAreFollowed, Sharp, DetectionTyped
  <1>5. SourcesAreOpen' /\ FoundAreAlive'
    BY <1>1, SourcesAreOpenStays, FoundAreAliveStays DEF FollowInv
  <1>6. BatchesAgree'
    BY <1>1 DEF FollowInv, BatchesAgree, Sharp
  <1> QED BY <1>1, <1>2, <1>4, <1>5, <1>6, SightsStay DEF FollowInv

\* The handler forgets the deleted cgroups.
LEMMA FollowsHandleDeleted ==
    ASSUME DetectionTyped, FollowInv, HandleDeleted
    PROVE  FollowInv'
  <1>1. /\ UNCHANGED <<dirs, gen, blurred, marks, events, batch, todo, watchedPaths, sources, main, found,
                       created, deleted, needRescan>>
        /\ loop = "forget" /\ loop' = "register" /\ known' = known \ deleted
    BY DEF HandleDeleted, filesystem, kernel, probes
  <1>2. LoopOrder'
    BY <1>1 DEF FollowInv, LoopOrder, Pending
  <1>3. \A p \in Cgroups : WillBeKnown(p)' = WillBeKnown(p) /\ ScanWillFind(p)' = ScanWillFind(p)
    BY <1>1 DEF WillBeKnown, ScanWillFind
  <1>4. WatchedWillBeKnown' /\ KnownAreFollowed'
    BY <1>1, <1>3 DEF FollowInv, WatchedWillBeKnown, KnownAreFollowed, Sharp, DetectionTyped
  <1>5. SourcesAreOpen' /\ FoundAreAlive' /\ BatchesAgree'
    BY <1>1, SourcesAreOpenStays, FoundAreAliveStays DEF FollowInv, BatchesAgree
  <1> QED BY <1>1, <1>2, <1>4, <1>5, SightsStay DEF FollowInv

\* New sources open the current directories.
LEMMA SourcesAreOpenGrows ==
    ASSUME SourcesAreOpen, UNCHANGED <<dirs, gen, blurred>>, NEW new, OnCgroupsCreated(new)
    PROVE  SourcesAreOpen'
  <1>1. \A d \in sources' : d \in sources \/ \E p \in dirs : d = Directory(p)
    BY DEF OnCgroupsCreated
  <1>2. \A p \in dirs : p = Root \/ Directory(p)[1] = p
    BY DEF Directory
  <1>3. \A p \in dirs : Directory(p)' = Directory(p) /\ Sharp(p)' = Sharp(p)
    BY DEF Directory, Sharp
  <1> QED BY <1>1, <1>2, <1>3 DEF SourcesAreOpen, Directory

\* The handler registers the created cgroups.
LEMMA FollowsHandleCreated ==
    ASSUME DetectionTyped, FollowInv, HandleCreated
    PROVE  FollowInv'
  <1>1. /\ UNCHANGED <<dirs, gen, blurred, marks, events, batch, todo, watchedPaths, main, found,
                       created, deleted, needRescan>>
        /\ loop = "register" /\ loop' = "poll" /\ known' = known \union created
        /\ OnCgroupsCreated(created \ known)
    BY DEF HandleCreated, RegisterCgroups, AfterFs, filesystem, kernel, FollowInv, LoopOrder
  <1>2. LoopOrder'
    BY <1>1 DEF FollowInv, LoopOrder, Pending
  <1>3. \A p \in Cgroups : WillBeKnown(p)' = WillBeKnown(p) /\ ScanWillFind(p)' = ScanWillFind(p)
    BY <1>1 DEF WillBeKnown, ScanWillFind
  <1>4. WatchedWillBeKnown' /\ KnownAreFollowed'
    BY <1>1, <1>3 DEF FollowInv, WatchedWillBeKnown, KnownAreFollowed, Sharp, DetectionTyped
  <1>5. SourcesAreOpen' /\ FoundAreAlive' /\ BatchesAgree'
    BY <1>1, SourcesAreOpenGrows, FoundAreAliveStays DEF FollowInv, BatchesAgree
  <1> QED BY <1>1, <1>2, <1>4, <1>5, SightsStay DEF FollowInv

\* The scan finds what exists.
LEMMA FollowsFullScan ==
    ASSUME DetectionTyped, FollowInv, FullScan
    PROVE  FollowInv'
  <1>1. /\ UNCHANGED <<dirs, gen, blurred, marks, events, batch, todo, watchedPaths, sources, loop, known,
                       created, deleted, needRescan>>
        /\ main = "scan" /\ main' = "register" /\ found' = dirs
    BY DEF FullScan, filesystem, kernel, probes, watch
  <1>2. LoopOrder'
    BY <1>1 DEF FollowInv, LoopOrder, Pending
  <1>3. WatchedWillBeKnown'
    BY <1>1 DEF WatchedWillBeKnown, ScanWillFind
  <1>4. KnownAreFollowed'
    BY <1>1 DEF FollowInv, KnownAreFollowed, WillBeKnown, Sharp
  <1>5. SourcesAreOpen' /\ BatchesAgree'
    BY <1>1, SourcesAreOpenStays, BatchesAgreeStays DEF FollowInv
  <1>6. FoundAreAlive'
    BY <1>1 DEF FoundAreAlive
  <1> QED BY <1>1, <1>2, <1>3, <1>4, <1>5, <1>6, SightsStay DEF FollowInv

\* The cgroups of the scan are registered, and none of them is about to be forgotten.
LEMMA FollowsRegisterFound ==
    ASSUME DetectionTyped, FollowInv, RegisterFound
    PROVE  FollowInv'
  <1>1. /\ UNCHANGED <<dirs, gen, blurred, marks, events, batch, todo, watchedPaths, loop, found,
                       created, deleted, needRescan>>
        /\ main = "register" /\ main' = "done" /\ known' = known \union found
        /\ OnCgroupsCreated(found \ known)
    BY DEF RegisterFound, RegisterCgroups, filesystem, kernel, watch
  <1>2. LoopOrder'
    BY <1>1 DEF FollowInv, LoopOrder, Pending
  <1>3. \A p \in Cgroups : WillBeKnown(p) => WillBeKnown(p)'
    BY <1>1 DEF WillBeKnown
  <1>4. \A p \in Cgroups : WillBeKnown(p)' => WillBeKnown(p) \/ p \in found
    BY <1>1 DEF WillBeKnown
  <1>5. WatchedWillBeKnown'
    <2>1. SUFFICES ASSUME NEW p \in dirs, Sharp(p), p \in watchedPaths
                   PROVE  WillBeKnown(p)'
      BY <1>1 DEF WatchedWillBeKnown, Sharp
    <2>2. p \in Cgroups
      BY DEF DetectionTyped
    <2>3. CASE WillBeKnown(p)
      BY <1>3, <2>2, <2>3
    <2>4. CASE ScanWillFind(p)
      <3>1. p \in known'
        BY <1>1, <2>4 DEF ScanWillFind
      <3>2. loop \in {"process", "forget"} /\ p \in deleted => p \in created
        BY <2>1 DEF FollowInv, BatchesAgree
      <3> QED BY <1>1, <3>1, <3>2 DEF WillBeKnown
    <2> QED BY <2>1, <2>3, <2>4 DEF FollowInv, WatchedWillBeKnown
  <1>6. KnownAreFollowed'
    <2>1. SUFFICES ASSUME NEW p \in Cgroups, Sharp(p), WillBeKnown(p)'
                   PROVE  p \in watchedPaths \/ (p \in dirs /\ p \in found)
      BY <1>1 DEF KnownAreFollowed, Sharp
    <2>2. CASE WillBeKnown(p)
      BY <2>1, <2>2 DEF FollowInv, KnownAreFollowed
    <2>3. CASE p \in found
      BY <1>1, <2>1, <2>3 DEF FollowInv, FoundAreAlive
    <2> QED BY <1>4, <2>1, <2>2, <2>3
  <1>7. SourcesAreOpen' /\ FoundAreAlive' /\ BatchesAgree'
    BY <1>1, SourcesAreOpenGrows, BatchesAgreeStays DEF FollowInv, FoundAreAlive
  <1> QED BY <1>1, <1>2, <1>5, <1>6, <1>7, SightsStay DEF FollowInv

\* A walk that goes on still comes to the directories that it was to come to.
LEMMA AliveAreVisitedOn ==
    ASSUME DetectionTyped, AliveAreVisited, todo # <<>>, NEW vs \in Seq(Visits), Continue(vs),
           UNCHANGED <<dirs, blurred, batch, events>>, watchedPaths \subseteq watchedPaths',
           \A p \in Alive :
              /\ Sharp(p) /\ IsPrefix(Head(todo).path, p)
              /\ Head(todo).step \in {"stat", "add"} \/ Head(todo).path # p
              => \/ p \in watchedPaths'
                 \/ \E j \in DOMAIN vs : /\ IsPrefix(vs[j].path, p)
                                         /\ vs[j].step \in {"stat", "add"} \/ vs[j].path # p
    PROVE  AliveAreVisited'
  <1>0. /\ 1 \in DOMAIN todo /\ todo[1] = Head(todo)
        /\ \A j \in DOMAIN vs : j \in DOMAIN todo' /\ todo'[j] = vs[j]
        /\ \A j \in DOMAIN todo : j = 1 \/ \E k \in DOMAIN todo' : todo'[k] = todo[j]
    BY VisitsContinue
  <1>1. SUFFICES ASSUME NEW p \in Alive, Sharp(p), p \notin watchedPaths'
                 PROVE  ComesTo(p)'
    BY DirectoriesStay DEF AliveAreVisited, Alive, Sharp
  <1>2. PICK x \in Paths :
           /\ IsPrefix(x, p)
           /\ \/ \E i \in DOMAIN Pending : Pending[i].type = "create" /\ Pending[i].path = x
              \/ \E k \in DOMAIN todo : todo[k].path = x /\ (todo[k].step \in {"stat", "add"} \/ x # p)
    BY <1>1 DEF AliveAreVisited, ComesTo
  <1>3. CASE \E i \in DOMAIN Pending : Pending[i].type = "create" /\ Pending[i].path = x
    BY <1>2, <1>3 DEF ComesTo, Pending
  <1>4. CASE \E k \in DOMAIN todo : todo[k].path = x /\ (todo[k].step \in {"stat", "add"} \/ x # p)
    <2>1. PICK k \in DOMAIN todo : todo[k].path = x /\ (todo[k].step \in {"stat", "add"} \/ x # p)
      BY <1>4
    <2>2. CASE k = 1
      <3>1. PICK j \in DOMAIN vs : IsPrefix(vs[j].path, p) /\ (vs[j].step \in {"stat", "add"} \/ vs[j].path # p)
        BY <1>0, <1>1, <1>2, <2>1, <2>2
      <3>2. vs[j].path \in Paths
        <4>1. vs[j] \in Visits
          OBVIOUS
        <4> QED BY <4>1 DEF Visits
      <3> QED BY <1>0, <3>1, <3>2 DEF ComesTo
    <2>3. CASE k # 1
      <3>1. PICK m \in DOMAIN todo' : todo'[m] = todo[k]
        BY <1>0, <2>3
      <3> QED BY <1>2, <2>1, <3>1 DEF ComesTo
    <2> QED BY <2>2, <2>3
  <1> QED BY <1>2, <1>3, <1>4

\* The visits of a walk that goes on are right when the new ones are.
LEMMA VisitsRightOn ==
    ASSUME DetectionTyped, VisitsRight, todo # <<>>, NEW vs \in Seq(Visits), Continue(vs),
           UNCHANGED <<dirs, gen, blurred, batch, events>>, marks \subseteq marks',
           \A j \in DOMAIN vs : VisitRight(vs[j])'
    PROVE  VisitsRight'
  <1>1. \A k \in DOMAIN todo' :
           (\E j \in DOMAIN vs : todo'[k] = vs[j]) \/ (\E j \in DOMAIN todo : todo'[k] = todo[j])
    BY VisitsContinue
  <1>2. ASSUME NEW v, VisitRight(v) PROVE VisitRight(v)'
    <2>1. \A p \in Paths : Marked(p) => Marked(p)'
      BY DEF Marked, Directory
    <2>2. GoneFrom(v.path, 0) => GoneFrom(v.path, 0)'
      BY DEF GoneFrom, Pending
    <2>3. Marked(Root) => Marked(Root)'
      BY DEF Marked, Directory
    <2>4. Sharp(v.path)' = Sharp(v.path)
      BY DEF Sharp
    <2>5. Marked(v.path) => Marked(v.path)'
      BY DEF Marked, Directory
    <2>6. Marked(ParentOf(v.path)) => Marked(ParentOf(v.path))'
      BY DEF Marked, Directory, ParentOf
    <2> QED BY <1>2, <2>2, <2>3, <2>4, <2>5, <2>6 DEF VisitRight
  <1>3. ASSUME NEW k \in DOMAIN todo' PROVE VisitRight(todo[k])'
    <2>1. PICK w : w = todo'[k]
      OBVIOUS
    <2>2. VisitRight(w)'
      BY <1>1, <1>2, <2>1 DEF VisitsRight
    <2> QED BY <2>1, <2>2 DEF VisitRight
  <1> QED BY <1>3 DEF VisitsRight

\* A visit begins: the path is a directory or it is gone.
LEMMA FollowsWalkStat ==
    ASSUME DetectionTyped, DirsAreClosed, FollowInv, WalkStat
    PROVE  FollowInv'
  <1>1. /\ UNCHANGED <<dirs, gen, blurred, marks, events, batch, watchedPaths, sources, loop, main, found,
                       known, created, deleted, needRescan>>
        /\ todo # <<>> /\ Head(todo).step = "stat"
    BY DEF WalkStat, Now, Walking, filesystem, kernel, probes
  <1>2. PICK p : p = Head(todo).path
    OBVIOUS
  <1>3. p \in Paths
    <2>1. Head(todo) \in Visits
      BY <1>1, TailElements DEF DetectionTyped
    <2> QED BY <1>2, <2>1 DEF Visits
  <1>4. PICK g : g = Directory(p)[2]
    OBVIOUS
  <1>5. p \in Alive => g \in Nat /\ (p = Root => g = 0) /\ (p # Root => g = gen[p])
    BY <1>4 DEF Alive, Directory, DetectionTyped
  <1>6. PICK vs : vs = IF p \in Alive THEN <<Visit("add", p, g)>> ELSE <<>>
    OBVIOUS
  <1>7. Continue(vs)
    BY <1>2, <1>4, <1>6 DEF WalkStat, Alive
  <1>8. vs \in Seq(Visits)
    <2>1. p \in Alive => Visit("add", p, g) \in Visits
      BY <1>3, <1>5 DEF Visit, Visits
    <2> QED BY <1>6, <2>1
  <1>9. /\ \A j \in DOMAIN vs : p \in Alive /\ vs[j].path = p /\ vs[j].step = "add" /\ vs[j].gen = g
        /\ p \in Alive => 1 \in DOMAIN vs
    BY <1>6 DEF Visit
  <1>10. VisitRight(Head(todo))
    BY <1>1, <1>7, <1>8, VisitsContinue DEF FollowInv, VisitsRight
  <1>11. LoopOrder'
    BY <1>1, <1>7 DEF FollowInv, LoopOrder, Pending
  <1>12. AliveAreVisited'
    <2>1. ASSUME NEW q \in Alive, IsPrefix(p, q)
          PROVE  \E j \in DOMAIN vs : IsPrefix(vs[j].path, q) /\ vs[j].step \in {"stat", "add"}
      <3>1. p \in Alive
        BY <1>3, <2>1, ClosedPaths
      <3> QED BY <1>9, <2>1, <3>1
    <2> QED BY <1>1, <1>2, <1>7, <1>8, <2>1, AliveAreVisitedOn DEF FollowInv
  <1>13. VisitsRight'
    <2>1. ASSUME NEW j \in DOMAIN vs PROVE VisitRight(vs[j])'
      <3>1. vs[j].path = p /\ vs[j].step = "add" /\ vs[j].gen = g /\ p \in Alive
        BY <1>9
      <3>2. CASE p = Root
        BY <1>5, <3>1, <3>2 DEF VisitRight
      <3>3. CASE p # Root
        <4>1. Sharp(p) => (p \in dirs /\ Marked(ParentOf(p))) \/ GoneFrom(p, 0)
          BY <1>2, <1>10, <3>3 DEF VisitRight
        <4>2. /\ Sharp(p)' = Sharp(p) /\ Marked(ParentOf(p))' = Marked(ParentOf(p))
              /\ GoneFrom(p, 0)' = GoneFrom(p, 0)
          BY <1>1 DEF Sharp, Marked, Directory, ParentOf, GoneFrom, Pending
        <4> QED BY <1>1, <1>5, <3>1, <3>3, <4>1, <4>2 DEF VisitRight
      <3> QED BY <3>2, <3>3
    <2> QED BY <1>1, <1>7, <1>8, <2>1, VisitsRightOn DEF FollowInv
  <1>14. /\ WatchedAreMarked' /\ MarkedFromRoot' /\ RemovedAreTold' /\ AliveNotTold' /\ SourcesAreOpen'
         /\ CreationsRight' /\ WatchedWillBeKnown' /\ KnownAreFollowed' /\ FoundAreAlive' /\ BatchesAgree'
    BY <1>1, WatchedAreMarkedStays, MarkedFromRootStays, RemovedAreToldStays, AliveNotToldStays,
       SourcesAreOpenStays, CreationsRightStays, WatchedWillBeKnownStays, KnownAreFollowedStays,
       FoundAreAliveStays, BatchesAgreeStays DEF FollowInv
  <1> QED BY <1>11, <1>12, <1>13, <1>14 DEF FollowInv

\* A directory is watched, if it still exists; what is watched already stays so.
LEMMA FollowsWalkAdd ==
    ASSUME DetectionTyped, DirsAreClosed, FollowInv, WalkAdd
    PROVE  FollowInv'
  <1>1. /\ UNCHANGED <<dirs, gen, blurred, events, batch, sources, loop, main, found, known, needRescan>>
        /\ todo # <<>> /\ Head(todo).step = "add"
    BY DEF WalkAdd, Now, Walking, filesystem, probes
  <1>2. PICK p : p = Head(todo).path
    OBVIOUS
  <1>3. PICK g : g = Head(todo).gen
    OBVIOUS
  <1>4. p \in Paths /\ g \in Nat
    <2>1. Head(todo) \in Visits
      BY <1>1, TailElements DEF DetectionTyped
    <2> QED BY <1>2, <1>3, <2>1 DEF Visits
  <1>5. PICK vs : vs = <<Visit("list", p, g)>>
    OBVIOUS
  <1>6. Continue(vs)
    BY <1>2, <1>3, <1>5 DEF WalkAdd, Then
  <1>7. vs \in Seq(Visits) /\ 1 \in DOMAIN vs /\ \A j \in DOMAIN vs : vs[j] = Visit("list", p, g)
    <2>1. Visit("list", p, g) \in Visits
      BY <1>4 DEF Visit, Visits
    <2> QED BY <1>5, <2>1
  <1>8. VisitRight(Head(todo))
    BY <1>1, <1>6, <1>7, VisitsContinue DEF FollowInv, VisitsRight
  <1>9. loop \in {"setup", "process"} /\ (loop = "setup" => main = "setup")
    BY <1>1 DEF FollowInv, LoopOrder
  <1>10. \/ /\ p \in watchedPaths
            /\ UNCHANGED <<marks, watchedPaths, created, deleted>>
         \/ /\ p \notin watchedPaths /\ p \in Alive
            /\ marks' = marks \union {Directory(p)} /\ watchedPaths' = watchedPaths \union {p}
            /\ created' = created \union ({p} \ {Root}) /\ deleted' = deleted
         \/ /\ p \notin watchedPaths /\ p \notin Alive
            /\ deleted' = deleted \union {p} /\ UNCHANGED <<marks, watchedPaths, created>>
    BY <1>2 DEF WalkAdd, Alive
  <1>11. /\ marks \subseteq marks' /\ watchedPaths \subseteq watchedPaths' /\ created \subseteq created'
         /\ p \in Alive => p \in watchedPaths'
         /\ watchedPaths' \subseteq watchedPaths \union {p} /\ deleted' \subseteq deleted \union {p}
         /\ p \in Alive => deleted' = deleted
         /\ p \notin Alive => UNCHANGED <<marks, watchedPaths, created>>
         /\ marks' \subseteq marks \union {Directory(p)}
         /\ created' \subseteq created \union {p}
         /\ deleted \subseteq deleted'
    BY <1>10
  <1>12. \A q \in Paths : Sharp(q)' = Sharp(q) /\ Directory(q)' = Directory(q)
    BY <1>1, DirectoriesStay
  <1>13. Alive' = Alive /\ Alive \subseteq Paths /\ dirs \subseteq Cgroups /\ Cgroups \subseteq Paths
    BY <1>1, DirectoriesStay DEF Alive, DetectionTyped, Paths
  <1>14. p \in Alive /\ Sharp(p) => Marked(p)'
    <2>1. CASE p \in watchedPaths
      BY <1>1, <1>4, <1>11, <1>12, <2>1 DEF FollowInv, WatchedAreMarked, Marked
    <2>2. CASE p \notin watchedPaths
      BY <1>4, <1>10, <1>12, <2>2 DEF Marked
    <2> QED BY <2>1, <2>2
  <1>15. \A q \in Paths : (Marked(q) => Marked(q)') /\ (Marked(q)' => Marked(q) \/ q = p)
    <2>1. \A q \in Paths : Directory(q) = Directory(p) => q = p
      BY <1>4 DEF Directory
    <2> QED BY <1>11, <1>12, <2>1 DEF Marked
  <1>16. LoopOrder'
    BY <1>1, <1>9 DEF FollowInv, LoopOrder, Pending
  <1>17. AliveAreVisited'
    <2>1. \A q \in Alive :
             /\ Sharp(q) /\ IsPrefix(p, q)
             => q \in watchedPaths' \/ \E j \in DOMAIN vs : IsPrefix(vs[j].path, q) /\ vs[j].path # q
      BY <1>7, <1>11 DEF Visit
    <2> QED BY <1>1, <1>2, <1>6, <1>7, <1>11, <2>1, AliveAreVisitedOn DEF FollowInv
  <1>18. WatchedAreMarked'
    <2>1. SUFFICES ASSUME NEW q \in Alive, Sharp(q), q \in watchedPaths' PROVE Marked(q)'
      BY <1>12, <1>13 DEF WatchedAreMarked
    <2>2. CASE q = p
      BY <1>14, <2>1, <2>2
    <2>3. CASE q # p
      BY <1>11, <1>13, <1>15, <2>1, <2>3 DEF FollowInv, WatchedAreMarked
    <2> QED BY <2>2, <2>3
  <1>19. MarkedFromRoot'
    <2>1. SUFFICES ASSUME NEW q \in dirs, Sharp(q), Marked(q)' PROVE Marked(ParentOf(q))'
      BY <1>1, <1>12, <1>13 DEF MarkedFromRoot
    <2>2. ParentOf(q) \in Paths /\ q \in Paths
      BY <1>13, ParentIsPrefix
    <2>3. Marked(ParentOf(q)) => Marked(ParentOf(q))'
      BY <1>15, <2>2
    <2>4. CASE Marked(q)
      BY <2>1, <2>3, <2>4 DEF FollowInv, MarkedFromRoot
    <2>5. CASE q = p
      <3>1. p # Root
        BY <1>13, <2>5, DetectionAssumption
      <3>2. ~GoneFrom(p, 0)
        BY <1>13, <2>5, ClosedPaths DEF GoneFrom, FollowInv, LoopOrder
      <3>3. Marked(ParentOf(p))
        BY <1>2, <1>8, <2>1, <2>5, <3>1, <3>2 DEF VisitRight
      <3> QED BY <2>3, <2>5, <3>3
    <2> QED BY <1>15, <2>1, <2>2, <2>4, <2>5
  <1>20. RemovedAreTold'
    <2>1. SUFFICES ASSUME NEW q \in Cgroups, Sharp(q), q \in watchedPaths', q \notin dirs PROVE RemovalComes(q)
      BY <1>1, <1>12, <1>13 DEF RemovedAreTold, RemovalComes, Pending
    <2>2. q # p \/ p \notin Alive
      BY <2>1, DetectionAssumption DEF Alive
    <2>3. q \in watchedPaths
      BY <1>11, <2>1, <2>2
    <2> QED BY <2>1, <2>3 DEF FollowInv, RemovedAreTold
  <1>21. AliveNotTold' /\ SourcesAreOpen' /\ FoundAreAlive'
    BY <1>1, AliveNotToldStays, SourcesAreOpenStays, FoundAreAliveStays DEF FollowInv
  <1>22. VisitsRight'
    <2>1. VisitRight(Visit("list", p, g))'
      <3>1. CASE p = Root
        <4>1. g = 0
          BY <1>2, <1>3, <1>8, <3>1 DEF VisitRight
        <4>2. Marked(Root)'
          BY <1>14, <3>1, SharpBelow DEF Alive
        <4> QED BY <3>1, <4>1, <4>2 DEF VisitRight, Visit
      <3>2. CASE p # Root
        <4>1. ASSUME Sharp(p)
              PROVE  (p \in dirs /\ Marked(ParentOf(p)) /\ g = gen[p]) \/ GoneFrom(p, 0)
          BY <1>1, <1>2, <1>3, <1>8, <3>2, <4>1 DEF VisitRight
        <4>2. GoneFrom(p, 0)' = GoneFrom(p, 0)
          BY <1>1 DEF GoneFrom, Pending
        <4>3. p \in Cgroups
          BY <1>4, <3>2 DEF Paths
        <4>4. Marked(ParentOf(p)) => Marked(ParentOf(p))'
          BY <1>15, <4>3, ParentIsPrefix
        <4>5. p \in dirs /\ Sharp(p) => Marked(p)'
          BY <1>14 DEF Alive
        <4> HIDE DEF GoneFrom
        <4> QED BY <1>1, <1>4, <1>12, <3>2, <4>1, <4>2, <4>4, <4>5 DEF VisitRight, Visit
      <3> QED BY <3>1, <3>2
    <2>2. ASSUME NEW j \in DOMAIN vs PROVE VisitRight(vs[j])'
      <3>1. PICK w : w = Visit("list", p, g)
        OBVIOUS
      <3>2. vs[j] = w /\ VisitRight(w)'
        BY <1>7, <2>1, <3>1
      <3> QED BY <3>2
    <2> QED BY <1>1, <1>6, <1>7, <1>11, <2>2, VisitsRightOn DEF FollowInv
  <1>23. CreationsRight'
    <2>1. SUFFICES ASSUME NEW i \in DOMAIN Pending, NEW c, c = Pending[i].path,
                          Pending[i].type = "create", Sharp(c)
                   PROVE  (c \in dirs /\ Marked(ParentOf(c))') \/ GoneFrom(c, i)
      BY <1>1 DEF CreationsRight, Sharp, GoneFrom, Pending, Marked, Directory
    <2>2. c \in dirs /\ Marked(ParentOf(c)) => Marked(ParentOf(c))'
      BY <1>13, <1>15, ParentIsPrefix
    <2>3. (c \in dirs /\ Marked(ParentOf(c))) \/ GoneFrom(c, i)
      BY <2>1 DEF FollowInv, CreationsRight
    <2> QED BY <2>2, <2>3
  <1>24. WatchedWillBeKnown'
    <2>1. SUFFICES ASSUME NEW q \in dirs, Sharp(q), q \in watchedPaths' PROVE ScanWillFind(q)' \/ WillBeKnown(q)'
      BY <1>1, <1>12, <1>13 DEF WatchedWillBeKnown
    <2>2. ScanWillFind(q) => ScanWillFind(q)'
      BY <1>1 DEF ScanWillFind
    <2>3. WillBeKnown(q) => WillBeKnown(q)'
      <3>1. q \in deleted' => q \in deleted
        BY <1>11 DEF Alive
      <3> QED BY <1>1, <1>11, <3>1 DEF WillBeKnown
    <2>4. CASE q \in watchedPaths
      BY <2>1, <2>2, <2>3, <2>4 DEF FollowInv, WatchedWillBeKnown
    <2>5. CASE q \notin watchedPaths
      <3>1. q = p /\ q # Root
        BY <1>11, <1>13, <2>1, <2>5, DetectionAssumption
      <3>2. q \in created'
        BY <1>10, <2>1, <2>5, <3>1
      <3> QED BY <1>1, <1>9, <3>2 DEF ScanWillFind, WillBeKnown
    <2> QED BY <2>4, <2>5
  <1>25. KnownAreFollowed'
    <2>1. SUFFICES ASSUME NEW q \in Cgroups, Sharp(q), WillBeKnown(q)'
                   PROVE  q \in watchedPaths' \/ (q \in dirs /\ q \in found)
      BY <1>1, <1>12, <1>13 DEF KnownAreFollowed
    <2>2. CASE WillBeKnown(q)
      BY <1>11, <2>1, <2>2 DEF FollowInv, KnownAreFollowed
    <2>3. CASE ~WillBeKnown(q)
      <3>1. q \in created' /\ q \notin created
        BY <1>1, <1>11, <2>1, <2>3 DEF WillBeKnown
      <3> QED BY <1>10, <3>1
    <2> QED BY <2>2, <2>3
  <1>26. BatchesAgree'
    <2>1. ASSUME loop \in {"process", "forget"}, NEW q \in dirs, Sharp(q), q \in deleted', q \in watchedPaths'
          PROVE  q \in created'
      <3>1. q \in deleted
        BY <1>11, <2>1 DEF Alive
      <3>2. CASE q \in watchedPaths
        BY <1>11, <2>1, <3>1, <3>2 DEF FollowInv, BatchesAgree
      <3>3. CASE q \notin watchedPaths
        BY <1>10, <1>13, <2>1, <3>3, DetectionAssumption
      <3> QED BY <3>2, <3>3
    <2>2. ASSUME loop = "process", NEW q \in created', Sharp(q), NEW i \in DOMAIN batch, batch[i].path = q
          PROVE  batch[i].type \notin {"delete", "self"}
      <3>1. CASE q \in created
        BY <2>2, <3>1 DEF FollowInv, BatchesAgree
      <3>2. CASE q \notin created
        <4>1. q \in dirs
          BY <1>10, <3>2 DEF Alive
        <4>2. ~RemovalComes(q)
          BY <2>2, <4>1 DEF FollowInv, AliveNotTold
        <4> QED BY <2>2, <4>2, PendingIsBoth DEF RemovalComes
      <3> QED BY <3>1, <3>2
    <2>3. \A q : Sharp(q)' = Sharp(q)
      BY <1>1 DEF Sharp
    <2> QED BY <1>1, <2>1, <2>2, <2>3 DEF BatchesAgree
  <1> QED BY <1>16, <1>17, <1>18, <1>19, <1>20, <1>21, <1>22, <1>23, <1>24, <1>25, <1>26 DEF FollowInv

\* The visits of a list.
LEMMA ListedVisits ==
    ASSUME NEW children \in SUBSET Cgroups,
           NEW vs, vs = [i \in 1..Len(SetToSeq(children)) |-> Visit("stat", SetToSeq(children)[i], 0)]
    PROVE  /\ vs \in Seq(Visits)
           /\ \A j \in DOMAIN vs : \E c \in children : vs[j] = Visit("stat", c, 0)
           /\ \A c \in children : \E j \in DOMAIN vs : vs[j] = Visit("stat", c, 0)
  <1>1. IsFiniteSet(children)
    BY FS_Subset, DetectionAssumption
  <1>2. PICK s : s = SetToSeq(children)
    OBVIOUS
  <1>3. s \in Seq(children) /\ \A c \in children : \E i \in DOMAIN s : s[i] = c
    BY <1>1, <1>2, SequenceHasSet
  <1>4. vs = [i \in 1..Len(s) |-> Visit("stat", s[i], 0)]
    BY <1>2
  <1>5. \A i \in 1..Len(s) : s[i] \in children
    BY <1>3
  <1>6. \A c \in children : Visit("stat", c, 0) \in Visits
    BY DEF Visit, Visits, Paths
  <1>7. Len(s) \in Nat /\ DOMAIN s = 1..Len(s)
    BY <1>3
  <1>8. vs \in Seq(Visits)
    BY <1>4, <1>5, <1>6, <1>7
  <1> QED BY <1>3, <1>4, <1>5, <1>7, <1>8

\* The directories that are listed are visited next, and they are watched from above.
LEMMA FollowsWalkList ==
    ASSUME DetectionTyped, DirsAreClosed, FollowInv, WalkList
    PROVE  FollowInv'
  <1>1. /\ UNCHANGED <<dirs, gen, blurred, marks, events, batch, watchedPaths, sources, loop, main, found,
                       known, created, deleted, needRescan>>
        /\ todo # <<>> /\ Head(todo).step = "list"
    BY DEF WalkList, Now, Walking, filesystem, kernel, probes
  <1>2. PICK p : p = Head(todo).path
    OBVIOUS
  <1>3. PICK g : g = Head(todo).gen
    OBVIOUS
  <1>4. p \in Paths /\ g \in Nat
    <2>1. Head(todo) \in Visits
      BY <1>1, TailElements DEF DetectionTyped
    <2> QED BY <1>2, <1>3, <2>1 DEF Visits
  <1>5. PICK children : children = IF Exists(<<p, g>>) THEN ChildrenOf(p) ELSE {}
    OBVIOUS
  <1>6. children \subseteq dirs /\ children \subseteq Cgroups /\ \A c \in children : ParentOf(c) = p
    BY <1>5 DEF ChildrenOf, DetectionTyped
  <1>10. PICK vs : vs = [i \in 1..Len(SetToSeq(children)) |-> Visit("stat", SetToSeq(children)[i], 0)]
    OBVIOUS
  <1>11. Continue(vs)
    BY <1>2, <1>3, <1>5, <1>10 DEF WalkList
  <1>12. /\ vs \in Seq(Visits)
         /\ \A j \in DOMAIN vs : \E c \in children : vs[j] = Visit("stat", c, 0)
         /\ \A c \in children : \E j \in DOMAIN vs : vs[j] = Visit("stat", c, 0)
    <2>1. children \in SUBSET Cgroups
      BY <1>6
    <2> QED BY <1>10, <2>1, ListedVisits
  <1>13. VisitRight(Head(todo))
    BY <1>1, <1>11, <1>12, VisitsContinue DEF FollowInv, VisitsRight
  <1>14. LoopOrder'
    BY <1>1, <1>11 DEF FollowInv, LoopOrder, Pending
  <1>15. AliveAreVisited'
    <2>1. ASSUME NEW q \in Alive, Sharp(q), IsPrefix(p, q), p # q
          PROVE  \E j \in DOMAIN vs : IsPrefix(vs[j].path, q) /\ vs[j].step \in {"stat", "add"}
      <3>1. q \in dirs /\ q \in Paths
        BY <1>4, <2>1, PathOrder DEF Alive, DetectionTyped, Paths
      <3>2. PICK y \in ChildrenOf(p) : IsPrefix(y, q)
        BY <1>4, <2>1, <3>1, ClosedPaths
      <3>3. Exists(<<p, g>>)
        <4>1. CASE p = Root
          BY <1>2, <1>3, <1>13, <4>1 DEF VisitRight, Exists
        <4>2. CASE p # Root
          <5>1. p \in dirs
            BY <1>4, <2>1, <4>2, ClosedPaths DEF Alive
          <5>2. Sharp(p)
            BY <1>4, <2>1, <3>1, SharpBelow
          <5>3. ~GoneFrom(p, 0)
            BY <5>1, ClosedPaths DEF GoneFrom, FollowInv, LoopOrder
          <5>4. g = gen[p]
            BY <1>1, <1>2, <1>3, <1>13, <4>2, <5>2, <5>3 DEF VisitRight
          <5> QED BY <5>1, <5>4 DEF Exists
        <4> QED BY <4>1, <4>2
      <3>4. PICK j \in DOMAIN vs : vs[j] = Visit("stat", y, 0)
        BY <1>5, <1>12, <3>2, <3>3
      <3> QED BY <3>2, <3>4 DEF Visit
    <2>2. Head(todo).step \notin {"stat", "add"}
      BY <1>1
    <2> QED BY <1>1, <1>2, <1>11, <1>12, <2>1, <2>2, AliveAreVisitedOn DEF FollowInv
  <1>16. VisitsRight'
    <2>1. ASSUME NEW j \in DOMAIN vs PROVE VisitRight(vs[j])'
      <3>1. PICK c \in children : vs[j] = Visit("stat", c, 0)
        BY <1>12
      <3>2. c \in dirs /\ c \in Cgroups /\ ParentOf(c) = p /\ IsPrefix(p, c) /\ c # Root
        BY <1>6, ParentIsPrefix
      <3>3. Sharp(c) => Marked(p)
        <4>1. CASE p = Root
          BY <1>1, <1>2, <1>13, <4>1 DEF VisitRight
        <4>2. CASE p # Root
          <5>1. SUFFICES ASSUME Sharp(c) PROVE Marked(p)
            OBVIOUS
          <5>2. p \in dirs
            BY <1>4, <3>2, <4>2, ClosedPaths DEF Paths
          <5>3. Sharp(p)
            BY <1>4, <3>2, <5>1, SharpBelow DEF Paths
          <5>4. ~GoneFrom(p, 0)
            BY <5>2, ClosedPaths DEF GoneFrom, FollowInv, LoopOrder
          <5> QED BY <1>1, <1>2, <1>13, <4>2, <5>3, <5>4 DEF VisitRight
        <4> QED BY <4>1, <4>2
      <3>4. Sharp(c)' = Sharp(c) /\ Marked(ParentOf(c))' = Marked(p)
        BY <1>1, <3>2 DEF Sharp, Marked, Directory, ParentOf
      <3> QED BY <1>1, <3>1, <3>2, <3>3, <3>4 DEF VisitRight, Visit
    <2> QED BY <1>1, <1>11, <1>12, <2>1, VisitsRightOn DEF FollowInv
  <1>17. /\ WatchedAreMarked' /\ MarkedFromRoot' /\ RemovedAreTold' /\ AliveNotTold' /\ SourcesAreOpen'
         /\ CreationsRight' /\ WatchedWillBeKnown' /\ KnownAreFollowed' /\ FoundAreAlive' /\ BatchesAgree'
    BY <1>1, WatchedAreMarkedStays, MarkedFromRootStays, RemovedAreToldStays, AliveNotToldStays,
       SourcesAreOpenStays, CreationsRightStays, WatchedWillBeKnownStays, KnownAreFollowedStays,
       FoundAreAliveStays, BatchesAgreeStays DEF FollowInv
  <1> QED BY <1>14, <1>15, <1>16, <1>17 DEF FollowInv

\* When the first event is processed, what was after it still is.
LEMMA CreationsRightShift ==
    ASSUME DetectionTyped, CreationsRight, batch # <<>>, batch' = Tail(batch),
           UNCHANGED <<dirs, gen, blurred, marks, events>>
    PROVE  /\ CreationsRight'
           /\ \A q, i : i \in Nat /\ GoneFrom(q, i + 1) => GoneFrom(q, i)'
  <1>1. /\ \A i \in DOMAIN Pending' : i + 1 \in DOMAIN Pending /\ Pending'[i] = Pending[i + 1]
        /\ \A i \in DOMAIN Pending : i = 1 \/ (i - 1 \in DOMAIN Pending' /\ Pending'[i - 1] = Pending[i])
    BY PendingShrinks
  <1>2. \A q, i : i \in Nat /\ GoneFrom(q, i + 1) => GoneFrom(q, i)'
    <2>1. SUFFICES ASSUME NEW q, NEW i \in Nat, GoneFrom(q, i + 1) PROVE GoneFrom(q, i)'
      OBVIOUS
    <2>2. PICK j \in DOMAIN Pending : j > i + 1 /\ IsPrefix(Pending[j].path, q) /\ Pending[j].path \notin dirs
      BY <2>1 DEF GoneFrom
    <2>3. j \in Int
      BY <2>2, PendingIsBoth
    <2>4. j - 1 \in DOMAIN Pending' /\ Pending'[j - 1] = Pending[j] /\ j - 1 > i
      BY <1>1, <2>1, <2>2, <2>3
    <2> QED BY <2>2, <2>4 DEF GoneFrom
  <1>3. \A q : Sharp(q)' = Sharp(q) /\ Marked(ParentOf(q))' = Marked(ParentOf(q))
    BY DEF Sharp, Marked, Directory, ParentOf
  <1>4. CreationsRight'
    <2>1. SUFFICES ASSUME NEW i \in DOMAIN Pending', NEW e, e = Pending'[i], e.type = "create", Sharp(e.path)
                   PROVE  (e.path \in dirs /\ Marked(ParentOf(e.path))) \/ GoneFrom(e.path, i)'
      BY <1>3 DEF CreationsRight
    <2>2. i \in Nat
      <3>1. i + 1 \in DOMAIN Pending /\ i \in DOMAIN Pending'
        BY <1>1
      <3>2. Pending' \in Seq(PendingEvents)
        BY TailElements DEF DetectionTyped, Pending
      <3> QED BY <3>1, <3>2
    <2>3. (e.path \in dirs /\ Marked(ParentOf(e.path))) \/ GoneFrom(e.path, i + 1)
      BY <1>1, <2>1 DEF CreationsRight
    <2> QED BY <1>2, <2>2, <2>3
  <1> QED BY <1>2, <1>4

\* A creation that is processed becomes a visit.
LEMMA FollowsProcessCreate ==
    ASSUME DetectionTyped, DirsAreClosed, FollowInv, ProcessCreate, loop' # "panicked"
    PROVE  FollowInv'
  <1>1. /\ UNCHANGED <<dirs, gen, blurred, marks, events, watchedPaths, sources, loop, main, found,
                       known, created, deleted, needRescan>>
        /\ loop = "process" /\ todo = <<>> /\ batch # <<>> /\ batch' = Tail(batch)
        /\ Head(batch).type = "create" /\ todo' = <<Visit("stat", Head(batch).path, 0)>>
    BY DEF ProcessCreate, NextEvent, FindWatchedDir, filesystem, kernel, probes
  <1>2. /\ 1 \in DOMAIN Pending /\ 1 \in DOMAIN batch
        /\ Pending[1] = Head(batch) /\ batch[1] = Head(batch) /\ Head(batch) \in PendingEvents
        /\ \A i \in DOMAIN Pending' : i + 1 \in DOMAIN Pending /\ Pending'[i] = Pending[i + 1]
        /\ \A i \in DOMAIN Pending : i = 1 \/ (i - 1 \in DOMAIN Pending' /\ Pending'[i - 1] = Pending[i])
        /\ \A i \in DOMAIN batch' : i + 1 \in DOMAIN batch /\ batch'[i] = batch[i + 1]
    BY <1>1, PendingShrinks
  <1>3. PICK p : p = Head(batch).path
    OBVIOUS
  <1>4. p \in Cgroups /\ p \in Paths
    BY <1>2, <1>3 DEF FollowInv, LoopOrder, Paths
  <1>5. /\ 1 \in DOMAIN todo' /\ todo'[1].path = p /\ todo'[1].step = "stat"
        /\ \A k \in DOMAIN todo' : todo'[k] = Visit("stat", p, 0)
    BY <1>1, <1>3 DEF Visit
  <1>6. \A q : Sharp(q)' = Sharp(q) /\ RemovalComes(q)' = RemovalComes(q)
    <2>1. \A q : Sharp(q)' = Sharp(q)
      BY <1>1 DEF Sharp
    <2>2. ASSUME NEW q, RemovalComes(q) PROVE RemovalComes(q)'
      BY <1>1, <1>2, <2>2 DEF RemovalComes
    <2>3. ASSUME NEW q, RemovalComes(q)' PROVE RemovalComes(q)
      BY <1>2, <2>3 DEF RemovalComes
    <2>4. \A q : RemovalComes(q) \in BOOLEAN /\ RemovalComes(q)' \in BOOLEAN
      BY DEF RemovalComes
    <2> QED BY <2>1, <2>2, <2>3, <2>4
  <1>7. LoopOrder'
    BY <1>1, <1>2 DEF FollowInv, LoopOrder
  <1>8. AliveAreVisited'
    <2>1. SUFFICES ASSUME NEW q \in Alive, Sharp(q), q \notin watchedPaths PROVE ComesTo(q)'
      BY <1>1, <1>6 DEF AliveAreVisited, Alive
    <2>2. PICK x \in Paths :
             IsPrefix(x, q) /\ \E i \in DOMAIN Pending : Pending[i].type = "create" /\ Pending[i].path = x
      BY <1>1, <2>1 DEF FollowInv, AliveAreVisited, ComesTo
    <2>3. PICK i \in DOMAIN Pending : Pending[i].type = "create" /\ Pending[i].path = x
      BY <2>2
    <2>4. CASE i = 1
      BY <1>2, <1>3, <1>5, <2>2, <2>3, <2>4 DEF ComesTo
    <2>5. CASE i # 1
      BY <1>2, <2>2, <2>3, <2>5 DEF ComesTo
    <2> QED BY <2>4, <2>5
  <1>9. RemovedAreTold' /\ AliveNotTold'
    BY <1>1, <1>6 DEF FollowInv, RemovedAreTold, AliveNotTold
  <1>10. CreationsRight' /\ \A q, i : i \in Nat /\ GoneFrom(q, i + 1) => GoneFrom(q, i)'
    BY <1>1, CreationsRightShift DEF FollowInv
  <1>11. \A q : Marked(ParentOf(q))' = Marked(ParentOf(q))
    BY <1>1 DEF Marked, Directory, ParentOf
  <1>12. VisitsRight'
    <2>1. Sharp(p) => (p \in dirs /\ Marked(ParentOf(p))) \/ GoneFrom(p, 1)
      BY <1>1, <1>2, <1>3 DEF FollowInv, CreationsRight
    <2>2. GoneFrom(p, 1) => GoneFrom(p, 0)'
      BY <1>10
    <2>3. p # Root
      BY <1>4, DetectionAssumption
    <2>4. PICK w : w = Visit("stat", p, 0)
      OBVIOUS
    <2>5. VisitRight(w)'
      BY <1>1, <1>6, <1>11, <2>1, <2>2, <2>3, <2>4 DEF VisitRight, Visit
    <2> QED BY <1>5, <2>4, <2>5 DEF VisitsRight
  <1>14. BatchesAgree'
    BY <1>1, <1>2, <1>6 DEF FollowInv, BatchesAgree
  <1>15. /\ WatchedAreMarked' /\ MarkedFromRoot' /\ SourcesAreOpen'
         /\ WatchedWillBeKnown' /\ KnownAreFollowed' /\ FoundAreAlive'
    BY <1>1, WatchedAreMarkedStays, MarkedFromRootStays, SourcesAreOpenStays, WatchedWillBeKnownStays,
       KnownAreFollowedStays, FoundAreAliveStays DEF FollowInv
  <1> QED BY <1>7, <1>8, <1>9, <1>10, <1>12, <1>14, <1>15 DEF FollowInv

\* A removal that is processed unmarks a cgroup that is gone.
LEMMA FollowsProcessRemoval ==
    ASSUME DetectionTyped, DirsAreClosed, FollowInv, ProcessDelete \/ ProcessDeleteSelf, loop' # "panicked"
    PROVE  FollowInv'
  <1>1. /\ UNCHANGED <<dirs, gen, blurred, marks, events, todo, sources, loop, main, found,
                       known, created, needRescan>>
        /\ loop = "process" /\ todo = <<>> /\ batch # <<>> /\ batch' = Tail(batch)
        /\ Head(batch).type \in {"delete", "self"} /\ Unmark(Head(batch).path)
    BY DEF ProcessDelete, ProcessDeleteSelf, NextEvent, FindWatchedDir, filesystem, kernel, probes
  <1>2. /\ 1 \in DOMAIN Pending /\ 1 \in DOMAIN batch
        /\ Pending[1] = Head(batch) /\ batch[1] = Head(batch) /\ Head(batch) \in PendingEvents
        /\ \A i \in DOMAIN Pending' : i + 1 \in DOMAIN Pending /\ Pending'[i] = Pending[i + 1]
        /\ \A i \in DOMAIN Pending : i = 1 \/ (i - 1 \in DOMAIN Pending' /\ Pending'[i - 1] = Pending[i])
        /\ \A i \in DOMAIN batch' : i + 1 \in DOMAIN batch /\ batch'[i] = batch[i + 1]
    BY <1>1, PendingShrinks
  <1>3. PICK p : p = Head(batch).path
    OBVIOUS
  <1>4. p \in Cgroups /\ p # Root /\ dirs \subseteq Cgroups
    BY <1>2, <1>3, DetectionAssumption DEF FollowInv, LoopOrder, DetectionTyped
  <1>5. /\ watchedPaths' = watchedPaths \ {p}
        /\ deleted' = IF p \in watchedPaths THEN deleted \union {p} ELSE deleted
    BY <1>1, <1>3 DEF Unmark
  <1>6. \A q : Sharp(q)' = Sharp(q)
    BY <1>1 DEF Sharp
  <1>7. \A q : /\ RemovalComes(q)' => RemovalComes(q)
               /\ RemovalComes(q) => RemovalComes(q)' \/ q = p
    BY <1>2, <1>3 DEF RemovalComes
  <1>8. RemovalComes(p)
    BY <1>1, <1>2, <1>3 DEF RemovalComes
  <1>9. p \in dirs => ~Sharp(p)
    BY <1>8 DEF FollowInv, AliveNotTold
  <1>10. LoopOrder'
    BY <1>1, <1>2 DEF FollowInv, LoopOrder
  <1>11. AliveAreVisited'
    <2>1. SUFFICES ASSUME NEW q \in Alive, Sharp(q), q \notin watchedPaths' PROVE ComesTo(q)'
      BY <1>1, <1>6 DEF AliveAreVisited, Alive
    <2>2. q \notin watchedPaths
      BY <1>4, <1>5, <1>9, <2>1 DEF Alive
    <2>3. PICK x \in Paths :
             IsPrefix(x, q) /\ \E i \in DOMAIN Pending : Pending[i].type = "create" /\ Pending[i].path = x
      BY <1>1, <2>1, <2>2 DEF FollowInv, AliveAreVisited, ComesTo
    <2>4. PICK i \in DOMAIN Pending : Pending[i].type = "create" /\ Pending[i].path = x
      BY <2>3
    <2>5. i # 1
      BY <1>1, <1>2, <2>4
    <2> QED BY <1>2, <2>3, <2>4, <2>5 DEF ComesTo
  <1>12. WatchedAreMarked'
    BY <1>1, <1>5, <1>6 DEF FollowInv, WatchedAreMarked, Alive, Marked, Directory
  <1>13. RemovedAreTold' /\ AliveNotTold'
    BY <1>1, <1>5, <1>6, <1>7 DEF FollowInv, RemovedAreTold, AliveNotTold
  <1>14. VisitsRight'
    BY <1>1 DEF VisitsRight
  <1>15. CreationsRight'
    BY <1>1, CreationsRightShift DEF FollowInv
  <1>16. WatchedWillBeKnown'
    <2>1. SUFFICES ASSUME NEW q \in dirs, Sharp(q), q \in watchedPaths, q # p
                   PROVE  ScanWillFind(q)' \/ WillBeKnown(q)'
      BY <1>1, <1>5, <1>6 DEF WatchedWillBeKnown
    <2>2. ScanWillFind(q)' = ScanWillFind(q) /\ (WillBeKnown(q) => WillBeKnown(q)')
      BY <1>1, <1>5, <2>1 DEF ScanWillFind, WillBeKnown
    <2> QED BY <2>1, <2>2 DEF FollowInv, WatchedWillBeKnown
  <1>17. KnownAreFollowed'
    <2>1. SUFFICES ASSUME NEW q \in Cgroups, Sharp(q), WillBeKnown(q)'
                   PROVE  q \in watchedPaths' \/ (q \in dirs /\ q \in found)
      BY <1>1, <1>6 DEF KnownAreFollowed
    <2>2. WillBeKnown(q)
      BY <1>1, <1>5, <2>1 DEF WillBeKnown
    <2>3. CASE q # p
      BY <1>5, <2>1, <2>2, <2>3 DEF FollowInv, KnownAreFollowed
    <2>4. CASE q = p
      <3>1. p \notin created
        BY <1>1, <1>2, <1>3, <2>1, <2>4 DEF FollowInv, BatchesAgree
      <3>2. p \notin watchedPaths
        BY <1>1, <1>5, <2>1, <2>4, <3>1 DEF WillBeKnown
      <3> QED BY <2>1, <2>2, <2>4, <3>2 DEF FollowInv, KnownAreFollowed
    <2> QED BY <2>3, <2>4
  <1>18. BatchesAgree'
    BY <1>1, <1>2, <1>5, <1>6 DEF FollowInv, BatchesAgree
  <1>19. MarkedFromRoot' /\ SourcesAreOpen' /\ FoundAreAlive'
    BY <1>1, MarkedFromRootStays, SourcesAreOpenStays, FoundAreAliveStays DEF FollowInv
  <1> QED BY <1>10, <1>11, <1>12, <1>13, <1>14, <1>15, <1>16, <1>17, <1>18, <1>19 DEF FollowInv

\* A removed directory that a source holds is not the one at its path.
LEMMA FollowsSourceStops ==
    ASSUME DetectionTyped, DirsAreClosed, FollowInv, NEW d \in Cgroups \X (1..MaxCreations), SourceStops(d),
           ~overflowed'
    PROVE  FollowInv'
  <1>1. /\ UNCHANGED <<dirs, gen, blurred, todo, batch, watchedPaths, loop, main, found,
                       known, created, deleted, needRescan>>
        /\ d \in sources /\ ~Exists(d) /\ sources' = sources \ {d} /\ marks' = marks \ {d}
        /\ Queued(Watched(d, Event("self", d, d[1])))
    BY DEF SourceStops, filesystem, watch
  <1>2. PICK es : es = Watched(d, Event("self", d, d[1]))
    OBVIOUS
  <1>3. d[1] \in Cgroups /\ d[1] # Root /\ d \in Paths \X Nat /\ d[2] \in Nat
    <2>1. MaxCreations \in Nat
      BY DetectionAssumption
    <2> QED BY <2>1, DetectionAssumption DEF Paths
  <1>4. es \in Seq(PendingEvents) /\ \A j \in DOMAIN es : es[j] = Event("self", d, d[1])
    <2>1. Event("self", d, d[1]) \in PendingEvents
      BY <1>3 DEF Event, PendingEvents, Paths
    <2> QED BY <1>2, <2>1 DEF Watched
  <1>5. events' = events \o es
    BY <1>1, <1>2 DEF Queued
  <1>6. /\ \A i \in DOMAIN Pending : i \in DOMAIN Pending' /\ Pending'[i] = Pending[i]
        /\ \A i \in DOMAIN Pending' :
              (i \in DOMAIN Pending /\ Pending'[i] = Pending[i]) \/ Pending'[i] = Event("self", d, d[1])
    BY <1>1, <1>4, <1>5, PendingGrows
  <1>7. \A q : Sharp(q)' = Sharp(q) /\ Directory(q)' = Directory(q)
    BY <1>1 DEF Sharp, Directory
  <1>8. \A q \in Alive : Marked(q)' = Marked(q)
    <2>1. \A q \in Alive : Directory(q) # d
      <3>1. ASSUME NEW q \in Alive, Directory(q) = d PROVE FALSE
        <4>1. CASE q = Root
          BY <1>3, <3>1, <4>1 DEF Directory
        <4>2. CASE q # Root
          BY <1>1, <3>1, <4>2 DEF Directory, Exists, Alive
        <4> QED BY <4>1, <4>2
      <3> QED BY <3>1
    <2> QED BY <1>1, <1>7, <2>1 DEF Marked
  <1>9. \A q \in dirs : Marked(ParentOf(q))' = Marked(ParentOf(q)) /\ Marked(q)' = Marked(q)
    <2>1. \A q \in dirs : ParentOf(q) \in Alive /\ q \in Alive
      BY ClosedPaths DEF Alive
    <2>2. ASSUME NEW q \in dirs PROVE Marked(ParentOf(q))' = Marked(ParentOf(q))
      <3>1. PICK f : f = ParentOf(q)
        OBVIOUS
      <3> QED BY <1>8, <2>1, <3>1 DEF ParentOf
    <2> QED BY <1>8, <2>1, <2>2
  <1>10. LoopOrder'
    BY <1>1, <1>3, <1>6 DEF FollowInv, LoopOrder, Event
  <1>11. AliveAreVisited'
    BY <1>1, <1>6, <1>7 DEF FollowInv, AliveAreVisited, ComesTo, Alive
  <1>12. WatchedAreMarked' /\ MarkedFromRoot'
    BY <1>1, <1>7, <1>8, <1>9 DEF FollowInv, WatchedAreMarked, MarkedFromRoot, Alive
  <1>13. RemovedAreTold'
    BY <1>1, <1>6, <1>7 DEF FollowInv, RemovedAreTold, RemovalComes
  <1>14. AliveNotTold'
    <2>1. SUFFICES ASSUME NEW q \in dirs, Sharp(q), RemovalComes(q)' PROVE FALSE
      BY <1>1, <1>7 DEF AliveNotTold
    <2>2. RemovalComes(q) \/ q = d[1]
      BY <1>6, <2>1 DEF RemovalComes, Event
    <2>3. q # d[1]
      <3>1. q = d[1] => d = Directory(q) /\ q # Root
        BY <1>1, <1>3, <2>1 DEF FollowInv, SourcesAreOpen
      <3> QED BY <1>1, <2>1, <3>1 DEF Directory, Exists
    <2> QED BY <2>1, <2>2, <2>3 DEF FollowInv, AliveNotTold
  <1>15. SourcesAreOpen'
    BY <1>1, <1>7 DEF FollowInv, SourcesAreOpen
  <1>16. \A q, i : GoneFrom(q, i) => GoneFrom(q, i)'
    BY <1>1, <1>6 DEF GoneFrom
  <1>17. Marked(Root)' = Marked(Root)
    BY <1>8 DEF Alive
  <1>18. VisitsRight'
    BY <1>1, <1>7, <1>9, <1>16, <1>17 DEF FollowInv, VisitsRight, VisitRight
  <1>19. CreationsRight'
    <2>1. SUFFICES ASSUME NEW i \in DOMAIN Pending', NEW e, e = Pending'[i], e.type = "create", Sharp(e.path)
                   PROVE  (e.path \in dirs /\ Marked(ParentOf(e.path))') \/ GoneFrom(e.path, i)'
      BY <1>1, <1>7 DEF CreationsRight, ParentOf, Marked, Directory
    <2>2. i \in DOMAIN Pending /\ Pending[i] = e
      BY <1>6, <2>1 DEF Event
    <2>3. (e.path \in dirs /\ Marked(ParentOf(e.path))) \/ GoneFrom(e.path, i)
      BY <2>1, <2>2 DEF FollowInv, CreationsRight
    <2> QED BY <1>9, <1>16, <2>3
  <1>20. WatchedWillBeKnown' /\ KnownAreFollowed' /\ FoundAreAlive' /\ BatchesAgree'
    BY <1>1, WatchedWillBeKnownStays, KnownAreFollowedStays, FoundAreAliveStays, BatchesAgreeStays DEF FollowInv
  <1> QED BY <1>10, <1>11, <1>12, <1>13, <1>14, <1>15, <1>18, <1>19, <1>20 DEF FollowInv

\* A path that is used again was told removed and forgotten, or it is blurred.
LEMMA FollowsCreateCgroup ==
    ASSUME DetectionTyped, DirsAreClosed, FollowInv, NEW p \in Cgroups, CreateCgroup(p), ~overflowed'
    PROVE  FollowInv'
  <1>1. /\ UNCHANGED <<marks, sources, todo, batch, watchedPaths, loop, main, found,
                       known, created, deleted, needRescan>>
        /\ p \notin dirs /\ ParentOf(p) \in Alive
        /\ dirs' = dirs \union {p} /\ gen' = [gen EXCEPT ![p] = @ + 1]
        /\ blurred' = IF Lingering(p) \/ p \in Untold THEN blurred \union {p} ELSE blurred
        /\ Queued(Watched(Directory(ParentOf(p)), Event("create", Directory(ParentOf(p)), p)))
    BY DEF CreateCgroup, probes, watch, Alive
  <1>2. PICK f : f = ParentOf(p)
    OBVIOUS
  <1>3. PICK es : es = Watched(Directory(f), Event("create", Directory(f), p))
    OBVIOUS
  <1>4. /\ p \in Paths /\ p # Root /\ f \in Paths /\ f \in Alive /\ f # p /\ IsPrefix(f, p)
        /\ \A x \in Paths : IsPrefix(x, p) /\ x # p => IsPrefix(x, f)
    BY <1>1, <1>2, ParentIsPrefix
  <1>5. /\ es \in Seq(PendingEvents) /\ \A j \in DOMAIN es : es[j].type = "create" /\ es[j].path = p
        /\ Marked(f) => 1 \in DOMAIN es
        /\ ~Marked(f) => DOMAIN es = {}
    <2>1. Directory(f) \in Paths \X Nat
      BY <1>4 DEF Directory, Alive, DetectionTyped, Paths
    <2>2. Event("create", Directory(f), p) \in PendingEvents
      BY <1>4, <2>1 DEF Event, PendingEvents
    <2> QED BY <1>3, <2>2 DEF Watched, Marked, Event
  <1>6. events' = events \o es
    BY <1>1, <1>2, <1>3 DEF Queued
  <1>7. /\ \A i \in DOMAIN Pending : i \in DOMAIN Pending' /\ Pending'[i] = Pending[i]
        /\ \A i \in DOMAIN Pending' : (i \in DOMAIN Pending /\ Pending'[i] = Pending[i])
                                      \/ (Pending'[i].type = "create" /\ Pending'[i].path = p /\ Marked(f))
        /\ Marked(f) => \E i \in DOMAIN Pending' : Pending'[i].type = "create" /\ Pending'[i].path = p
    <2>1. /\ \A i \in DOMAIN Pending : i \in DOMAIN Pending' /\ Pending'[i] = Pending[i]
          /\ \A i \in DOMAIN Pending' :
                (i \in DOMAIN Pending /\ Pending'[i] = Pending[i]) \/ \E j \in DOMAIN es : Pending'[i] = es[j]
          /\ \A j \in DOMAIN es : \E i \in DOMAIN Pending' : i > Len(Pending) /\ Pending'[i] = es[j]
      BY <1>1, <1>5, <1>6, PendingGrows
    <2> QED BY <1>5, <2>1
  <1>8. \A q \in Paths : Sharp(q)' => Sharp(q)
    <2>1. blurred \subseteq blurred'
      BY <1>1
    <2> QED BY <2>1, SharpBefore
  <1>9. \A q \in Paths : Sharp(q)' /\ IsPrefix(p, q) => ~Lingering(p) /\ p \notin Untold
    BY <1>1 DEF Sharp
  <1>10. Sharp(p)' => ~Lingering(p) /\ \A i \in DOMAIN Pending : Pending[i].path # p
    BY <1>4, <1>9, PathOrder, PendingIsBoth
  <1>11. /\ Alive' = Alive \union {p} /\ Alive \subseteq Paths /\ Cgroups \subseteq Paths /\ dirs \subseteq Cgroups
         /\ p \notin Alive
    BY <1>1, <1>4 DEF Alive, DetectionTyped, Paths
  <1>12. \A q \in Alive : Directory(q)' = Directory(q) /\ Marked(q)' = Marked(q)
    <2>1. ASSUME NEW q \in Alive PROVE Directory(q)' = Directory(q)
      BY <1>1, <1>11 DEF Directory, DetectionTyped, Alive
    <2> QED BY <1>1, <2>1 DEF Marked
  <1>13. \A q \in dirs : ~IsPrefix(p, q) /\ ParentOf(q) \in Alive /\ q \in Alive
    BY <1>1, ClosedPaths DEF Alive
  <1>14. \A q \in dirs : Marked(ParentOf(q))' = Marked(ParentOf(q))
    <2>1. ASSUME NEW q \in dirs PROVE Marked(ParentOf(q))' = Marked(ParentOf(q))
      <3>1. PICK x : x = ParentOf(q)
        OBVIOUS
      <3> QED BY <1>12, <1>13, <3>1 DEF ParentOf
    <2> QED BY <2>1
  <1>15. Marked(ParentOf(p))' = Marked(f)
    BY <1>2, <1>4, <1>12 DEF ParentOf
  <1>16. ~Marked(p)'
    <2>1. gen[p] \in Nat /\ gen'[p] = gen[p] + 1
      BY <1>1 DEF DetectionTyped
    <2>2. Directory(p)' = <<p, gen'[p]>>
      BY <1>4 DEF Directory
    <2>3. <<p, gen'[p]>> \notin marks
      <3>1. ASSUME <<p, gen'[p]>> \in marks PROVE FALSE
        <4>1. gen'[p] =< gen[p]
          BY <3>1 DEF DetectionTyped
        <4> QED BY <2>1, <4>1
      <3> QED BY <3>1
    <2> QED BY <1>1, <2>2, <2>3 DEF Marked
  <1>17. Sharp(p)' => p \notin watchedPaths
    <2>1. SUFFICES ASSUME Sharp(p)', p \in watchedPaths PROVE FALSE
      OBVIOUS
    <2>2. RemovalComes(p)
      BY <1>1, <1>4, <1>8, <2>1 DEF FollowInv, RemovedAreTold
    <2> QED BY <1>10, <2>1, <2>2 DEF RemovalComes
  <1>18. LoopOrder'
    BY <1>1, <1>7 DEF FollowInv, LoopOrder
  <1>19. \A q : ComesTo(q) => ComesTo(q)'
    BY <1>1, <1>7 DEF ComesTo
  <1>20. AliveAreVisited'
    <2>1. SUFFICES ASSUME NEW q \in Alive', Sharp(q)', q \notin watchedPaths PROVE ComesTo(q)'
      BY <1>1 DEF AliveAreVisited
    <2>2. CASE q # p
      BY <1>8, <1>11, <1>19, <2>1, <2>2 DEF FollowInv, AliveAreVisited
    <2>3. CASE q = p
      <3>1. Sharp(f)
        BY <1>4, <1>8, <2>1, <2>3, SharpBelow
      <3>2. CASE f \in watchedPaths
        <4>1. Marked(f)
          BY <1>4, <3>1, <3>2 DEF FollowInv, WatchedAreMarked
        <4>2. PICK i \in DOMAIN Pending' : Pending'[i].type = "create" /\ Pending'[i].path = p
          BY <1>7, <4>1
        <4> QED BY <1>4, <2>3, <4>2, PathOrder DEF ComesTo
      <3>3. CASE f \notin watchedPaths
        <4>1. ComesTo(f)
          BY <1>4, <3>1, <3>3 DEF FollowInv, AliveAreVisited
        <4>2. PICK x \in Paths :
                 /\ IsPrefix(x, f)
                 /\ \/ \E i \in DOMAIN Pending : Pending[i].type = "create" /\ Pending[i].path = x
                    \/ \E k \in DOMAIN todo : todo[k].path = x /\ (todo[k].step \in {"stat", "add"} \/ x # f)
          BY <4>1 DEF ComesTo
        <4>3. IsPrefix(x, p)
          BY <1>4, <4>2, PathOrder
        <4>4. x # p
          BY <1>4, <1>11, <4>2, ClosedPaths
        <4> QED BY <1>1, <1>7, <2>3, <4>2, <4>3, <4>4 DEF ComesTo
      <3> QED BY <3>2, <3>3
    <2> QED BY <2>2, <2>3
  <1>21. WatchedAreMarked'
    <2>1. SUFFICES ASSUME NEW q \in Alive', Sharp(q)', q \in watchedPaths PROVE Marked(q)'
      BY <1>1 DEF WatchedAreMarked
    <2> QED BY <1>8, <1>11, <1>12, <1>17, <2>1 DEF FollowInv, WatchedAreMarked
  <1>22. MarkedFromRoot'
    <2>1. SUFFICES ASSUME NEW q \in dirs, Sharp(q)', Marked(q)' PROVE Marked(ParentOf(q))'
      BY <1>1, <1>16 DEF MarkedFromRoot
    <2>2. q \in Alive /\ q \in Paths
      BY <1>11, <1>13
    <2>3. Sharp(q) /\ Marked(q)
      BY <1>8, <1>12, <2>1, <2>2
    <2> QED BY <1>14, <2>3 DEF FollowInv, MarkedFromRoot
  <1>23. RemovedAreTold'
    <2>1. SUFFICES ASSUME NEW q \in Cgroups, Sharp(q)', q \in watchedPaths, q \notin dirs PROVE RemovalComes(q)'
      BY <1>1 DEF RemovedAreTold
    <2>2. RemovalComes(q)
      BY <1>8, <1>11, <2>1 DEF FollowInv, RemovedAreTold
    <2> QED BY <1>7, <2>2 DEF RemovalComes
  <1>24. \A q : RemovalComes(q)' => RemovalComes(q)
    BY <1>7 DEF RemovalComes
  <1>25. AliveNotTold'
    <2>1. SUFFICES ASSUME NEW q \in dirs', Sharp(q)', RemovalComes(q) PROVE FALSE
      BY <1>24 DEF AliveNotTold
    <2>2. CASE q = p
      BY <1>10, <2>1, <2>2 DEF RemovalComes
    <2>3. CASE q # p
      BY <1>1, <1>8, <1>11, <2>1, <2>3 DEF FollowInv, AliveNotTold
    <2> QED BY <2>2, <2>3
  <1>26. SourcesAreOpen'
    <2>1. SUFFICES ASSUME NEW q \in dirs', Sharp(q)', NEW d \in sources, d[1] = q PROVE d = Directory(q)'
      BY <1>1 DEF SourcesAreOpen
    <2>2. CASE q # p
      BY <1>1, <1>8, <1>11, <1>12, <1>13, <2>1, <2>2 DEF FollowInv, SourcesAreOpen
    <2>3. CASE q = p
      <3>1. Exists(d)
        BY <1>10, <2>1, <2>3 DEF Lingering
      <3> QED BY <1>1, <1>4, <2>1, <2>3, <3>1 DEF Exists
    <2> QED BY <2>2, <2>3
  \* What was gone is not what comes back.
  <1>27. \A q \in Paths : \A i : Sharp(q)' /\ GoneFrom(q, i) => GoneFrom(q, i)'
    <2>1. SUFFICES ASSUME NEW q \in Paths, NEW i, Sharp(q)', GoneFrom(q, i) PROVE GoneFrom(q, i)'
      OBVIOUS
    <2>2. PICK j \in DOMAIN Pending : j > i /\ IsPrefix(Pending[j].path, q) /\ Pending[j].path \notin dirs
      BY <2>1 DEF GoneFrom
    <2>3. Pending[j].path # p
      BY <1>9, <2>1, <2>2, PendingIsBoth
    <2> QED BY <1>1, <1>7, <2>2, <2>3 DEF GoneFrom
  <1>28. Sharp(p)' => \A i : ~GoneFrom(p, i)
    <2>1. SUFFICES ASSUME Sharp(p)', NEW j \in DOMAIN Pending, IsPrefix(Pending[j].path, p),
                          Pending[j].path \notin dirs
                   PROVE  FALSE
      BY DEF GoneFrom
    <2>2. Pending[j].path \in Cgroups /\ Pending[j].path # p
      BY <1>10, <2>1 DEF FollowInv, LoopOrder
    <2>3. IsPrefix(Pending[j].path, f)
      BY <1>4, <1>11, <2>1, <2>2
    <2>4. Pending[j].path \in Alive
      BY <1>4, <1>11, <2>2, <2>3, ClosedPaths
    <2> QED BY <2>1, <2>2, <2>4, DetectionAssumption DEF Alive
  <1>29. VisitsRight'
    <2>1. SUFFICES ASSUME NEW k \in DOMAIN todo, NEW v, v = todo[k] PROVE VisitRight(v)'
      BY <1>1 DEF VisitsRight, VisitRight
    <2>2. VisitRight(v)
      BY <2>1 DEF FollowInv, VisitsRight
    <2>3. CASE v.path = Root
      <3>1. Marked(Root)' = Marked(Root)
        BY <1>12 DEF Alive
      <3> QED BY <2>2, <2>3, <3>1 DEF VisitRight
    <2>4. CASE v.path # Root
      <3>1. SUFFICES ASSUME Sharp(v.path)'
                     PROVE  \/ /\ v.path \in dirs' /\ Marked(ParentOf(v.path))'
                               /\ v.step # "stat" => v.gen = gen'[v.path]
                               /\ v.step = "list" => Marked(v.path)'
                            \/ GoneFrom(v.path, 0)'
        BY <2>4 DEF VisitRight
      <3>2. v.path \in Paths
        <4>1. v \in Visits
          BY <2>1 DEF DetectionTyped
        <4> QED BY <4>1 DEF Visits
      <3>3. CASE GoneFrom(v.path, 0)
        BY <1>27, <3>1, <3>2, <3>3
      <3>4. CASE ~GoneFrom(v.path, 0)
        <4>1. /\ v.path \in dirs /\ Marked(ParentOf(v.path))
              /\ v.step # "stat" => v.gen = gen[v.path]
              /\ v.step = "list" => Marked(v.path)
          BY <1>8, <2>2, <2>4, <3>1, <3>2, <3>4 DEF VisitRight
        <4>2. gen'[v.path] = gen[v.path]
          BY <1>1, <1>11, <4>1 DEF DetectionTyped
        <4>3. Marked(v.path)' = Marked(v.path) /\ Marked(ParentOf(v.path))' = Marked(ParentOf(v.path))
          BY <1>12, <1>13, <1>14, <4>1
        <4> QED BY <1>1, <4>1, <4>2, <4>3
      <3> QED BY <3>3, <3>4
    <2> QED BY <2>3, <2>4
  <1>30. CreationsRight'
    <2>1. SUFFICES ASSUME NEW i \in DOMAIN Pending', NEW c, c = Pending'[i].path, Pending'[i].type = "create",
                          Sharp(c)'
                   PROVE  (c \in dirs' /\ Marked(ParentOf(c))') \/ GoneFrom(c, i)'
      BY DEF CreationsRight, ParentOf, Marked, Directory, Sharp, GoneFrom
    <2>2. CASE c = p /\ Marked(f)
      BY <1>1, <1>15, <2>2
    <2>3. CASE i \in DOMAIN Pending /\ Pending'[i] = Pending[i]
      <3>1. c \in Cgroups
        BY <2>1, <2>3 DEF FollowInv, LoopOrder
      <3>2. (c \in dirs /\ Marked(ParentOf(c))) \/ GoneFrom(c, i)
        BY <1>8, <1>11, <2>1, <2>3, <3>1 DEF FollowInv, CreationsRight
      <3> QED BY <1>1, <1>11, <1>14, <1>27, <2>1, <3>1, <3>2
    <2> QED BY <1>7, <2>1, <2>2, <2>3
  <1>31. \A q : (WillBeKnown(q)' <=> WillBeKnown(q)) /\ (ScanWillFind(q)' <=> ScanWillFind(q))
    BY <1>1 DEF WillBeKnown, ScanWillFind
  <1>32. WatchedWillBeKnown'
    <2>1. SUFFICES ASSUME NEW q \in dirs', Sharp(q)', q \in watchedPaths PROVE ScanWillFind(q) \/ WillBeKnown(q)
      BY <1>1, <1>31 DEF WatchedWillBeKnown
    <2> QED BY <1>1, <1>8, <1>11, <1>17, <2>1 DEF FollowInv, WatchedWillBeKnown
  <1>33. KnownAreFollowed'
    <2>1. SUFFICES ASSUME NEW q \in Cgroups, Sharp(q)', WillBeKnown(q)
                   PROVE  q \in watchedPaths \/ (q \in dirs' /\ q \in found)
      BY <1>1, <1>31 DEF KnownAreFollowed
    <2> QED BY <1>1, <1>8, <1>11, <2>1 DEF FollowInv, KnownAreFollowed
  <1>34. FoundAreAlive'
    <2>1. SUFFICES ASSUME NEW q \in found, Sharp(q)', main = "register" PROVE q \in dirs'
      BY <1>1 DEF FoundAreAlive
    <2>2. Sharp(q)
      BY <1>1, <2>1 DEF Sharp
    <2> QED BY <1>1, <2>1, <2>2 DEF FollowInv, FoundAreAlive
  <1>35. BatchesAgree'
    <2>1. \A q : Sharp(q)' => Sharp(q)
      BY <1>1 DEF Sharp
    <2> QED BY <1>1, <1>17, <2>1 DEF FollowInv, BatchesAgree
  <1> QED BY <1>18, <1>20, <1>21, <1>22, <1>23, <1>25, <1>26, <1>29, <1>30, <1>32, <1>33, <1>34, <1>35 DEF FollowInv

\* A removal is told by the watch of the parent, which every watched cgroup has.
LEMMA FollowsRemoveCgroup ==
    ASSUME DetectionTyped, DirsAreClosed, FollowInv, NEW p \in Cgroups, RemoveCgroup(p), ~overflowed'
    PROVE  FollowInv'
  <1> DEFINE delete == Watched(Directory(ParentOf(p)), Event("delete", Directory(ParentOf(p)), p))
             self == IF Directory(p) \in sources THEN <<>>
                     ELSE Watched(Directory(p), Event("self", Directory(p), p))
  <1>1. /\ UNCHANGED <<gen, sources, todo, batch, watchedPaths, loop, main, found,
                       known, created, deleted, needRescan>>
        /\ p \in dirs /\ ChildrenOf(p) = {}
        /\ dirs' = dirs \ {p} /\ marks \ {Directory(p)} \subseteq marks' /\ marks' \subseteq marks
        /\ blurred' = IF p \in found /\ (main = "register" \/ p \notin watchedPaths)
                      THEN blurred \union {p} ELSE blurred
        /\ Queued(delete \o self) \/ Queued(self \o delete)
    BY DEF RemoveCgroup, probes, watch
  <1>2. PICK f : f = ParentOf(p)
    OBVIOUS
  <1>3. /\ p \in Paths /\ p # Root /\ f \in Paths /\ f \in Alive /\ f # p /\ p \in Alive
    BY <1>1, <1>2, ParentIsPrefix, ClosedPaths DEF Alive
  <1>4. /\ delete \in Seq(PendingEvents) /\ self \in Seq(PendingEvents)
        /\ \A j \in DOMAIN delete : delete[j].type \in {"delete", "self"} /\ delete[j].path = p
        /\ \A j \in DOMAIN self : self[j].type \in {"delete", "self"} /\ self[j].path = p
        /\ Marked(f) => 1 \in DOMAIN delete
    <2>1. Directory(f) \in Paths \X Nat /\ Directory(p) \in Paths \X Nat
      BY <1>3 DEF Directory, Alive, DetectionTyped, Paths
    <2>2. Event("delete", Directory(f), p) \in PendingEvents /\ Event("self", Directory(p), p) \in PendingEvents
      BY <1>3, <2>1 DEF Event, PendingEvents
    <2> QED BY <1>2, <2>2 DEF Watched, Marked, Event
  <1> HIDE DEF delete, self
  <1>5. PICK es : events' = events \o es /\ (es = delete \o self \/ es = self \o delete)
    BY <1>1 DEF Queued
  <1>6. /\ es \in Seq(PendingEvents)
        /\ \A j \in DOMAIN es : es[j].type \in {"delete", "self"} /\ es[j].path = p
        /\ Marked(f) => \E j \in DOMAIN es : TRUE
    <2>1. /\ delete \o self \in Seq(PendingEvents)
          /\ \A j \in DOMAIN (delete \o self) :
                (delete \o self)[j].type \in {"delete", "self"} /\ (delete \o self)[j].path = p
          /\ Marked(f) => \E j \in DOMAIN (delete \o self) : TRUE
      BY <1>4, Concatenation
    <2>2. /\ self \o delete \in Seq(PendingEvents)
          /\ \A j \in DOMAIN (self \o delete) :
                (self \o delete)[j].type \in {"delete", "self"} /\ (self \o delete)[j].path = p
          /\ Marked(f) => \E j \in DOMAIN (self \o delete) : TRUE
      BY <1>4, Concatenation
    <2> QED BY <1>5, <2>1, <2>2
  <1>7. /\ \A i \in DOMAIN Pending : i \in DOMAIN Pending' /\ Pending'[i] = Pending[i]
        /\ \A i \in DOMAIN Pending' :
              \/ i \in DOMAIN Pending /\ Pending'[i] = Pending[i]
              \/ Pending'[i].type \in {"delete", "self"} /\ Pending'[i].path = p
        /\ Marked(f) => \E i \in DOMAIN Pending' :
              i > Len(Pending) /\ Pending'[i].type \in {"delete", "self"} /\ Pending'[i].path = p
    <2>1. /\ \A i \in DOMAIN Pending : i \in DOMAIN Pending' /\ Pending'[i] = Pending[i]
          /\ \A i \in DOMAIN Pending' :
                (i \in DOMAIN Pending /\ Pending'[i] = Pending[i]) \/ \E j \in DOMAIN es : Pending'[i] = es[j]
          /\ \A j \in DOMAIN es : \E i \in DOMAIN Pending' : i > Len(Pending) /\ Pending'[i] = es[j]
      BY <1>1, <1>5, <1>6, PendingGrows
    <2> QED BY <1>6, <2>1
  <1>8. \A q : Sharp(q)' => Sharp(q)
    BY <1>1 DEF Sharp
  <1>9. /\ Alive' = Alive \ {p} /\ Alive \subseteq Paths /\ Cgroups \subseteq Paths /\ dirs \subseteq Cgroups
    BY <1>1, <1>3 DEF Alive, DetectionTyped, Paths
  <1>10. \A q \in dirs' : ~IsPrefix(p, q) /\ ParentOf(q) \in Alive /\ ParentOf(q) # p /\ q # p /\ q \in dirs
    <2>1. \A q \in dirs : ParentOf(q) # p
      BY <1>1 DEF ChildrenOf
    <2>2. ASSUME NEW q \in dirs', IsPrefix(p, q) PROVE FALSE
      BY <1>1, <1>3, <2>2, ClosedPaths
    <2> QED BY <1>1, <2>1, <2>2, ClosedPaths
  <1>11. \A q : Directory(q)' = Directory(q)
    BY <1>1 DEF Directory
  <1>12. \A q \in Paths : q # p => Marked(q)' = Marked(q)
    <2>1. \A q \in Paths : Directory(q) = Directory(p) => q = p
      BY <1>3 DEF Directory
    <2> QED BY <1>1, <1>11, <2>1 DEF Marked
  <1>13. \A q \in dirs' : Marked(q)' = Marked(q) /\ Marked(ParentOf(q))' = Marked(ParentOf(q))
    <2>1. ASSUME NEW q \in dirs' PROVE Marked(ParentOf(q))' = Marked(ParentOf(q))
      <3>1. PICK x : x = ParentOf(q)
        OBVIOUS
      <3> QED BY <1>9, <1>10, <1>12, <3>1 DEF ParentOf
    <2>2. ASSUME NEW q \in dirs' PROVE Marked(q)' = Marked(q)
      BY <1>9, <1>10, <1>12
    <2> QED BY <2>1, <2>2
  <1>14. Marked(Root)' = Marked(Root)
    BY <1>3, <1>12 DEF Paths
  <1>15. LoopOrder'
    BY <1>1, <1>7 DEF FollowInv, LoopOrder
  <1>16. AliveAreVisited'
    <2>1. \A q : ComesTo(q) => ComesTo(q)'
      BY <1>1, <1>7 DEF ComesTo
    <2> QED BY <1>1, <1>8, <1>9, <2>1 DEF FollowInv, AliveAreVisited
  <1>17. WatchedAreMarked'
    BY <1>1, <1>8, <1>9, <1>12 DEF FollowInv, WatchedAreMarked
  <1>18. MarkedFromRoot'
    BY <1>8, <1>10, <1>13 DEF FollowInv, MarkedFromRoot
  <1>19. RemovedAreTold'
    <2>1. SUFFICES ASSUME NEW q \in Cgroups, Sharp(q)', q \in watchedPaths, q \notin dirs'
                   PROVE  RemovalComes(q)'
      BY <1>1 DEF RemovedAreTold
    <2>2. CASE q # p
      <3>1. RemovalComes(q)
        BY <1>1, <1>8, <2>1, <2>2 DEF FollowInv, RemovedAreTold
      <3> QED BY <1>7, <3>1 DEF RemovalComes
    <2>3. CASE q = p
      <3>1. Marked(p)
        BY <1>3, <1>8, <2>1, <2>3 DEF FollowInv, WatchedAreMarked
      <3>2. Marked(f)
        BY <1>1, <1>2, <1>8, <2>1, <2>3, <3>1 DEF FollowInv, MarkedFromRoot
      <3> QED BY <1>7, <2>3, <3>2 DEF RemovalComes
    <2> QED BY <2>2, <2>3
  <1>20. AliveNotTold'
    <2>1. SUFFICES ASSUME NEW q \in dirs', Sharp(q)', RemovalComes(q)' PROVE FALSE
      BY DEF AliveNotTold
    <2>2. RemovalComes(q)
      BY <1>7, <1>10, <2>1 DEF RemovalComes
    <2> QED BY <1>8, <1>10, <2>1, <2>2 DEF FollowInv, AliveNotTold
  <1>21. SourcesAreOpen'
    BY <1>1, <1>8, <1>10, <1>11 DEF FollowInv, SourcesAreOpen
  <1>22. \A q, i : GoneFrom(q, i) => GoneFrom(q, i)'
    BY <1>1, <1>7 DEF GoneFrom
  <1>23. Marked(f) => \A i : i = 0 \/ i \in DOMAIN Pending => GoneFrom(p, i)'
    <2>1. SUFFICES ASSUME Marked(f), NEW i, i = 0 \/ i \in DOMAIN Pending PROVE GoneFrom(p, i)'
      OBVIOUS
    <2>2. PICK j \in DOMAIN Pending' : j > Len(Pending) /\ Pending'[j].path = p
      BY <1>7, <2>1
    <2>3. p \notin dirs' /\ IsPrefix(p, p)
      BY <1>1, <1>3, PathOrder
    <2>4. Pending' \in Seq(PendingEvents)
      <3>1. events' \in Seq(PendingEvents)
        BY <1>5, <1>6, Concatenation DEF DetectionTyped
      <3>2. batch' \in Seq(PendingEvents)
        BY <1>1 DEF DetectionTyped
      <3> QED BY <3>1, <3>2, Concatenation DEF Pending
    <2>5. j \in Int /\ Len(Pending) \in Nat /\ (i = 0 \/ (i \in Int /\ i =< Len(Pending)))
      BY <2>1, <2>2, <2>4, PendingIsBoth
    <2>6. j > i
      BY <2>2, <2>5
    <2> QED BY <2>2, <2>3, <2>6 DEF GoneFrom
  <1>24. VisitsRight'
    <2>1. SUFFICES ASSUME NEW k \in DOMAIN todo, NEW v, v = todo[k] PROVE VisitRight(v)'
      BY <1>1 DEF VisitsRight, VisitRight
    <2>2. VisitRight(v)
      BY <2>1 DEF FollowInv, VisitsRight
    <2>3. CASE v.path = Root
      BY <1>14, <2>2, <2>3 DEF VisitRight
    <2>4. CASE v.path # Root
      <3>1. SUFFICES ASSUME Sharp(v.path)', ~GoneFrom(v.path, 0)'
                     PROVE  /\ v.path \in dirs' /\ Marked(ParentOf(v.path))'
                            /\ v.step # "stat" => v.gen = gen'[v.path]
                            /\ v.step = "list" => Marked(v.path)'
        BY <2>4 DEF VisitRight
      <3>2. /\ v.path \in dirs /\ Marked(ParentOf(v.path))
            /\ v.step # "stat" => v.gen = gen[v.path]
            /\ v.step = "list" => Marked(v.path)
        BY <1>8, <1>22, <2>2, <2>4, <3>1 DEF VisitRight
      <3>3. v.path # p
        BY <1>2, <1>23, <3>1, <3>2
      <3>4. v.path \in dirs'
        BY <1>1, <3>2, <3>3
      <3> QED BY <1>1, <1>13, <3>2, <3>4
    <2> QED BY <2>3, <2>4
  <1>25. CreationsRight'
    <2>1. SUFFICES ASSUME NEW i \in DOMAIN Pending', NEW c, c = Pending'[i].path, Pending'[i].type = "create",
                          Sharp(c)', ~GoneFrom(c, i)'
                   PROVE  c \in dirs' /\ Marked(ParentOf(c))'
      BY DEF CreationsRight, ParentOf, Marked, Directory, Sharp, GoneFrom
    <2>2. i \in DOMAIN Pending /\ Pending'[i] = Pending[i]
      BY <1>7, <2>1
    <2>3. c \in dirs /\ Marked(ParentOf(c))
      BY <1>8, <1>22, <2>1, <2>2 DEF FollowInv, CreationsRight
    <2>4. c # p
      BY <1>2, <1>23, <2>1, <2>2, <2>3
    <2>5. c \in dirs'
      BY <1>1, <2>3, <2>4
    <2> QED BY <1>13, <2>3, <2>5
  <1>26. \A q : (WillBeKnown(q)' <=> WillBeKnown(q)) /\ (ScanWillFind(q)' <=> ScanWillFind(q))
    BY <1>1 DEF WillBeKnown, ScanWillFind
  <1>27. WatchedWillBeKnown'
    <2>1. SUFFICES ASSUME NEW q \in dirs', Sharp(q)', q \in watchedPaths PROVE ScanWillFind(q) \/ WillBeKnown(q)
      BY <1>1, <1>26 DEF WatchedWillBeKnown
    <2> QED BY <1>8, <1>10, <2>1 DEF FollowInv, WatchedWillBeKnown
  <1>28. Sharp(p)' => ~(p \in found /\ (main = "register" \/ p \notin watchedPaths))
    BY <1>1, <1>3, PathOrder DEF Sharp
  <1>29. KnownAreFollowed'
    <2>1. SUFFICES ASSUME NEW q \in Cgroups, Sharp(q)', WillBeKnown(q)
                   PROVE  q \in watchedPaths \/ (q \in dirs' /\ q \in found)
      BY <1>1, <1>26 DEF KnownAreFollowed
    <2>2. q \in watchedPaths \/ (q \in dirs /\ q \in found)
      BY <1>8, <2>1 DEF FollowInv, KnownAreFollowed
    <2> QED BY <1>1, <1>28, <2>1, <2>2
  <1>30. FoundAreAlive'
    <2>1. SUFFICES ASSUME NEW q \in found, Sharp(q)', main = "register" PROVE q \in dirs'
      BY <1>1 DEF FoundAreAlive
    <2> QED BY <1>1, <1>8, <1>28, <2>1 DEF FollowInv, FoundAreAlive
  <1>31. BatchesAgree'
    BY <1>1, <1>8, <1>10 DEF FollowInv, BatchesAgree
  <1> QED BY <1>15, <1>16, <1>17, <1>18, <1>19, <1>20, <1>21, <1>24, <1>25, <1>27, <1>29, <1>30, <1>31 DEF FollowInv

-------------------------------------------------------------------------------
(* The detection of the cgroups: the types.                                   *)

\* What is not touched keeps its type.
LEMMA TypedStays ==
    ASSUME DetectionTyped, UNCHANGED <<dirs, blurred, gen, events, batch, todo, sources, marks>>
    PROVE  DetectionTyped'
  BY DEF DetectionTyped

\* The kernel queues events.
LEMMA QueuedTyped ==
    ASSUME DetectionTyped, NEW es \in Seq(PendingEvents), Queued(es)
    PROVE  events' \in Seq(PendingEvents)
  <1>1. Event("overflow", Root, Root) \in PendingEvents
    BY DEF Event, PendingEvents, Paths
  <1>2. events \in Seq(PendingEvents)
    BY DEF DetectionTyped
  <1>3. PICK o : o = Event("overflow", Root, Root)
    OBVIOUS
  <1>4. events \o es \in Seq(PendingEvents)
    BY <1>2, Concatenation
  <1>5. Append(events, o) \in Seq(PendingEvents)
    BY <1>1, <1>2, <1>3
  <1>6. events' = events \o es \/ events' = Append(events, o)
    BY <1>3 DEF Queued
  <1> QED BY <1>4, <1>5, <1>6

\* A directory.
LEMMA DirectoryTyped ==
    ASSUME DetectionTyped
    PROVE  /\ \A p \in Alive : Directory(p) \in Paths \X Nat
           /\ \A p \in dirs : Directory(p) \in Cgroups \X Nat /\ Directory(p) = <<p, gen[p]>>
           /\ \A p \in Paths : Directory(p)[1] = p
  <1>1. \A p \in dirs : p \in Cgroups /\ p # Root /\ gen[p] \in Nat
    BY DetectionAssumption DEF DetectionTyped
  <1> QED BY <1>1 DEF Directory, Alive, Paths

\* A creation keeps the types.
LEMMA TypedCreate ==
    ASSUME DetectionTyped, NEW p \in Cgroups, CreateCgroup(p)
    PROVE  DetectionTyped'
  <1>1. /\ UNCHANGED <<marks, sources, todo, batch>>
        /\ ParentOf(p) \in Alive
        /\ dirs' = dirs \union {p} /\ gen' = [gen EXCEPT ![p] = @ + 1]
        /\ blurred' \in {blurred, blurred \union {p}}
        /\ Queued(Watched(Directory(ParentOf(p)), Event("create", Directory(ParentOf(p)), p)))
    BY DEF CreateCgroup, probes, watch, Alive
  <1>2. PICK es : es = Watched(Directory(ParentOf(p)), Event("create", Directory(ParentOf(p)), p))
    OBVIOUS
  <1>3. es \in Seq(PendingEvents)
    <2>1. Event("create", Directory(ParentOf(p)), p) \in PendingEvents
      BY <1>1, DirectoryTyped DEF Event, PendingEvents, Paths
    <2> QED BY <1>2, <2>1 DEF Watched
  <1>4. events' \in Seq(PendingEvents)
    BY <1>1, <1>2, <1>3, QueuedTyped
  <1>5. gen' \in [Cgroups -> Nat] /\ \A x \in Cgroups : gen[x] \in Nat /\ gen[x] =< gen'[x]
    BY <1>1 DEF DetectionTyped
  <1>6. \A d \in marks' : d[1] \in Cgroups => d[2] =< gen'[d[1]]
    <2>1. SUFFICES ASSUME NEW d \in marks, d[1] \in Cgroups PROVE d[2] =< gen'[d[1]]
      BY <1>1
    <2>2. d[2] =< gen[d[1]] /\ d[2] \in Nat
      BY <2>1 DEF DetectionTyped
    <2>3. gen[d[1]] \in Nat /\ gen'[d[1]] \in Nat /\ gen[d[1]] =< gen'[d[1]]
      BY <1>5, <2>1
    <2> QED BY <2>2, <2>3
  <1> QED BY <1>1, <1>4, <1>5, <1>6 DEF DetectionTyped

\* A removal keeps the types.
LEMMA TypedRemove ==
    ASSUME DetectionTyped, DirsAreClosed, NEW p \in Cgroups, RemoveCgroup(p)
    PROVE  DetectionTyped'
  <1> DEFINE delete == Watched(Directory(ParentOf(p)), Event("delete", Directory(ParentOf(p)), p))
             self == IF Directory(p) \in sources THEN <<>>
                     ELSE Watched(Directory(p), Event("self", Directory(p), p))
  <1>1. /\ UNCHANGED <<gen, sources, todo, batch>>
        /\ p \in dirs /\ dirs' = dirs \ {p} /\ marks' \subseteq marks
        /\ blurred' \in {blurred, blurred \union {p}}
        /\ Queued(delete \o self) \/ Queued(self \o delete)
    BY DEF RemoveCgroup, probes, watch
  <1>2. delete \in Seq(PendingEvents) /\ self \in Seq(PendingEvents)
    <2>1. Directory(ParentOf(p)) \in Paths \X Nat /\ Directory(p) \in Paths \X Nat
      BY <1>1, DirectoryTyped, ClosedPaths DEF Alive
    <2>2. /\ Event("delete", Directory(ParentOf(p)), p) \in PendingEvents
          /\ Event("self", Directory(p), p) \in PendingEvents
      BY <2>1 DEF Event, PendingEvents, Paths
    <2> QED BY <2>2 DEF Watched
  <1> HIDE DEF delete, self
  <1>3. PICK es : Queued(es) /\ (es = delete \o self \/ es = self \o delete)
    BY <1>1
  <1>4. events' \in Seq(PendingEvents)
    BY <1>2, <1>3, Concatenation, QueuedTyped
  <1> QED BY <1>1, <1>4 DEF DetectionTyped

\* The end of a source keeps the types.
LEMMA TypedSourceStops ==
    ASSUME DetectionTyped, NEW d \in Cgroups \X (1..MaxCreations), SourceStops(d)
    PROVE  DetectionTyped'
  <1>1. /\ UNCHANGED <<dirs, gen, blurred, todo, batch>>
        /\ sources' = sources \ {d} /\ marks' = marks \ {d}
        /\ Queued(Watched(d, Event("self", d, d[1])))
    BY DEF SourceStops, filesystem, watch
  <1>2. PICK es : es = Watched(d, Event("self", d, d[1]))
    OBVIOUS
  <1>3. es \in Seq(PendingEvents)
    <2>1. MaxCreations \in Nat
      BY DetectionAssumption
    <2>2. Event("self", d, d[1]) \in PendingEvents
      BY <2>1 DEF Event, PendingEvents, Paths
    <2> QED BY <1>2, <2>2 DEF Watched
  <1>4. events' \in Seq(PendingEvents)
    BY <1>1, <1>2, <1>3, QueuedTyped
  <1> QED BY <1>1, <1>4 DEF DetectionTyped

\* The walk keeps the types.
LEMMA TypedWalks ==
    ASSUME DetectionTyped, WalkStat \/ WalkAdd \/ WalkList
    PROVE  DetectionTyped'
  <1>1. /\ UNCHANGED <<dirs, gen, blurred, events, batch, sources>> /\ todo # <<>>
    BY DEF WalkStat, WalkAdd, WalkList, Now, Walking, filesystem, kernel, probes
  <1>2. PICK p, g : p = Head(todo).path /\ g = Head(todo).gen
    OBVIOUS
  <1>3. p \in Paths /\ g \in Nat
    <2>1. Head(todo) \in Visits
      BY <1>1, TailElements DEF DetectionTyped
    <2> QED BY <1>2, <2>1 DEF Visits
  <1>4. marks' \subseteq Paths \X Nat /\ \A d \in marks' : d[1] \in Cgroups => d[2] =< gen[d[1]]
    <2>1. marks' = marks \/ (p \in Alive /\ marks' = marks \union {Directory(p)})
      BY <1>2 DEF WalkStat, WalkAdd, WalkList, kernel, Alive
    <2>2. p \in Alive => /\ Directory(p) \in Paths \X Nat
                         /\ Directory(p)[1] \in Cgroups => Directory(p)[2] =< gen[Directory(p)[1]]
      <3>1. CASE p = Root
        BY <3>1, DetectionAssumption DEF Directory, Paths
      <3>2. CASE p \in dirs
        <4>1. Directory(p) = <<p, gen[p]>> /\ gen[p] \in Nat /\ Directory(p) \in Paths \X Nat
          BY <3>2, DirectoryTyped DEF DetectionTyped, Alive
        <4> QED BY <4>1
      <3> QED BY <3>1, <3>2 DEF Alive
    <2> QED BY <2>1, <2>2 DEF DetectionTyped
  <1>5. PICK vs : Continue(vs) /\ vs \in Seq(Visits)
    <2>1. CASE WalkStat
      <3>1. PICK h : h = Directory(p)[2]
        OBVIOUS
      <3>2. p \in Alive => Visit("add", p, h) \in Visits
        <4>1. p \in Alive => h \in Nat
          BY <3>1, DirectoryTyped
        <4> QED BY <1>3, <4>1 DEF Visit, Visits
      <3>3. IF p \in Alive THEN Continue(<<Visit("add", p, h)>>) ELSE Continue(<<>>)
        BY <1>2, <2>1, <3>1 DEF WalkStat, Alive, Continue
      <3>4. PICK v : v = Visit("add", p, h)
        OBVIOUS
      <3>5. p \in Alive => <<v>> \in Seq(Visits)
        BY <3>2, <3>4
      <3>6. CASE p \in Alive
        BY <3>3, <3>4, <3>5, <3>6
      <3>7. CASE p \notin Alive
        <4>1. Continue(<<>>) /\ <<>> \in Seq(Visits)
          BY <3>3, <3>7
        <4> QED BY <4>1
      <3> QED BY <3>6, <3>7
    <2>2. CASE WalkAdd
      <3>1. Visit("list", p, g) \in Visits
        BY <1>3 DEF Visit, Visits
      <3>2. Continue(<<Visit("list", p, g)>>)
        BY <1>2, <2>2 DEF WalkAdd, Then
      <3>3. <<Visit("list", p, g)>> \in Seq(Visits)
        BY <3>1
      <3> QED BY <3>2, <3>3
    <2>3. CASE WalkList
      <3>1. PICK children : children = IF Exists(<<p, g>>) THEN ChildrenOf(p) ELSE {}
        OBVIOUS
      <3>2. children \in SUBSET Cgroups
        BY <3>1 DEF ChildrenOf, DetectionTyped
      <3>3. PICK vs : vs = [i \in 1..Len(SetToSeq(children)) |-> Visit("stat", SetToSeq(children)[i], 0)]
        OBVIOUS
      <3>4. Continue(vs)
        BY <1>2, <2>3, <3>1, <3>3 DEF WalkList
      <3> QED BY <3>2, <3>3, <3>4, ListedVisits
    <2> QED BY <2>1, <2>2, <2>3
  <1>6. todo' \in Seq(Visits)
    BY <1>1, <1>5, VisitsContinue
  <1> QED BY <1>1, <1>4, <1>6 DEF DetectionTyped

\* Reading and processing events keeps the types.
LEMMA TypedEvents ==
    ASSUME DetectionTyped,
           ReadEvents \/ ProcessCreate \/ ProcessDelete \/ ProcessDeleteSelf \/ ProcessOverflow
    PROVE  DetectionTyped'
  <1>1. UNCHANGED <<dirs, gen, blurred, sources, marks>>
    BY DEF ReadEvents, ProcessCreate, ProcessDelete, ProcessDeleteSelf, ProcessOverflow, filesystem, probes, kernel
  <1>2. events \in Seq(PendingEvents) /\ batch \in Seq(PendingEvents) /\ todo \in Seq(Visits)
    BY DEF DetectionTyped
  <1>3. events' \in Seq(PendingEvents) /\ batch' \in Seq(PendingEvents) /\ todo' \in Seq(Visits)
    <2>1. CASE ReadEvents
      <3>1. PICK n \in 1..Len(events) :
               /\ batch' = SubSeq(events, 1, n) /\ events' = SubSeq(events, n + 1, Len(events)) /\ todo' = todo
        BY <2>1 DEF ReadEvents
      <3> QED BY <1>2, <3>1
    <2>2. CASE ~ReadEvents
      <3>1. events' = events /\ batch # <<>> /\ batch' = Tail(batch)
        BY <2>2 DEF ProcessCreate, ProcessDelete, ProcessDeleteSelf, ProcessOverflow, NextEvent, kernel
      <3>2. Head(batch) \in PendingEvents /\ batch' \in Seq(PendingEvents)
        BY <1>2, <3>1, TailElements
      <3>3. Visit("stat", Head(batch).path, 0) \in Visits
        BY <3>2 DEF Visit, Visits, PendingEvents
      <3>4. todo' = todo \/ todo' = <<Visit("stat", Head(batch).path, 0)>>
        BY <2>2 DEF ProcessCreate, ProcessDelete, ProcessDeleteSelf, ProcessOverflow
      <3>5. PICK v : v = Visit("stat", Head(batch).path, 0)
        OBVIOUS
      <3>6. <<v>> \in Seq(Visits)
        BY <3>3, <3>5
      <3> QED BY <1>2, <3>1, <3>2, <3>4, <3>5, <3>6
    <2> QED BY <2>1, <2>2
  <1> QED BY <1>1, <1>3 DEF DetectionTyped

\* Registering cgroups keeps the types.
LEMMA TypedRegister ==
    ASSUME DetectionTyped,
           HandleCreated \/ Rescan \/ RegisterFound \/ PollingRefresh
    PROVE  DetectionTyped'
  <1>1. UNCHANGED <<dirs, gen, blurred, events, marks, batch, todo>>
    BY DEF HandleCreated, Rescan, RegisterFound, PollingRefresh, filesystem, kernel, watch
  <1>2. \A d \in sources' : d \in sources \/ \E p \in dirs : d = Directory(p)
    BY DEF HandleCreated, Rescan, RegisterFound, PollingRefresh, UpdateCgroups, RegisterCgroups,
           OnCgroupsCreated, probes
  <1>3. sources' \subseteq Cgroups \X Nat
    BY <1>2, DirectoryTyped DEF DetectionTyped
  <1> QED BY <1>1, <1>3 DEF DetectionTyped

\* The other steps touch nothing that is typed.
LEMMA TypedRest ==
    ASSUME DetectionTyped,
           StartThread \/ EndBatch \/ HandleDeleted \/ FullScan
    PROVE  DetectionTyped'
  BY TypedStays DEF StartThread, EndBatch, HandleDeleted, FullScan, filesystem, kernel, probes, watch

\* Existing paths are closed: no directory is created without its parent, nor removed
\* before its children.
LEMMA ClosedStep ==
    ASSUME DetectionTyped, DirsAreClosed, DetectionNext
    PROVE  DirsAreClosed'
  <1>1. ASSUME NEW p \in Cgroups, CreateCgroup(p) PROVE DirsAreClosed'
    <2>1. dirs' = dirs \union {p} /\ ParentOf(p) \in Alive
      BY <1>1 DEF CreateCgroup, Alive
    <2>2. Len(p) \in Nat \ {0} /\ Len(ParentOf(p)) = Len(p) - 1
          /\ \A n \in 1..(Len(p) - 1) : SubSeq(ParentOf(p), 1, n) = SubSeq(p, 1, n)
      BY ParentIsPrefix
    <2>3. SubSeq(p, 1, Len(p)) = p
      <3>1. p \in Paths
        BY DEF Paths
      <3>2. IsPrefix(p, p)
        BY <3>1, PathOrder
      <3> QED BY <3>1, <3>2, PrefixIsBeginning
    <2>4. ASSUME NEW n \in 1..Len(p) PROVE SubSeq(p, 1, n) \in dirs'
      <3>1. CASE n = Len(p)
        BY <2>1, <2>3, <3>1
      <3>2. CASE n # Len(p)
        <4>1. n \in 1..(Len(p) - 1) /\ Len(p) - 1 # 0
          BY <2>2, <3>2
        <4>2. ParentOf(p) \in dirs
          <5>1. Len(Root) = 0
            BY DEF Root
          <5> QED BY <2>1, <2>2, <4>1, <5>1 DEF Alive
        <4> QED BY <2>1, <2>2, <4>1, <4>2 DEF DirsAreClosed
      <3> QED BY <3>1, <3>2
    <2> QED BY <2>1, <2>4 DEF DirsAreClosed
  <1>2. ASSUME NEW p \in Cgroups, RemoveCgroup(p) PROVE DirsAreClosed'
    <2>1. dirs' = dirs \ {p} /\ p \in dirs /\ ChildrenOf(p) = {}
      BY <1>2 DEF RemoveCgroup
    <2>2. SUFFICES ASSUME NEW q \in dirs, q # p, NEW n \in 1..Len(q), SubSeq(q, 1, n) = p PROVE FALSE
      BY <2>1 DEF DirsAreClosed
    <2>3. q \in Paths /\ p \in Paths
      BY DEF DetectionTyped, Paths
    <2>4. IsPrefix(p, q)
      <3>1. p \in Seq(PathNames) /\ q \in Seq(PathNames)
        BY <2>3, PathsAreSequences
      <3>2. n \in Nat /\ n =< Len(q)
        BY <2>2, <3>1
      <3>3. Len(p) = n /\ \A i \in 1..n : p[i] = q[i]
        BY <2>2, <3>1, <3>2, BeginningByNames
      <3> QED BY <3>1, <3>2, <3>3, PrefixByNames
    <2> QED BY <2>1, <2>2, <2>3, <2>4, ClosedPaths
  <1>3. ASSUME UNCHANGED dirs PROVE DirsAreClosed'
    BY <1>3 DEF DirsAreClosed
  <1>4. (\E p \in Cgroups : CreateCgroup(p) \/ RemoveCgroup(p)) \/ UNCHANGED dirs
    BY DEF DetectionNext, SourceStops, WalkStat, WalkAdd, WalkList, StartThread, ReadEvents, ProcessCreate,
           ProcessDelete, ProcessDeleteSelf, ProcessOverflow, EndBatch, HandleDeleted, HandleCreated, Rescan,
           FullScan, RegisterFound, PollingRefresh, filesystem
  <1> QED BY <1>1, <1>2, <1>3, <1>4

-------------------------------------------------------------------------------
(* The detection of the cgroups: every step.                                  *)

\* The invariant holds at the start.
LEMMA DetectionInitInv == DetectionInit => DetectionInv
  <1> SUFFICES ASSUME DetectionInit PROVE DetectionInv
    OBVIOUS
  <1>1. /\ dirs = {} /\ gen = [p \in Cgroups |-> 0] /\ marks = {} /\ events = <<>> /\ sources = {}
        /\ loop = "setup" /\ batch = <<>> /\ needRescan = FALSE /\ created = {} /\ deleted = {}
        /\ todo = IF mode = "inotify" THEN <<Visit("stat", Root, 0)>> ELSE <<>>
        /\ watchedPaths = {} /\ found = {} /\ known = {} /\ blurred = {}
        /\ mode = "inotify" => main = "setup"
    BY DEF DetectionInit
  <1>2. Visit("stat", Root, 0) \in Visits
    BY DEF Visit, Visits, Paths
  <1>3. DetectionTyped
    BY <1>1, <1>2 DEF DetectionTyped
  <1>4. DirsAreClosed
    BY <1>1 DEF DirsAreClosed
  <1>5. PollingHasNoLoop
    BY <1>1 DEF PollingHasNoLoop
  <1>6. ASSUME mode = "inotify" PROVE FollowInv
    <2>1. DOMAIN Pending = {}
      BY <1>1 DEF Pending
    <2>2. 1 \in DOMAIN todo /\ \A k \in DOMAIN todo : todo[k] = Visit("stat", Root, 0)
      BY <1>1, <1>6
    <2>3. LoopOrder
      BY <1>1, <1>6, <2>1 DEF LoopOrder
    <2>4. AliveAreVisited
      <3>1. IsPrefix(Root, Root) /\ Root \in Paths
        BY PathOrder DEF Paths
      <3> QED BY <1>1, <2>2, <3>1 DEF AliveAreVisited, Alive, ComesTo, Visit
    <2>5. VisitsRight
      BY <2>2 DEF VisitsRight, VisitRight, Visit
    <2>6. CreationsRight
      BY <2>1 DEF CreationsRight
    <2>7. KnownAreFollowed
      BY <1>1 DEF KnownAreFollowed, WillBeKnown
    <2>8. /\ WatchedAreMarked /\ MarkedFromRoot /\ RemovedAreTold /\ AliveNotTold /\ SourcesAreOpen
          /\ WatchedWillBeKnown /\ FoundAreAlive /\ BatchesAgree
      BY <1>1 DEF WatchedAreMarked, MarkedFromRoot, RemovedAreTold, AliveNotTold, SourcesAreOpen,
                  WatchedWillBeKnown, FoundAreAlive, BatchesAgree
    <2> QED BY <2>3, <2>4, <2>5, <2>6, <2>7, <2>8 DEF FollowInv
  <1> QED BY <1>3, <1>4, <1>5, <1>6 DEF DetectionInv

\* A detector that keeps up after a step kept up before it.
LEMMA FollowedBefore ==
    ASSUME DetectionNext, Follows'
    PROVE  Follows
  <1>1. \A es : Queued(es) /\ ~overflowed' => ~overflowed
    BY DEF Queued
  <1>2. ~overflowed
    <2>1. overflowed' = overflowed \/ \E es : Queued(es)
      BY DEF DetectionNext, CreateCgroup, RemoveCgroup, SourceStops, WalkStat, WalkAdd, WalkList, StartThread,
             ReadEvents, ProcessCreate, ProcessDelete, ProcessDeleteSelf, ProcessOverflow, EndBatch,
             HandleDeleted, HandleCreated, Rescan, FullScan, RegisterFound, PollingRefresh
    <2> QED BY <1>1, <2>1 DEF Follows
  <1>3. loop' = loop \/ loop # "panicked"
    BY DEF DetectionNext, CreateCgroup, RemoveCgroup, SourceStops, WalkStat, WalkAdd, WalkList, StartThread,
           ReadEvents, ProcessCreate, ProcessDelete, ProcessDeleteSelf, ProcessOverflow, EndBatch, NextEvent,
           HandleDeleted, HandleCreated, Rescan, FullScan, RegisterFound, PollingRefresh, watch
  <1> QED BY <1>2, <1>3 DEF Follows

\* The detector keeps up, step by step.
LEMMA FollowsStep ==
    ASSUME DetectionTyped, DirsAreClosed, FollowInv, mode = "inotify", DetectionNext, Follows'
    PROVE  FollowInv'
  <1>1. ~overflowed' /\ loop' # "panicked"
    BY DEF Follows
  <1>2. ASSUME NEW p \in Cgroups, CreateCgroup(p) PROVE FollowInv'
    BY <1>1, <1>2, FollowsCreateCgroup
  <1>3. ASSUME NEW p \in Cgroups, RemoveCgroup(p) PROVE FollowInv'
    BY <1>1, <1>3, FollowsRemoveCgroup
  <1>4. ASSUME NEW d \in Cgroups \X (1..MaxCreations), SourceStops(d) PROVE FollowInv'
    BY <1>1, <1>4, FollowsSourceStops
  <1>5. CASE WalkStat
    BY <1>5, FollowsWalkStat
  <1>6. CASE WalkAdd
    BY <1>6, FollowsWalkAdd
  <1>7. CASE WalkList
    BY <1>7, FollowsWalkList
  <1>8. CASE StartThread
    BY <1>8, FollowsStartThread
  <1>9. CASE ReadEvents
    BY <1>9, FollowsReadEvents
  <1>10. CASE ProcessCreate
    BY <1>1, <1>10, FollowsProcessCreate
  <1>11. CASE ProcessDelete \/ ProcessDeleteSelf
    BY <1>1, <1>11, FollowsProcessRemoval
  <1>12. CASE ProcessOverflow
    <2>1. /\ batch # <<>> /\ Head(batch).type = "overflow" /\ batch' = Tail(batch) /\ events' = events
      BY <1>12 DEF ProcessOverflow, NextEvent, kernel
    <2>2. 1 \in DOMAIN Pending /\ Pending[1] = Head(batch)
      BY <2>1, PendingShrinks
    <2> QED BY <2>1, <2>2 DEF FollowInv, LoopOrder
  <1>13. CASE EndBatch
    BY <1>13, FollowsEndBatch
  <1>14. CASE HandleDeleted
    BY <1>14, FollowsHandleDeleted
  <1>15. CASE HandleCreated
    BY <1>15, FollowsHandleCreated
  <1>16. CASE Rescan
    BY <1>16 DEF Rescan, FollowInv, LoopOrder
  <1>17. CASE FullScan
    BY <1>17, FollowsFullScan
  <1>18. CASE RegisterFound
    BY <1>18, FollowsRegisterFound
  <1>19. CASE PollingRefresh
    BY <1>19 DEF PollingRefresh
  <1> QED BY <1>2, <1>3, <1>4, <1>5, <1>6, <1>7, <1>8, <1>9, <1>10, <1>11, <1>12, <1>13, <1>14, <1>15,
             <1>16, <1>17, <1>18, <1>19 DEF DetectionNext

\* Every step keeps the types.
LEMMA TypedStep ==
    ASSUME DetectionTyped, DirsAreClosed, DetectionNext
    PROVE  DetectionTyped'
  <1>1. ASSUME NEW p \in Cgroups, CreateCgroup(p) PROVE DetectionTyped'
    BY <1>1, TypedCreate
  <1>2. ASSUME NEW p \in Cgroups, RemoveCgroup(p) PROVE DetectionTyped'
    BY <1>2, TypedRemove
  <1>3. ASSUME NEW d \in Cgroups \X (1..MaxCreations), SourceStops(d) PROVE DetectionTyped'
    BY <1>3, TypedSourceStops
  <1>4. CASE WalkStat \/ WalkAdd \/ WalkList
    BY <1>4, TypedWalks
  <1>5. CASE ReadEvents \/ ProcessCreate \/ ProcessDelete \/ ProcessDeleteSelf \/ ProcessOverflow
    BY <1>5, TypedEvents
  <1>6. CASE HandleCreated \/ Rescan \/ RegisterFound \/ PollingRefresh
    BY <1>6, TypedRegister
  <1>7. CASE StartThread \/ EndBatch \/ HandleDeleted \/ FullScan
    BY <1>7, TypedRest
  <1> QED BY <1>1, <1>2, <1>3, <1>4, <1>5, <1>6, <1>7 DEF DetectionNext

\* The mode never changes, and without inotify the watch loop never starts.
LEMMA PollingStep ==
    ASSUME PollingHasNoLoop, DetectionNext
    PROVE  PollingHasNoLoop' /\ mode' = mode
  <1>1. mode' = mode
    BY DEF DetectionNext, CreateCgroup, RemoveCgroup, SourceStops, WalkStat, WalkAdd, WalkList, StartThread,
           ReadEvents, ProcessCreate, ProcessDelete, ProcessDeleteSelf, ProcessOverflow, EndBatch,
           HandleDeleted, HandleCreated, Rescan, FullScan, RegisterFound, PollingRefresh
  <1>2. SUFFICES ASSUME mode # "inotify", loop = "setup", todo = <<>> PROVE loop' = "setup" /\ todo' = <<>>
    BY <1>1 DEF PollingHasNoLoop
  <1> QED BY <1>2 DEF DetectionNext, CreateCgroup, RemoveCgroup, SourceStops, WalkStat, WalkAdd, WalkList,
           StartThread, ReadEvents, ProcessCreate, ProcessDelete, ProcessDeleteSelf, ProcessOverflow, EndBatch,
           HandleDeleted, HandleCreated, Rescan, FullScan, RegisterFound, PollingRefresh, NextEvent, Now,
           Walking, watch

\* Every step preserves the invariant.
LEMMA DetectionStep == DetectionInv /\ [DetectionNext]_detectionVars => DetectionInv'
  <1> SUFFICES ASSUME DetectionInv, [DetectionNext]_detectionVars PROVE DetectionInv'
    OBVIOUS
  <1>1. DetectionTyped /\ DirsAreClosed /\ PollingHasNoLoop /\ (mode = "inotify" /\ Follows => FollowInv)
    BY DEF DetectionInv
  <1>2. CASE DetectionNext
    <2>1. DetectionTyped'
      BY <1>1, <1>2, TypedStep
    <2>2. DirsAreClosed'
      BY <1>1, <1>2, ClosedStep
    <2>3. PollingHasNoLoop' /\ mode' = mode
      BY <1>1, <1>2, PollingStep
    <2>4. ASSUME mode' = "inotify", Follows' PROVE FollowInv'
      <3>1. FollowInv /\ mode = "inotify"
        BY <1>1, <1>2, <2>3, <2>4, FollowedBefore
      <3> QED BY <1>1, <1>2, <2>4, <3>1, FollowsStep
    <2> QED BY <2>1, <2>2, <2>3, <2>4 DEF DetectionInv
  <1>3. CASE UNCHANGED detectionVars
    <2>1. /\ UNCHANGED <<mode, dirs, gen, marks, events, sources, loop, todo, batch, created, deleted, needRescan>>
          /\ UNCHANGED <<watchedPaths, main, found, known, blurred, overflowed>>
      BY <1>3 DEF detectionVars, filesystem, kernel, probes, watch
    <2>2. DetectionTyped' /\ DirsAreClosed' /\ PollingHasNoLoop' /\ (Follows' => Follows)
      BY <1>1, <2>1, TypedStays DEF DirsAreClosed, PollingHasNoLoop, Follows
    <2>3. ASSUME FollowInv PROVE FollowInv'
      <3>1. /\ AliveAreVisited' /\ WatchedAreMarked' /\ MarkedFromRoot' /\ RemovedAreTold' /\ AliveNotTold'
            /\ VisitsRight' /\ CreationsRight'
        BY <2>1, <2>3, SightsStay
      <3>2. LoopOrder'
        BY <2>1, <2>3 DEF FollowInv, LoopOrder, Pending
      <3>3. /\ SourcesAreOpen' /\ WatchedWillBeKnown' /\ KnownAreFollowed' /\ FoundAreAlive' /\ BatchesAgree'
        BY <2>1, <2>3, SourcesAreOpenStays, WatchedWillBeKnownStays, KnownAreFollowedStays,
           FoundAreAliveStays, BatchesAgreeStays DEF FollowInv
      <3> QED BY <3>1, <3>2, <3>3 DEF FollowInv
    <2> QED BY <1>1, <2>1, <2>2, <2>3 DEF DetectionInv
  <1> QED BY <1>2, <1>3

\* With nothing left to tell about it and nothing left to visit, what is followed is what is known.
LEMMA KnownIsAliveHolds == DetectionInv => KnownIsAlive
  <1> SUFFICES ASSUME DetectionInv, Settled, ~overflowed, NEW p \in Cgroups, Sharp(p) /\ ~LeftUnread(p)
               PROVE  p \in known <=> p \in dirs
    BY DEF KnownIsAlive
  <1>1. main = "done" /\ loop = "poll"
    BY DEF Settled
  <1>2. FollowInv
    BY <1>1 DEF DetectionInv, PollingHasNoLoop, Follows
  <1>3. /\ todo = <<>> /\ DOMAIN Pending = DOMAIN events
        /\ \A i \in DOMAIN Pending : Pending[i] = events[i] /\ ~IsPrefix(Pending[i].path, p)
    <2>1. todo = <<>> /\ batch = <<>> /\ events \in Seq(PendingEvents)
      BY <1>1, <1>2 DEF FollowInv, LoopOrder, DetectionInv, DetectionTyped
    <2>2. batch \o events = events
      BY <2>1
    <2>3. Pending = events
      BY <2>2 DEF Pending
    <2>4. \A i \in DOMAIN events : ~IsPrefix(events[i].path, p)
      BY DEF LeftUnread
    <2> QED BY <2>1, <2>3, <2>4
  <1>4. WillBeKnown(p) <=> p \in known
    BY <1>1 DEF WillBeKnown
  <1>5. ASSUME p \in dirs PROVE p \in known
    <2>1. ~ComesTo(p)
      BY <1>3 DEF ComesTo
    <2>2. p \in watchedPaths
      BY <1>2, <1>5, <2>1 DEF FollowInv, AliveAreVisited, Alive
    <2> QED BY <1>1, <1>2, <1>4, <1>5, <2>2 DEF FollowInv, WatchedWillBeKnown, ScanWillFind
  <1>6. ASSUME p \in known PROVE p \in dirs
    <2>1. p \in watchedPaths \/ p \in dirs
      BY <1>2, <1>4, <1>6 DEF FollowInv, KnownAreFollowed
    <2>2. ~RemovalComes(p)
      BY <1>3, PathOrder DEF RemovalComes, Paths
    <2> QED BY <1>2, <2>1, <2>2 DEF FollowInv, RemovedAreTold
  <1> QED BY <1>5, <1>6

\* When the detector waits, it knows the cgroups that exist and no other, but for the changes that
\* it has not read and the windows recorded in blurred, for every hierarchy of paths, number of
\* creations, size of the event queue and size of a read.
THEOREM DetectionKeepsUp == DetectionSpec => []KnownIsAlive
  BY DetectionInitInv, DetectionStep, KnownIsAliveHolds, PTL DEF DetectionSpec

-------------------------------------------------------------------------------
(* All the sources: each of them runs as it does alone.                       *)

\* A step of a component leaves the others alone.
LEMMA OnlyOne ==
    /\ RunDetection => OnlyDetection
    /\ RunProbe => OnlyProbe
    /\ RunRapl => OnlyRapl
    /\ RunNvml => OnlyNvml
    /\ RunAmd => OnlyAmd
    /\ RunReactor => OnlyReactor
    /\ RunK8s => OnlyK8s
    /\ RunProcwatch => OnlyProcwatch
    /\ RunProcprobe => OnlyProcprobe
    /\ RunQuarch => OnlyQuarch
    /\ RunKwollect => OnlyKwollect
  <1>1. RunDetection => OnlyDetection
    BY DEF RunDetection
  <1>2. RunProbe => OnlyProbe
    BY DEF RunProbe
  <1>3. RunRapl => OnlyRapl
    BY DEF RunRapl
  <1>4. RunNvml => OnlyNvml
    BY DEF RunNvml
  <1>5. RunAmd => OnlyAmd
    BY DEF RunAmd
  <1>6. RunReactor => OnlyReactor
    BY DEF RunReactor
  <1>7. RunK8s => OnlyK8s
    BY DEF RunK8s
  <1>8. RunProcwatch => OnlyProcwatch
    BY DEF RunProcwatch
  <1>9. RunProcprobe => OnlyProcprobe
    BY DEF RunProcprobe
  <1>10. RunQuarch => OnlyQuarch
    BY DEF RunQuarch
  <1>11. RunKwollect => OnlyKwollect
    BY DEF RunKwollect
  <1> QED BY <1>1, <1>2, <1>3, <1>4, <1>5, <1>6, <1>7, <1>8, <1>9, <1>10, <1>11

\* What Rapl does among the others is what it does alone.
LEMMA SourcesRunRapl == SourcesSpec => RaplSpec
  <1>1. SourcesInit => RaplInit
    BY DEF SourcesInit
  <1>2. [SourcesNext]_sourcesVars => [RaplNext]_raplVars
    <2> SUFFICES ASSUME [SourcesNext]_sourcesVars PROVE RaplNext \/ UNCHANGED raplVars
      OBVIOUS
    <2>1. CASE RunRapl
      BY <2>1 DEF RunRapl, RaplNext
    <2>2. CASE UNCHANGED sourcesVars
      BY <2>2 DEF sourcesVars
    <2>3. CASE RunDetection
      BY <2>3, OnlyOne DEF OnlyDetection
    <2>4. CASE RunProbe
      BY <2>4, OnlyOne DEF OnlyProbe
    <2>5. CASE RunNvml
      BY <2>5, OnlyOne DEF OnlyNvml
    <2>6. CASE RunAmd
      BY <2>6, OnlyOne DEF OnlyAmd
    <2>7. CASE RunReactor
      BY <2>7, OnlyOne DEF OnlyReactor
    <2>8. CASE RunK8s
      BY <2>8, OnlyOne DEF OnlyK8s
    <2>9. CASE RunProcwatch
      BY <2>9, OnlyOne DEF OnlyProcwatch
    <2>10. CASE RunProcprobe
      BY <2>10, OnlyOne DEF OnlyProcprobe
    <2>11. CASE RunQuarch
      BY <2>11, OnlyOne DEF OnlyQuarch
    <2>12. CASE RunKwollect
      BY <2>12, OnlyOne DEF OnlyKwollect
    <2> QED BY <2>1, <2>2, <2>3, <2>4, <2>5, <2>6, <2>7, <2>8, <2>9, <2>10, <2>11, <2>12 DEF SourcesNext
  <1> QED BY <1>1, <1>2, PTL DEF SourcesSpec, RaplSpec

\* What Nvml does among the others is what it does alone.
LEMMA SourcesRunNvml == SourcesSpec => NvmlSpec
  <1>1. SourcesInit => NvmlInit
    BY DEF SourcesInit
  <1>2. [SourcesNext]_sourcesVars => [NvmlNext]_nvmlVars
    <2> SUFFICES ASSUME [SourcesNext]_sourcesVars PROVE NvmlNext \/ UNCHANGED nvmlVars
      OBVIOUS
    <2>1. CASE RunNvml
      BY <2>1 DEF RunNvml, NvmlNext
    <2>2. CASE UNCHANGED sourcesVars
      BY <2>2 DEF sourcesVars
    <2>3. CASE RunDetection
      BY <2>3, OnlyOne DEF OnlyDetection
    <2>4. CASE RunProbe
      BY <2>4, OnlyOne DEF OnlyProbe
    <2>5. CASE RunRapl
      BY <2>5, OnlyOne DEF OnlyRapl
    <2>6. CASE RunAmd
      BY <2>6, OnlyOne DEF OnlyAmd
    <2>7. CASE RunReactor
      BY <2>7, OnlyOne DEF OnlyReactor
    <2>8. CASE RunK8s
      BY <2>8, OnlyOne DEF OnlyK8s
    <2>9. CASE RunProcwatch
      BY <2>9, OnlyOne DEF OnlyProcwatch
    <2>10. CASE RunProcprobe
      BY <2>10, OnlyOne DEF OnlyProcprobe
    <2>11. CASE RunQuarch
      BY <2>11, OnlyOne DEF OnlyQuarch
    <2>12. CASE RunKwollect
      BY <2>12, OnlyOne DEF OnlyKwollect
    <2> QED BY <2>1, <2>2, <2>3, <2>4, <2>5, <2>6, <2>7, <2>8, <2>9, <2>10, <2>11, <2>12 DEF SourcesNext
  <1> QED BY <1>1, <1>2, PTL DEF SourcesSpec, NvmlSpec

\* What Amd does among the others is what it does alone.
LEMMA SourcesRunAmd == SourcesSpec => AmdSpec
  <1>1. SourcesInit => AmdInit
    BY DEF SourcesInit
  <1>2. [SourcesNext]_sourcesVars => [AmdNext]_amdVars
    <2> SUFFICES ASSUME [SourcesNext]_sourcesVars PROVE AmdNext \/ UNCHANGED amdVars
      OBVIOUS
    <2>1. CASE RunAmd
      BY <2>1 DEF RunAmd, AmdNext
    <2>2. CASE UNCHANGED sourcesVars
      BY <2>2 DEF sourcesVars
    <2>3. CASE RunDetection
      BY <2>3, OnlyOne DEF OnlyDetection
    <2>4. CASE RunProbe
      BY <2>4, OnlyOne DEF OnlyProbe
    <2>5. CASE RunRapl
      BY <2>5, OnlyOne DEF OnlyRapl
    <2>6. CASE RunNvml
      BY <2>6, OnlyOne DEF OnlyNvml
    <2>7. CASE RunReactor
      BY <2>7, OnlyOne DEF OnlyReactor
    <2>8. CASE RunK8s
      BY <2>8, OnlyOne DEF OnlyK8s
    <2>9. CASE RunProcwatch
      BY <2>9, OnlyOne DEF OnlyProcwatch
    <2>10. CASE RunProcprobe
      BY <2>10, OnlyOne DEF OnlyProcprobe
    <2>11. CASE RunQuarch
      BY <2>11, OnlyOne DEF OnlyQuarch
    <2>12. CASE RunKwollect
      BY <2>12, OnlyOne DEF OnlyKwollect
    <2> QED BY <2>1, <2>2, <2>3, <2>4, <2>5, <2>6, <2>7, <2>8, <2>9, <2>10, <2>11, <2>12 DEF SourcesNext
  <1> QED BY <1>1, <1>2, PTL DEF SourcesSpec, AmdSpec

\* What CgroupProbe does among the others is what it does alone.
LEMMA SourcesRunCgroupProbe == SourcesSpec => CgroupProbeSpec
  <1>1. SourcesInit => CgroupProbeInit
    BY DEF SourcesInit
  <1>2. [SourcesNext]_sourcesVars => [CgroupProbeNext]_cgroupProbeVars
    <2> SUFFICES ASSUME [SourcesNext]_sourcesVars PROVE CgroupProbeNext \/ UNCHANGED cgroupProbeVars
      OBVIOUS
    <2>1. CASE RunProbe
      BY <2>1 DEF RunProbe, CgroupProbeNext
    <2>2. CASE UNCHANGED sourcesVars
      BY <2>2 DEF sourcesVars
    <2>3. CASE RunDetection
      BY <2>3, OnlyOne DEF OnlyDetection
    <2>4. CASE RunRapl
      BY <2>4, OnlyOne DEF OnlyRapl
    <2>5. CASE RunNvml
      BY <2>5, OnlyOne DEF OnlyNvml
    <2>6. CASE RunAmd
      BY <2>6, OnlyOne DEF OnlyAmd
    <2>7. CASE RunReactor
      BY <2>7, OnlyOne DEF OnlyReactor
    <2>8. CASE RunK8s
      BY <2>8, OnlyOne DEF OnlyK8s
    <2>9. CASE RunProcwatch
      BY <2>9, OnlyOne DEF OnlyProcwatch
    <2>10. CASE RunProcprobe
      BY <2>10, OnlyOne DEF OnlyProcprobe
    <2>11. CASE RunQuarch
      BY <2>11, OnlyOne DEF OnlyQuarch
    <2>12. CASE RunKwollect
      BY <2>12, OnlyOne DEF OnlyKwollect
    <2> QED BY <2>1, <2>2, <2>3, <2>4, <2>5, <2>6, <2>7, <2>8, <2>9, <2>10, <2>11, <2>12 DEF SourcesNext
  <1> QED BY <1>1, <1>2, PTL DEF SourcesSpec, CgroupProbeSpec

\* What ProcWatcher does among the others is what it does alone.
LEMMA SourcesRunProcWatcher == SourcesSpec => ProcWatcherSpec
  <1>1. SourcesInit => ProcWatcherInit
    BY DEF SourcesInit
  <1>2. [SourcesNext]_sourcesVars => [ProcWatcherNext]_procWatcherVars
    <2> SUFFICES ASSUME [SourcesNext]_sourcesVars PROVE ProcWatcherNext \/ UNCHANGED procWatcherVars
      OBVIOUS
    <2>1. CASE RunProcwatch
      BY <2>1 DEF RunProcwatch, ProcWatcherNext
    <2>2. CASE UNCHANGED sourcesVars
      BY <2>2 DEF sourcesVars
    <2>3. CASE RunDetection
      BY <2>3, OnlyOne DEF OnlyDetection
    <2>4. CASE RunProbe
      BY <2>4, OnlyOne DEF OnlyProbe
    <2>5. CASE RunRapl
      BY <2>5, OnlyOne DEF OnlyRapl
    <2>6. CASE RunNvml
      BY <2>6, OnlyOne DEF OnlyNvml
    <2>7. CASE RunAmd
      BY <2>7, OnlyOne DEF OnlyAmd
    <2>8. CASE RunReactor
      BY <2>8, OnlyOne DEF OnlyReactor
    <2>9. CASE RunK8s
      BY <2>9, OnlyOne DEF OnlyK8s
    <2>10. CASE RunProcprobe
      BY <2>10, OnlyOne DEF OnlyProcprobe
    <2>11. CASE RunQuarch
      BY <2>11, OnlyOne DEF OnlyQuarch
    <2>12. CASE RunKwollect
      BY <2>12, OnlyOne DEF OnlyKwollect
    <2> QED BY <2>1, <2>2, <2>3, <2>4, <2>5, <2>6, <2>7, <2>8, <2>9, <2>10, <2>11, <2>12 DEF SourcesNext
  <1> QED BY <1>1, <1>2, PTL DEF SourcesSpec, ProcWatcherSpec

\* What ProcProbes does among the others is what it does alone.
LEMMA SourcesRunProcProbes == SourcesSpec => ProcProbesSpec
  <1>1. SourcesInit => ProcProbesInit
    BY DEF SourcesInit
  <1>2. [SourcesNext]_sourcesVars => [ProcProbesNext]_procProbeVars
    <2> SUFFICES ASSUME [SourcesNext]_sourcesVars PROVE ProcProbesNext \/ UNCHANGED procProbeVars
      OBVIOUS
    <2>1. CASE RunProcprobe
      BY <2>1 DEF RunProcprobe, ProcProbesNext
    <2>2. CASE UNCHANGED sourcesVars
      BY <2>2 DEF sourcesVars
    <2>3. CASE RunDetection
      BY <2>3, OnlyOne DEF OnlyDetection
    <2>4. CASE RunProbe
      BY <2>4, OnlyOne DEF OnlyProbe
    <2>5. CASE RunRapl
      BY <2>5, OnlyOne DEF OnlyRapl
    <2>6. CASE RunNvml
      BY <2>6, OnlyOne DEF OnlyNvml
    <2>7. CASE RunAmd
      BY <2>7, OnlyOne DEF OnlyAmd
    <2>8. CASE RunReactor
      BY <2>8, OnlyOne DEF OnlyReactor
    <2>9. CASE RunK8s
      BY <2>9, OnlyOne DEF OnlyK8s
    <2>10. CASE RunProcwatch
      BY <2>10, OnlyOne DEF OnlyProcwatch
    <2>11. CASE RunQuarch
      BY <2>11, OnlyOne DEF OnlyQuarch
    <2>12. CASE RunKwollect
      BY <2>12, OnlyOne DEF OnlyKwollect
    <2> QED BY <2>1, <2>2, <2>3, <2>4, <2>5, <2>6, <2>7, <2>8, <2>9, <2>10, <2>11, <2>12 DEF SourcesNext
  <1> QED BY <1>1, <1>2, PTL DEF SourcesSpec, ProcProbesSpec

\* What Quarch does among the others is what it does alone.
LEMMA SourcesRunQuarch == SourcesSpec => QuarchSpec
  <1>1. SourcesInit => QuarchInit
    BY DEF SourcesInit
  <1>2. [SourcesNext]_sourcesVars => [QuarchNext]_quarchVars
    <2> SUFFICES ASSUME [SourcesNext]_sourcesVars PROVE QuarchNext \/ UNCHANGED quarchVars
      OBVIOUS
    <2>1. CASE RunQuarch
      BY <2>1 DEF RunQuarch, QuarchNext
    <2>2. CASE UNCHANGED sourcesVars
      BY <2>2 DEF sourcesVars
    <2>3. CASE RunDetection
      BY <2>3, OnlyOne DEF OnlyDetection
    <2>4. CASE RunProbe
      BY <2>4, OnlyOne DEF OnlyProbe
    <2>5. CASE RunRapl
      BY <2>5, OnlyOne DEF OnlyRapl
    <2>6. CASE RunNvml
      BY <2>6, OnlyOne DEF OnlyNvml
    <2>7. CASE RunAmd
      BY <2>7, OnlyOne DEF OnlyAmd
    <2>8. CASE RunReactor
      BY <2>8, OnlyOne DEF OnlyReactor
    <2>9. CASE RunK8s
      BY <2>9, OnlyOne DEF OnlyK8s
    <2>10. CASE RunProcwatch
      BY <2>10, OnlyOne DEF OnlyProcwatch
    <2>11. CASE RunProcprobe
      BY <2>11, OnlyOne DEF OnlyProcprobe
    <2>12. CASE RunKwollect
      BY <2>12, OnlyOne DEF OnlyKwollect
    <2> QED BY <2>1, <2>2, <2>3, <2>4, <2>5, <2>6, <2>7, <2>8, <2>9, <2>10, <2>11, <2>12 DEF SourcesNext
  <1> QED BY <1>1, <1>2, PTL DEF SourcesSpec, QuarchSpec

\* What Reactor does among the others is what it does alone.
LEMMA SourcesRunReactor == SourcesSpec => ReactorSpec
  <1>1. SourcesInit => ReactorInit
    BY DEF SourcesInit
  <1>2. [SourcesNext]_sourcesVars => [ReactorNext]_reactorVars
    <2> SUFFICES ASSUME [SourcesNext]_sourcesVars PROVE ReactorNext \/ UNCHANGED reactorVars
      OBVIOUS
    <2>1. CASE RunReactor
      BY <2>1 DEF RunReactor, ReactorNext
    <2>2. CASE UNCHANGED sourcesVars
      BY <2>2 DEF sourcesVars
    <2>3. CASE RunDetection
      BY <2>3, OnlyOne DEF OnlyDetection
    <2>4. CASE RunProbe
      BY <2>4, OnlyOne DEF OnlyProbe
    <2>5. CASE RunRapl
      BY <2>5, OnlyOne DEF OnlyRapl
    <2>6. CASE RunNvml
      BY <2>6, OnlyOne DEF OnlyNvml
    <2>7. CASE RunAmd
      BY <2>7, OnlyOne DEF OnlyAmd
    <2>8. CASE RunK8s
      BY <2>8, OnlyOne DEF OnlyK8s
    <2>9. CASE RunProcwatch
      BY <2>9, OnlyOne DEF OnlyProcwatch
    <2>10. CASE RunProcprobe
      BY <2>10, OnlyOne DEF OnlyProcprobe
    <2>11. CASE RunQuarch
      BY <2>11, OnlyOne DEF OnlyQuarch
    <2>12. CASE RunKwollect
      BY <2>12, OnlyOne DEF OnlyKwollect
    <2> QED BY <2>1, <2>2, <2>3, <2>4, <2>5, <2>6, <2>7, <2>8, <2>9, <2>10, <2>11, <2>12 DEF SourcesNext
  <1> QED BY <1>1, <1>2, PTL DEF SourcesSpec, ReactorSpec

\* What K8s does among the others is what it does alone.
LEMMA SourcesRunK8s == SourcesSpec => K8sSpec
  <1>1. SourcesInit => K8sInit
    BY DEF SourcesInit
  <1>2. [SourcesNext]_sourcesVars => [K8sNext]_k8sVars
    <2> SUFFICES ASSUME [SourcesNext]_sourcesVars PROVE K8sNext \/ UNCHANGED k8sVars
      OBVIOUS
    <2>1. CASE RunK8s
      BY <2>1 DEF RunK8s, K8sNext
    <2>2. CASE UNCHANGED sourcesVars
      BY <2>2 DEF sourcesVars
    <2>3. CASE RunDetection
      BY <2>3, OnlyOne DEF OnlyDetection
    <2>4. CASE RunProbe
      BY <2>4, OnlyOne DEF OnlyProbe
    <2>5. CASE RunRapl
      BY <2>5, OnlyOne DEF OnlyRapl
    <2>6. CASE RunNvml
      BY <2>6, OnlyOne DEF OnlyNvml
    <2>7. CASE RunAmd
      BY <2>7, OnlyOne DEF OnlyAmd
    <2>8. CASE RunReactor
      BY <2>8, OnlyOne DEF OnlyReactor
    <2>9. CASE RunProcwatch
      BY <2>9, OnlyOne DEF OnlyProcwatch
    <2>10. CASE RunProcprobe
      BY <2>10, OnlyOne DEF OnlyProcprobe
    <2>11. CASE RunQuarch
      BY <2>11, OnlyOne DEF OnlyQuarch
    <2>12. CASE RunKwollect
      BY <2>12, OnlyOne DEF OnlyKwollect
    <2> QED BY <2>1, <2>2, <2>3, <2>4, <2>5, <2>6, <2>7, <2>8, <2>9, <2>10, <2>11, <2>12 DEF SourcesNext
  <1> QED BY <1>1, <1>2, PTL DEF SourcesSpec, K8sSpec

\* What Kwollect does among the others is what it does alone.
LEMMA SourcesRunKwollect == SourcesSpec => KwollectSpec
  <1>1. SourcesInit => KwollectInit
    BY DEF SourcesInit
  <1>2. [SourcesNext]_sourcesVars => [KwollectNext]_kwVars
    <2> SUFFICES ASSUME [SourcesNext]_sourcesVars PROVE KwollectNext \/ UNCHANGED kwVars
      OBVIOUS
    <2>1. CASE RunKwollect
      BY <2>1 DEF RunKwollect, KwollectNext
    <2>2. CASE UNCHANGED sourcesVars
      BY <2>2 DEF sourcesVars
    <2>3. CASE RunDetection
      BY <2>3, OnlyOne DEF OnlyDetection
    <2>4. CASE RunProbe
      BY <2>4, OnlyOne DEF OnlyProbe
    <2>5. CASE RunRapl
      BY <2>5, OnlyOne DEF OnlyRapl
    <2>6. CASE RunNvml
      BY <2>6, OnlyOne DEF OnlyNvml
    <2>7. CASE RunAmd
      BY <2>7, OnlyOne DEF OnlyAmd
    <2>8. CASE RunReactor
      BY <2>8, OnlyOne DEF OnlyReactor
    <2>9. CASE RunK8s
      BY <2>9, OnlyOne DEF OnlyK8s
    <2>10. CASE RunProcwatch
      BY <2>10, OnlyOne DEF OnlyProcwatch
    <2>11. CASE RunProcprobe
      BY <2>11, OnlyOne DEF OnlyProcprobe
    <2>12. CASE RunQuarch
      BY <2>12, OnlyOne DEF OnlyQuarch
    <2> QED BY <2>1, <2>2, <2>3, <2>4, <2>5, <2>6, <2>7, <2>8, <2>9, <2>10, <2>11, <2>12 DEF SourcesNext
  <1> QED BY <1>1, <1>2, PTL DEF SourcesSpec, KwollectSpec

\* What Detection does among the others is what it does alone.
LEMMA SourcesRunDetection == SourcesSpec => DetectionSpec
  <1>1. SourcesInit => DetectionInit
    BY DEF SourcesInit
  <1>2. [SourcesNext]_sourcesVars => [DetectionNext]_detectionVars
    <2> SUFFICES ASSUME [SourcesNext]_sourcesVars PROVE DetectionNext \/ UNCHANGED detectionVars
      OBVIOUS
    <2>1. CASE RunDetection
      BY <2>1 DEF RunDetection, DetectionNext
    <2>2. CASE UNCHANGED sourcesVars
      BY <2>2 DEF sourcesVars
    <2>3. CASE RunReactor
      BY <2>3, OnlyOne DEF OnlyReactor
    <2>4. CASE RunProbe
      BY <2>4, OnlyOne DEF OnlyProbe
    <2>5. CASE RunRapl
      BY <2>5, OnlyOne DEF OnlyRapl
    <2>6. CASE RunNvml
      BY <2>6, OnlyOne DEF OnlyNvml
    <2>7. CASE RunAmd
      BY <2>7, OnlyOne DEF OnlyAmd
    <2>8. CASE RunK8s
      BY <2>8, OnlyOne DEF OnlyK8s
    <2>9. CASE RunProcwatch
      BY <2>9, OnlyOne DEF OnlyProcwatch
    <2>10. CASE RunProcprobe
      BY <2>10, OnlyOne DEF OnlyProcprobe
    <2>11. CASE RunQuarch
      BY <2>11, OnlyOne DEF OnlyQuarch
    <2>12. CASE RunKwollect
      BY <2>12, OnlyOne DEF OnlyKwollect
    <2> QED BY <2>1, <2>2, <2>3, <2>4, <2>5, <2>6, <2>7, <2>8, <2>9, <2>10, <2>11, <2>12 DEF SourcesNext
  <1> QED BY <1>1, <1>2, PTL DEF SourcesSpec, DetectionSpec

\* Among the other sources too, a detector that waits knows the cgroups that exist and no other,
\* in whatever order the creations, removals, ends of sources, reads, walks and the initial scan
\* come, but for the changes that it leaves unread and the windows recorded in blurred.
THEOREM SourcesKeepUp == SourcesSpec => []KnownIsAlive
  BY SourcesRunDetection, DetectionKeepsUp, PTL

\* A source ends with an error only after a failure that its component does not absorb: that a
\* cgroup or a process is gone is a normal end of its own source; the watcher fails for the
\* process in hand only, when it is gone, of the kernel, or unreadable; the source of a GPU
\* ends for a call that failed and had worked, or for the memory that a GPU does not tell
\* (CgroupProbe, ProcWatcher and Nvml), however many of them there are.
THEOREM SourcesEndForAReason == SourcesSpec => []EndsForAReason
  BY SourcesRunCgroupProbe, SourcesRunProcWatcher, SourcesRunNvml, CgroupsAreTold,
     ProcessesAreTold, WatcherFailuresAreExplained, GpusAreTold, PTL DEF EndsForAReason

\* While no poll fails for good, no source loses, invents or counts twice what a counter has
\* counted, whatever pauses come between and counters wrap around, for every size of the
\* counters and every number of devices; after such a failure, which loses what the buffer of
\* the source holds, the source has ended and has told no more than was counted.
THEOREM SourcesTellCounters == SourcesSpec => []CountersAreTold
  BY SourcesRunRapl, SourcesRunNvml, SourcesRunAmd, SourcesRunCgroupProbe,
     SourcesRunProcWatcher, SourcesRunProcProbes, SourcesRunQuarch,
     ProcessorsAreTold, GpusAreTold, AmdTellsEnergy, CgroupsAreTold, ProcessesAreTold,
     SystemIsTold, PowerIsOfItsQuestion, PTL DEF CountersAreTold

\* Every cgroup, pod, process and event that the plugins are told of is measured, once, unless
\* something failed for it (for a process: not for another one), whatever the order of the
\* notifications, the refreshes and the requests, and for any number of hierarchies, registries, processes and metrics.
THEOREM SourcesMeasure == SourcesSpec => []MeasuredUnlessFailed
  BY SourcesRunReactor, SourcesRunK8s, SourcesRunProcWatcher, SourcesRunKwollect, GroupsAreMeasured,
     PodsAreFound, ProcessesHaveSources, EventsAreMeasured, PTL DEF MeasuredUnlessFailed
================================================================================
