------------------------------- MODULE ProcProbes --------------------------------
(***************************************************************************)
(* The probes of the plugin procfs on the whole system: the kernel, the    *)
(* network interfaces and the memory (src/plugins/procfs/src: kernel.rs,   *)
(* network.rs, memory.rs).  One of them polls; the counters of the system  *)
(* move, and interfaces come and go, between any two polls.                *)
(***************************************************************************)
EXTENDS Integers, Sequences

CONSTANTS
    Interfaces,       \* names of interfaces
    TrafficMax,       \* bound: count of an interface, time of the kernel
    MaxPlugs,         \* bound: creations of interfaces
    MemLines,         \* contents of /proc/meminfo: sequences of lines [key, value, unit]
    MemWanted         \* entries of the configuration

Absent == -1
NoRead == [i \in Interfaces |-> Absent]

VARIABLES
    sysProbe,      \* "kernel", "network" or "memory", and how the file is read
    sysEnd,        \* the source: "runs" or "fatal"
    kernelTime, kernelPrev, kernelBase, kernelTold,
    traffic,       \* interface -> its counter, or Absent
    plugs,         \* creations of interfaces
    carried,       \* traffic of the interfaces since the first poll
    blind,         \* interfaces removed since the last poll
    recreated,     \* interfaces that came back between two polls
    lastSeen,      \* previous: the counters of the last poll
    trafficTold,
    memTold        \* points of the last poll of the memory

kernelSide == <<kernelTime, kernelPrev, kernelBase, kernelTold>>
netWorld == <<traffic, plugs, carried, blind, recreated>>
netSide == <<netWorld, lastSeen, trafficTold>>
procProbeVars == <<sysProbe, sysEnd, kernelSide, netSide, memTold>>

ProcProbesInit ==
    /\ sysProbe \in {"kernel", "network", "memory"} /\ sysEnd = "runs"
    /\ kernelTime = 0 /\ kernelPrev = Absent /\ kernelBase = Absent /\ kernelTold = 0
    /\ traffic = NoRead /\ plugs = 0 /\ blind = {} /\ recreated = {}
    /\ carried = [i \in Interfaces |-> 0] /\ lastSeen = <<>>
    /\ trafficTold = [i \in Interfaces |-> 0]
    /\ memTold = <<>>

-------------------------------------------------------------------------------
(* The kernel.                                                                 *)

\* Mutant of KernelDelta: the first poll tells the time since the boot.
KernelDeltaFirst(prev, now) == IF prev = Absent THEN now ELSE now - prev

\* The first poll only sets the origin.
KernelDelta(prev, now) == IF prev = Absent THEN 0 ELSE now - prev

\* KernelStatsProbe::poll: previous is taken before the deltas, after the last failing read.
PollKernel(broken) ==
    /\ sysProbe = "kernel" /\ sysEnd = "runs"
    /\ IF broken THEN sysEnd' = "fatal" /\ UNCHANGED kernelSide
       ELSE /\ kernelTold' = kernelTold + KernelDelta(kernelPrev, kernelTime)
            /\ kernelBase' = IF kernelPrev = Absent THEN kernelTime ELSE kernelBase
            /\ kernelPrev' = kernelTime /\ UNCHANGED <<kernelTime, sysEnd>>
    /\ UNCHANGED <<sysProbe, netSide, memTold>>

KernelWorks ==
    /\ sysProbe = "kernel" /\ kernelTime < TrafficMax
    /\ kernelTime' = kernelTime + 1
    /\ UNCHANGED <<sysProbe, sysEnd, kernelPrev, kernelBase, kernelTold, netSide, memTold>>

-------------------------------------------------------------------------------
(* The network.                                                                *)

\* Mutant of Origin: an interface that appears at runtime starts at its first value.
OriginOfNew(i) == IF lastSeen[i] = Absent THEN traffic[i] ELSE lastSeen[i]

\* An interface that was not there at the last poll counts from zero.
Origin(i) == IF lastSeen[i] = Absent THEN 0 ELSE lastSeen[i]

\* NetworkProbe::poll: the interfaces of now are compared with those of the last poll; the
\* first poll tells nothing.
PollNetwork ==
    /\ sysProbe = "network" /\ sysEnd = "runs"
    /\ trafficTold' = IF lastSeen = <<>> THEN trafficTold
                      ELSE [i \in Interfaces |-> IF traffic[i] = Absent THEN trafficTold[i]
                                                 ELSE trafficTold[i] + traffic[i] - Origin(i)]
    /\ lastSeen' = traffic /\ blind' = {}
    /\ UNCHANGED <<sysProbe, sysEnd, kernelSide, traffic, plugs, carried, recreated, memTold>>

\* The file cannot be read, or in the workaround of the kernel's bug opened again.
PollNetworkFails ==
    /\ sysProbe = "network" /\ sysEnd = "runs" /\ sysEnd' = "fatal"
    /\ UNCHANGED <<sysProbe, kernelSide, netSide, memTold>>

\* The system (external).  The counters of a new interface are zero.
PlugInterface(i) ==
    /\ sysProbe = "network" /\ traffic[i] = Absent /\ plugs < MaxPlugs /\ plugs' = plugs + 1
    /\ traffic' = [traffic EXCEPT ![i] = 0]
    /\ recreated' = IF i \in blind THEN recreated \union {i} ELSE recreated
    /\ UNCHANGED <<sysProbe, sysEnd, kernelSide, carried, blind, lastSeen, trafficTold, memTold>>

\* What the interface has carried since the last poll goes with it.
UnplugInterface(i) ==
    /\ sysProbe = "network" /\ traffic[i] # Absent
    /\ traffic' = [traffic EXCEPT ![i] = Absent] /\ blind' = blind \union {i}
    /\ carried' = IF lastSeen = <<>> THEN carried
                  ELSE [carried EXCEPT ![i] = @ - (traffic[i] - Origin(i))]
    /\ UNCHANGED <<sysProbe, sysEnd, kernelSide, plugs, recreated, lastSeen, trafficTold,
                   memTold>>

Transmit(i) ==
    /\ sysProbe = "network" /\ traffic[i] \in 0..(TrafficMax - 1)
    /\ traffic' = [traffic EXCEPT ![i] = @ + 1]
    /\ carried' = IF lastSeen = <<>> THEN carried ELSE [carried EXCEPT ![i] = @ + 1]
    /\ UNCHANGED <<sysProbe, sysEnd, kernelSide, plugs, blind, recreated, lastSeen, trafficTold,
                   memTold>>

-------------------------------------------------------------------------------
(* The memory.                                                                 *)

\* convert_meminfo_to_bytes, with 10 for 1024: 0 for a unit that is not known.
UnitBytes(u) ==
    CASE u \in {"none", "B"} -> 1 [] u \in {"kB", "KiB", "kiB", "KB"} -> 10
      [] u \in {"mB", "MiB", "miB", "MB"} -> 100 [] u \in {"gB", "GiB", "giB", "GB"} -> 1000
      [] OTHER -> 0

\* The value of a line is parsed before its key is looked for.
InvalidLine(l) == UnitBytes(l.unit) = 0

\* MeminfoProbe::poll: line by line, up to the first that is invalid.
PollMemoryOf(lines) ==
    LET bad == {n \in DOMAIN lines : InvalidLine(lines[n])}
        upTo == IF bad = {} THEN lines
                ELSE SubSeq(lines, 1, (CHOOSE n \in bad : \A k \in bad : n =< k) - 1)
        IsRead(l) == l.key \in MemWanted
        read == SelectSeq(upTo, IsRead)
    IN /\ sysProbe = "memory" /\ sysEnd = "runs"
       /\ memTold' = [n \in DOMAIN read |-> [key |-> read[n].key,
                                             bytes |-> read[n].value * UnitBytes(read[n].unit)]]
       /\ sysEnd' = IF bad = {} THEN "runs" ELSE "fatal"
       /\ UNCHANGED <<sysProbe, kernelSide, netSide>>

ProcProbesNext ==
    \/ \E broken \in BOOLEAN : PollKernel(broken)
    \/ KernelWorks
    \/ PollNetwork \/ PollNetworkFails
    \/ \E i \in Interfaces : PlugInterface(i)
    \/ \E i \in Interfaces : UnplugInterface(i)
    \/ \E i \in Interfaces : Transmit(i)
    \/ \E lines \in MemLines : PollMemoryOf(lines)

ProcProbesSpec == ProcProbesInit /\ [][ProcProbesNext]_procProbeVars

-------------------------------------------------------------------------------
(* Properties.                                                                 *)

\* The probe of the kernel tells the time since its first poll.
KernelTimeIsTold == kernelPrev # Absent => kernelTold = kernelPrev - kernelBase

\* The probe of the network tells all the traffic since its first poll, of the interfaces
\* that come later too, up to what an interface carries between its last poll and its end;
\* an interface that comes back with its name between two polls is left aside.
TrafficIsTold ==
    \A i \in Interfaces \ recreated :
        lastSeen # <<>> /\ traffic = lastSeen => trafficTold[i] = carried[i]
================================================================================
