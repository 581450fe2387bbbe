------------------------------- MODULE CgroupProbe ------------------------------
(***************************************************************************)
(* The source of one control group: it opens the files of the group, one   *)
(* after the other, while the group may be removed; then it reads them at  *)
(* each poll, and pushes the difference of the processor time since the    *)
(* last one, and its percentage of the elapsed time.                       *)
(*                                                                         *)
(* Stat files are read by line: the numbers of the lines that hold the     *)
(* keys are remembered in a set of at most LineLimit bits, a line number   *)
(* is an 8 bit integer (LineLimit is 128 in the code, and 256 is twice as  *)
(* much).  The value on a line is the number of the line.                  *)
(***************************************************************************)
EXTENDS Integers, Sequences, SequencesExt, FiniteSets

CONSTANTS
    StatKeys,    \* the keys that a stat file may hold, and that a collector may want
    LineLimit,   \* BitSet128::LIMIT
    StatGrowth,  \* bound: lines added to a stat file after the collector was created
    ClockMax     \* bound: of the clock, and of the time counted by the kernel

ASSUME CgroupProbeAssumption ==
    /\ {LineLimit, StatGrowth, ClockMax} \subseteq Nat \ {0}
    /\ StatKeys \intersect {"blank", "other"} = {}

VARIABLES
    group,      \* the control group: its version, and whether it is there
    probing,    \* "none", "opening", "polling", or how it ended: "refused", "normal", "fatal"
    toOpen,     \* the files that the collector has not tried to open yet
    openFiles,  \* the files that it has opened
    stat,       \* a stat file: its lines, the keys wanted, and the lines remembered
    cpu,        \* processor time: the kernel's, and previous_value of the CounterDiff
    clock,      \* the time, last_timestamp, and (history) whether it went backwards
    cpuTold     \* history: first time read since the last reset, the sum of differences,
                \* and the last percentage: a difference and the interval it is divided by

cgroupProbeVars == <<group, probing, toOpen, openFiles, stat, cpu, clock, cpuTold>>

Never == -1
NoStat == [lines |-> <<>>, wanted |-> {}, index |-> [k \in StatKeys |-> Never]]
NothingTold == [first |-> Never, sum |-> 0, difference |-> 0, interval |-> Never, readAt |-> Never, span |-> Never]

V1Files == <<"cpuacct.usage", "memory.usage_in_bytes">>
V2Files == <<"memory.current", "memory.max", "memory.stat", "cpu.stat", "io.pressure">>
StatFiles == {"memory.stat", "cpu.stat"}
CpuFiles == {"cpuacct.usage", "cpu.stat"}

CgroupProbeInit ==
    /\ group = [version |-> 2, there |-> TRUE]
    /\ probing = "none" /\ toOpen = <<>> /\ openFiles = {}
    /\ stat = NoStat
    /\ cpu = [now |-> 0, seen |-> Never]
    /\ clock = [now |-> 0, last |-> Never, wentBack |-> FALSE]
    /\ cpuTold = NothingTold

-------------------------------------------------------------------------------
(* Creation.                                                               *)

\* V2Collector::new tries every file; V1Collector opens those of the controllers of the
\* hierarchy (none: the probe has nothing to open).
NewProbe(version, files) ==
    /\ probing = "none"
    /\ probing' = IF files = {} THEN "polling" ELSE "opening"
    /\ group' = [group EXCEPT !.version = version]
    /\ toOpen' = SelectSeq(IF version = 2 THEN V2Files ELSE V1Files, LAMBDA f : f \in files)
    /\ UNCHANGED <<openFiles, stat, cpu, clock, cpuTold>>

\* Mutant of LineOf: the lines that hold no key and value are not counted.
LineOfPair(lines, k) ==
    LET pairs == SelectSeq(lines, LAMBDA x : x # "blank")
    IN IF \E i \in DOMAIN pairs : pairs[i] = k THEN (CHOOSE i \in DOMAIN pairs : pairs[i] = k) - 1 ELSE Never

\* parse_space_kv: the number of the line that holds k, counted from zero.
LineOf(lines, k) ==
    IF \E i \in DOMAIN lines : lines[i] = k THEN (CHOOSE i \in DOMAIN lines : lines[i] = k) - 1 ELSE Never

\* EnabledKeys: the keys of a collector are the settings equal to true.
EnabledKeys(settings) == {k \in StatKeys : settings[k]}

\* StatFileBuilder::build, and the mapping of the collector.
BuiltStat(lines, wanted) ==
    [NoStat EXCEPT !.lines = lines, !.wanted = wanted,
                   !.index = [k \in StatKeys |-> IF k \in wanted THEN LineOf(lines, k) ELSE Never]]

\* The next file is opened.  In version 2 a file that is not there is left out; a stat
\* file is read at once, and refused if the set of lines cannot hold it.  In version 1
\* a file that is not there is an error.  settings and lines are those of memory.stat.
OpenNext(missing, settings, lines) ==
    LET f == Head(toOpen)
        refuses == \/ missing /\ group.version = 1
                   \/ ~missing /\ f = "memory.stat" /\ Len(lines) >= LineLimit
    IN /\ probing = "opening" /\ toOpen # <<>> /\ (group.there \/ missing)
       /\ toOpen' = Tail(toOpen)
       /\ openFiles' = IF missing THEN openFiles ELSE openFiles \union {f}
       /\ stat' = IF ~missing /\ f = "memory.stat" /\ ~refuses
                  THEN BuiltStat(lines, EnabledKeys(settings)) ELSE stat
       /\ probing' = IF refuses THEN "refused" ELSE IF toOpen' = <<>> THEN "polling" ELSE "opening"
       /\ UNCHANGED <<group, cpu, clock, cpuTold>>

\* The group is removed between the opening of a stat file and its first read.
OpenRemoved ==
    /\ probing = "opening" /\ toOpen # <<>>
    /\ Head(toOpen) \in StatFiles /\ group.there
    /\ group' = [group EXCEPT !.there = FALSE]
    /\ probing' = "refused"
    /\ UNCHANGED <<toOpen, openFiles, stat, cpu, clock, cpuTold>>

-------------------------------------------------------------------------------
(* Polls.                                                                  *)

\* The line numbers are truncated to 8 bits, then to the size of the set of bits: the
\* debug assertion of BitSet128::contains is not compiled in a release.
LineNumber(i) == i % (2 * LineLimit)
Remembered == {stat.index[k] : k \in StatKeys} \ {Never}
Selected(i) == LineNumber(i) % LineLimit \in Remembered

\* SelectiveStatFile::read and the closures of the collectors: the last line wins.
ReadStat ==
    [k \in StatKeys |->
        LET at == {i \in 0..(Len(stat.lines) - 1) : Selected(i) /\ LineNumber(i) = stat.index[k]}
        IN IF at = {} THEN Never ELSE CHOOSE i \in at : \A j \in at : j <= i]

\* Mutant of EndOf: only a file that is not found is a normal end.
EndOfNotFound(error) == IF error = "NotFound" THEN "normal" ELSE "fatal"

\* analyze_io_result
EndOf(error) == IF error \in {"NotFound", "ENODEV"} THEN "normal" ELSE "fatal"

\* The time that the kernel counted since the previous value.
CpuDifference == IF cpu.seen = Never THEN Never ELSE cpu.now - cpu.seen

\* The files are read, and the points pushed.
Measure(interval) ==
    /\ IF openFiles \intersect CpuFiles = {} THEN UNCHANGED <<cpu, cpuTold>>
       ELSE /\ cpu' = [cpu EXCEPT !.seen = cpu.now]
            /\ cpuTold' = [first |-> IF cpu.seen = Never THEN cpu.now ELSE cpuTold.first,
                           sum |-> IF cpu.seen = Never THEN 0 ELSE cpuTold.sum + CpuDifference,
                           difference |-> CpuDifference,
                           interval |-> IF cpu.seen = Never THEN Never ELSE interval,
                           readAt |-> clock.now,
                           span |-> IF cpu.seen = Never THEN Never ELSE clock.now - cpuTold.readAt]

\* Source::poll.  The timestamp is remembered before the files are read; a clock that
\* went backwards is a fatal error.  The files of a group that was removed cannot be
\* read: ENODEV; a probe without any file notices nothing.
PollProbe ==
    /\ probing = "polling"
    /\ clock' = [clock EXCEPT !.last = clock.now]
    /\ LET interval == IF clock.last = Never THEN Never ELSE clock.now - clock.last
       IN IF clock.last # Never /\ clock.now < clock.last
          THEN /\ probing' = "fatal" /\ UNCHANGED <<cpu, cpuTold>>
          ELSE IF openFiles # {} /\ ~group.there
          THEN /\ probing' = EndOf("ENODEV") /\ UNCHANGED <<cpu, cpuTold>>
          ELSE /\ probing' = probing /\ Measure(interval)
    /\ UNCHANGED <<group, toOpen, openFiles, stat>>

\* Mutant of ResetProbe: the source keeps the previous values when it is resumed.
ResetProbeNot ==
    /\ probing = "polling"
    /\ clock' = [clock EXCEPT !.last = Never]
    /\ cpuTold' = NothingTold
    /\ UNCHANGED <<group, probing, toOpen, openFiles, stat, cpu>>

\* Source::reset, when the source is paused and resumed.
ResetProbe ==
    /\ probing = "polling"
    /\ cpu' = [cpu EXCEPT !.seen = Never]
    /\ clock' = [clock EXCEPT !.last = Never]
    /\ cpuTold' = NothingTold
    /\ UNCHANGED <<group, probing, toOpen, openFiles, stat>>

-------------------------------------------------------------------------------
(* The kernel.                                                             *)

RemoveGroup ==
    /\ group.there
    /\ group' = [group EXCEPT !.there = FALSE]
    /\ UNCHANGED <<probing, toOpen, openFiles, stat, cpu, clock, cpuTold>>

\* Lines are added at the end of the stat file, once.
GrowStat ==
    /\ probing = "polling" /\ stat.lines # <<>> /\ Last(stat.lines) # "other"
    /\ stat' = [stat EXCEPT !.lines = @ \o [i \in 1..StatGrowth |-> "other"]]
    /\ UNCHANGED <<group, probing, toOpen, openFiles, cpu, clock, cpuTold>>

\* Time passes, and the processes of the group run; or the clock of the machine is set back.
TimePasses(ran) ==
    /\ probing = "polling" /\ clock.now < ClockMax
    /\ clock' = [clock EXCEPT !.now = @ + 1]
    /\ cpu' = [cpu EXCEPT !.now = @ + ran]
    /\ UNCHANGED <<group, probing, toOpen, openFiles, stat, cpuTold>>

SetClockBack ==
    /\ probing = "polling" /\ ~clock.wentBack /\ clock.now > 0
    /\ clock' = [clock EXCEPT !.now = 0, !.wentBack = TRUE]
    /\ UNCHANGED <<group, probing, toOpen, openFiles, stat, cpu, cpuTold>>

\* The lines of a stat file: each key at most once, and lines without a key and a value.
StatLines == {lines \in BoundedSeq(StatKeys \union {"blank"}, LineLimit) :
                 \A i, j \in DOMAIN lines : lines[i] = lines[j] /\ i # j => lines[i] = "blank"}

CgroupProbeNext ==
    \/ \E files \in SUBSET ToSet(V1Files) : NewProbe(1, files)
    \/ NewProbe(2, ToSet(V2Files))
    \/ \E missing \in BOOLEAN, settings \in [StatKeys -> BOOLEAN], lines \in StatLines :
          OpenNext(missing, settings, lines)
    \/ OpenRemoved
    \/ PollProbe
    \/ ResetProbe
    \/ RemoveGroup
    \/ GrowStat
    \/ \E ran \in 0..1 : TimePasses(ran)
    \/ SetClockBack

CgroupProbeSpec == CgroupProbeInit /\ [][CgroupProbeNext]_cgroupProbeVars

-------------------------------------------------------------------------------
(* Properties.                                                             *)

(* The processor time pushed since the source started or was resumed is the *)
(* time counted between its first read and its last, and a percentage       *)
(* divides a difference by the time over which it was measured, whatever    *)
(* pauses, removals and changes of the clock come between.                  *)
CpuTimeIsTold ==
    /\ cpuTold.sum = IF cpu.seen = Never THEN 0 ELSE cpu.seen - cpuTold.first
    /\ cpuTold.interval = cpuTold.span

(* What a poll reads is the value on the line of each key that is wanted and *)
(* in the file, and nothing else, also when the file grows, up to 256 lines. *)
StatsAreRight ==
    Len(stat.lines) <= 2 * LineLimit =>
        \A k \in StatKeys :
            IF k \in stat.wanted /\ k \in ToSet(stat.lines)
            THEN ReadStat[k] # Never /\ stat.lines[ReadStat[k] + 1] = k
            ELSE ReadStat[k] = Never

(* The removal of a group is an expected end: a source fails only because   *)
(* the clock was set back.                                                  *)
RemovalIsNormal == probing = "fatal" => clock.wentBack

===============================================================================
