------------------------------- MODULE ProcWatcher -------------------------------
(***************************************************************************)
(* The monitoring of the processes by the plugin procfs                    *)
(* (src/plugins/procfs/src/process.rs).  A watcher lists /proc, or an      *)
(* event names the processes; every process gets a source that reads its   *)
(* files.  Processes start, end, give their pid to others and change       *)
(* parent between any two of these reads.                                  *)
(***************************************************************************)
EXTENDS Integers, Sequences

CONSTANTS
    ProcPids,         \* pids of the system
    ProcKinds,        \* "user", "other" (exe not matched), "foreign" (exe denied), "kernel" (no exe)
    ProcFilters,      \* configured groups: sequences of "any", "exe" and "child"
    MaxForks,         \* bound: processes started
    TicksMax          \* bound: CPU time of a process

ASSUME ProcWatcherAssumption ==
    /\ MaxForks \in Nat
    /\ ProcKinds \subseteq {"user", "other", "foreign", "kernel"}
    /\ ProcFilters \subseteq Seq({"any", "exe", "child"})

Launcher == 0         \* parent of the processes at their start; init adopts the orphans
NoProcess == [inc |-> 0, ppid |-> Launcher, kind |-> "user"]
Incarnations == 1..MaxForks
NoProcProbe == [made |-> 0, pc |-> "none", prev |-> -1, stat |-> 0, told |-> 0]

VARIABLES
    procs,         \* pid -> process; inc numbers the processes, and dates their start
    forks,
    ticksOf,       \* CPU time of every process
    adopted,       \* processes whose parent has ended
    filters, slowMem, strategy,      \* the configuration
    watcher,       \* the source process-watcher and its refresh
    printOf,       \* watched_processes: pid -> fingerprint
    listed,        \* processes that a completed refresh has read
    orders,        \* messages to the control task of the sources
    procProbes,    \* process -> its source
    untriggered    \* processes whose trigger request has found no source

procWorld == <<procs, forks, ticksOf, adopted>>
procConfig == <<filters, slowMem, strategy>>
watcherState == <<watcher, printOf, listed>>
procWatcherVars == <<procWorld, procConfig, watcherState, orders, procProbes, untriggered>>

NoCurrent == [pid |-> 0, inc |-> 0]
Resting == [pc |-> "idle", left |-> {}, cur |-> NoCurrent, group |-> 1, found |-> {}, seen |-> {}]

ProcWatcherInit ==
    /\ procs = [p \in ProcPids |-> NoProcess] /\ forks = 0 /\ adopted = {}
    /\ ticksOf = [i \in Incarnations |-> 0]
    /\ filters \in ProcFilters /\ slowMem \in BOOLEAN /\ strategy \in {"watcher", "event"}
    /\ watcher = Resting /\ printOf = [p \in ProcPids |-> <<>>] /\ listed = {}
    /\ orders = <<>> /\ untriggered = {}
    /\ procProbes = [i \in Incarnations |-> NoProcProbe]

\* The reads go through the descriptor of the directory of the process, which does not
\* follow the pid to the next process.
Lives(i) == \E p \in ProcPids : procs[p].inc = i /\ i # 0
ProcessOf(i) == procs[CHOOSE p \in ProcPids : procs[p].inc = i]

-------------------------------------------------------------------------------
(* ProcessWatcher::refresh.                                                    *)

StartRefresh ==
    /\ strategy = "watcher" /\ watcher.pc = "idle"
    /\ watcher' = [Resting EXCEPT !.pc = "list", !.left = ProcPids]
    /\ UNCHANGED <<procWorld, procConfig, printOf, listed, orders, procProbes, untriggered>>

\* The next entry of /proc: a process that is gone is not an error.
ListEntry(p) ==
    /\ watcher.pc = "list" /\ p \in watcher.left
    /\ watcher' = [watcher EXCEPT
         !.left = @ \ {p}, !.pc = IF procs[p].inc = 0 THEN "list" ELSE "stat",
         !.cur = [pid |-> p, inc |-> procs[p].inc], !.group = 1]
    /\ UNCHANGED <<procWorld, procConfig, printOf, listed, orders, procProbes, untriggered>>

\* Mutant of Fingerprint: the pid alone identifies a process.
FingerprintPid(i) == <<0, Launcher>>

\* ProcessFingerprint: start time and parent.
Fingerprint(i) == <<i, ProcessOf(i).ppid>>

\* The watcher is a source: an error of the refresh is fatal.  The sources made so far in
\* this refresh are lost with the request, and no process is listed any more.
WatcherEnds == watcher' = [watcher EXCEPT !.pc = "failed"]

\* The process is recorded before its source is made.  One that is not found, or that the
\* watcher may not read, is passed over; one that goes between the opening and the read of
\* its file gives another error (ESRCH), which is fatal.
ReadProcStat ==
    /\ watcher.pc = "stat"
    /\ LET c == watcher.cur IN
       \/ /\ Lives(c.inc)
          /\ watcher' = [watcher EXCEPT
                !.pc = IF printOf[c.pid] = Fingerprint(c.inc) THEN "list" ELSE "filter",
                !.seen = @ \union {c.inc}]
          /\ printOf' = [printOf EXCEPT ![c.pid] = Fingerprint(c.inc)]
       \/ watcher' = [watcher EXCEPT !.pc = "list"] /\ UNCHANGED printOf
       \/ ~Lives(c.inc) /\ WatcherEnds /\ UNCHANGED printOf
    /\ UNCHANGED <<procWorld, procConfig, listed, orders, procProbes, untriggered>>

\* What ProcessFilter::accepts answers for a living process.
Accepts(f, q) ==
    CASE f = "any" -> "yes"
      [] f = "child" -> IF q.ppid = Launcher THEN "yes" ELSE "no"
      [] f = "exe" -> CASE q.kind = "user" -> "yes" [] q.kind = "other" -> "no"
                        [] q.kind = "foreign" -> "denied" [] q.kind = "kernel" -> "error"

\* Mutant of OnDenied: a group that cannot read the process ends the search.
OnDeniedStop == "list"

\* Mutant of OnDenied: a group that cannot read the process is an error like the others.
OnDeniedFails == "failed"

\* A group without the right to read the process is passed over.
OnDenied == "filter"

\* on_new_process: the groups in their order.
ApplyFilter ==
    /\ watcher.pc = "filter"
    /\ LET w == watcher
           f == filters[w.group]
           answer == IF Lives(w.cur.inc) THEN Accepts(f, ProcessOf(w.cur.inc))
                     ELSE IF f = "any" THEN "yes" ELSE "error"
       IN IF w.group > Len(filters) THEN watcher' = [w EXCEPT !.pc = "list"]
          ELSE CASE answer = "yes" -> watcher' = [w EXCEPT !.pc = "open"]
                 [] answer = "no" -> watcher' = [w EXCEPT !.group = @ + 1]
                 [] answer = "denied" -> watcher' = [w EXCEPT !.group = @ + 1, !.pc = OnDenied]
                 [] answer = "error" -> WatcherEnds
    /\ UNCHANGED <<procWorld, procConfig, printOf, listed, orders, procProbes, untriggered>>

\* ProcessStatsProbe::new opens the files of the process; smaps_rollup needs rights on it.
CanOpen(i) == Lives(i) /\ ~(slowMem /\ ProcessOf(i).kind = "foreign")

OpenProcess ==
    /\ watcher.pc = "open"
    /\ IF CanOpen(watcher.cur.inc)
       THEN watcher' = [watcher EXCEPT !.pc = "list", !.found = @ \union {watcher.cur.inc}]
       ELSE WatcherEnds
    /\ UNCHANGED <<procWorld, procConfig, printOf, listed, orders, procProbes, untriggered>>

\* One message creates all the sources.
EndRefresh ==
    /\ watcher.pc = "list" /\ watcher.left = {}
    /\ orders' = IF watcher.found = {} THEN orders
                 ELSE Append(orders, [kind |-> "create", incs |-> watcher.found])
    /\ listed' = listed \union watcher.seen
    /\ watcher' = Resting
    /\ UNCHANGED <<procWorld, procConfig, printOf, procProbes, untriggered>>

-------------------------------------------------------------------------------
(* ManualProcessMonitor::start_monitoring, and the control task.               *)

\* Mutant of InOrder: the trigger request is sent before the source exists.
InOrderReversed(create, trigger) == <<trigger, create>>

\* The creation is dispatched before the request that triggers the new source.
InOrder(create, trigger) == <<create, trigger>>

\* The event names a process that runs; an error creates nothing.
StartMonitoring(p) ==
    /\ strategy = "event" /\ procs[p].inc # 0 /\ CanOpen(procs[p].inc)
    /\ procProbes[procs[p].inc].made = 0 /\ orders = <<>>
    /\ orders' = InOrder([kind |-> "create", incs |-> {procs[p].inc}],
                         [kind |-> "trigger", incs |-> {procs[p].inc}])
    /\ UNCHANGED <<procWorld, procConfig, watcherState, procProbes, untriggered>>

HandleOrder ==
    /\ orders # <<>> /\ orders' = Tail(orders)
    /\ LET o == Head(orders) IN
       IF o.kind = "create"
       THEN /\ procProbes' = [i \in Incarnations |->
                 IF i \notin o.incs THEN procProbes[i]
                 ELSE IF procProbes[i].made = 0
                 THEN [procProbes[i] EXCEPT !.made = 1, !.pc = "idle"]
                 ELSE [procProbes[i] EXCEPT !.made = @ + 1]]
            /\ UNCHANGED untriggered
       ELSE /\ untriggered' = untriggered \union {i \in o.incs : procProbes[i].made = 0}
            /\ UNCHANGED procProbes
    /\ UNCHANGED <<procWorld, procConfig, watcherState>>

-------------------------------------------------------------------------------
(* ProcessStatsProbe::poll.                                                    *)

SetProbe(i, q) ==
    /\ procProbes' = [procProbes EXCEPT ![i] = q]
    /\ UNCHANGED <<procWorld, procConfig, watcherState, orders, untriggered>>

\* Mutant of NotFoundEnd: only the file that is missing ends the source normally, not the
\* read of a file of a process that is gone (ESRCH).
NotFoundEndOpen == "fatal"

\* stop_if_proc_not_found.
NotFoundEnd == "normal"

PollStat(i) ==
    /\ procProbes[i].pc = "idle"
    /\ SetProbe(i, IF Lives(i) THEN [procProbes[i] EXCEPT !.pc = "memory", !.stat = ticksOf[i]]
                   ELSE [procProbes[i] EXCEPT !.pc = NotFoundEnd])

\* Mutant of CpuDelta: the first time read is the origin.
CpuDeltaFromFirst(q) == IF q.prev = -1 THEN 0 ELSE q.stat - q.prev

\* The first values are pushed too: the process may have run before its source.
CpuDelta(q) == IF q.prev = -1 THEN q.stat ELSE q.stat - q.prev

\* A process of the kernel has no smaps_rollup to read.
PollMemory(i) ==
    LET q == procProbes[i] IN
    /\ q.pc = "memory"
    /\ SetProbe(i, IF Lives(i) /\ ~(slowMem /\ ProcessOf(i).kind = "kernel")
                   THEN [q EXCEPT !.pc = "idle", !.told = @ + CpuDelta(q), !.prev = q.stat]
                   ELSE [q EXCEPT !.pc = NotFoundEnd])

-------------------------------------------------------------------------------
(* The processes (external).                                                   *)

ForkProcess(p, k) ==
    /\ procs[p].inc = 0 /\ forks < MaxForks
    /\ forks' = forks + 1
    /\ procs' = [procs EXCEPT ![p] = [inc |-> forks + 1, ppid |-> Launcher, kind |-> k]]
    /\ UNCHANGED <<ticksOf, adopted, procConfig, watcherState, orders, procProbes, untriggered>>

ExitProcess(p) ==
    /\ procs[p].inc # 0 /\ procs' = [procs EXCEPT ![p] = NoProcess]
    /\ UNCHANGED <<forks, ticksOf, adopted, procConfig, watcherState, orders, procProbes,
                   untriggered>>

\* The parent ends: init adopts the process, whose ppid changes.
AdoptProcess(p) ==
    /\ procs[p].inc # 0 /\ procs[p].ppid = Launcher
    /\ procs' = [procs EXCEPT ![p].ppid = 1] /\ adopted' = adopted \union {procs[p].inc}
    /\ UNCHANGED <<forks, ticksOf, procConfig, watcherState, orders, procProbes, untriggered>>

RunProcess(i) ==
    /\ Lives(i) /\ ticksOf[i] < TicksMax
    /\ ticksOf' = [ticksOf EXCEPT ![i] = @ + 1]
    /\ UNCHANGED <<procs, forks, adopted, procConfig, watcherState, orders, procProbes,
                   untriggered>>

ProcWatcherNext ==
    \/ StartRefresh
    \/ \E p \in ProcPids : ListEntry(p)
    \/ ReadProcStat \/ ApplyFilter \/ OpenProcess \/ EndRefresh
    \/ \E p \in ProcPids : StartMonitoring(p)
    \/ HandleOrder
    \/ \E i \in Incarnations : PollStat(i)
    \/ \E i \in Incarnations : PollMemory(i)
    \/ \E p \in ProcPids, k \in ProcKinds : ForkProcess(p, k)
    \/ \E p \in ProcPids : ExitProcess(p)
    \/ \E p \in ProcPids : AdoptProcess(p)
    \/ \E i \in Incarnations : RunProcess(i)

ProcWatcherSpec == ProcWatcherInit /\ [][ProcWatcherNext]_procWatcherVars

-------------------------------------------------------------------------------
(* Properties.                                                                 *)

\* The groups in which the process is looked for before it is accepted do not fail.
WantedProcess(q) ==
    \E g \in DOMAIN filters : Accepts(filters[g], q) = "yes"

\* A process that lives on after a complete refresh that has read it, and that a group
\* accepts, has exactly one source once its order is handled, also when it has the pid of an
\* earlier process and when the watcher has failed since; and the source that an event
\* creates is there when it is triggered.
ProcessesAreMeasured ==
    /\ untriggered = {}
    /\ orders = <<>> =>
         \A p \in ProcPids :
            procs[p].inc \in listed \ adopted /\ WantedProcess(procs[p]) =>
               procProbes[procs[p].inc].made = 1

\* The watcher fails only because of the process it has in hand: one that has gone since it
\* was listed, one of the kernel, whose executable a group asks for, or one whose memory it
\* may not read.  The first is against the code's own words, "process vanished, ignore"
\* (process.rs:513): only the read of its state may ignore it.
WatcherFailsForOne ==
    watcher.pc = "failed" =>
        LET i == watcher.cur.inc IN
        \/ ~Lives(i)
        \/ ProcessOf(i).kind = "kernel" /\ \E g \in DOMAIN filters : filters[g] = "exe"
        \/ ProcessOf(i).kind = "foreign" /\ slowMem

\* The CPU times told of a process sum to its whole time when its source last read it,
\* the time before the source existed included.
ProcessTimeIsTold == \A i \in Incarnations : procProbes[i].prev # -1 =>
    procProbes[i].told = procProbes[i].prev /\ procProbes[i].told =< ticksOf[i]

\* The end of a process, at any point of a poll, is a normal end of its source.
ExitIsNormal == \A i \in Incarnations : procProbes[i].pc # "fatal"
================================================================================
