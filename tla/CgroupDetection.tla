---------------------------- MODULE CgroupDetection ----------------------------
(***************************************************************************)
(* Detection of the control groups of one hierarchy (CgroupDetector) and   *)
(* creation of a source for each of them (CgroupReactor).  With inotify, a *)
(* thread reads the events of the kernel and watches the new directories,  *)
(* while the thread that created the detector does the initial scan; the   *)
(* set of known cgroups is shared.  Without inotify, the hierarchy is      *)
(* scanned again and again.                                                *)
(*                                                                         *)
(* A cgroup is a path, a sequence of names, and is created several times:  *)
(* <<p, g>> is the g-th directory at p.  The root always exists and is     *)
(* left out of the sets; regular files are ignored by the event handler    *)
(* and left out too.  A full scan is one step.                             *)
(***************************************************************************)
EXTENDS Naturals, Sequences, SequencesExt, Functions

CONSTANTS
    Cgroups,        \* paths of the cgroups, with their ancestors
    MaxCreations,   \* bound: number of directories that are created
    EventQueueSize, \* capacity of the event queue of the kernel
    ReadSize,       \* number of events that always fit in the buffer of a read
    Modes           \* "inotify" and "poll"

Root == <<>>

ASSUME DetectionAssumption ==
    /\ {MaxCreations, EventQueueSize, ReadSize} \subseteq Nat \ {0}
    /\ IsFiniteSet(Cgroups)
    /\ \A p \in Cgroups : p \in Seq(Range(p)) \ {Root} /\ Front(p) \in Cgroups \union {Root}

VARIABLES
    mode,
    \* the filesystem and the kernel
    dirs, gen,      \* the directories that exist, how many times each path was created
    marks, events,  \* the directories with a watch, the event queue
    woken,          \* epoll has an edge for the watch loop
    \* the sources
    sources,        \* the directories whose files are open in a source
    zombies,        \* the sources that were created too late to open any file
    \* the watch loop
    loop,           \* "setup", "poll", "process", "forget", "register", "rescan" or "panicked"
    todo,           \* the walk in progress: a stack of [step, path, gen]
    batch,          \* the events that were read and not processed yet
    created, deleted, needRescan,
    watchedDirs, watchedPaths,
    \* the thread that creates the detector, and the polling thread
    main,           \* "setup", "scan", "register", "done" or "panicked"
    found,          \* the result of the full scan
    \* shared
    known,
    \* history: cgroups that the detector cannot follow, and lost events
    blurred, overflowed

filesystem == <<dirs, gen>>
kernel     == <<marks, events, woken>>
probes     == <<sources, zombies>>
watch      == <<loop, todo, batch, created, deleted, needRescan, watchedDirs, watchedPaths>>
detectionVars ==
    <<mode, filesystem, kernel, probes, watch, main, found, known, blurred, overflowed>>

ParentOf(p) == Front(p)
ChildrenOf(p) == {q \in dirs : ParentOf(q) = p}
Directory(p) == IF p = Root THEN <<Root, 0>> ELSE <<p, gen[p]>>
Exists(d) == d = <<Root, 0>> \/ (d[1] \in dirs /\ gen[d[1]] = d[2])
Visit(step, p, g) == [step |-> step, path |-> p, gen |-> g]

DetectionInit ==
    /\ mode \in Modes
    /\ dirs = {} /\ gen = [p \in Cgroups |-> 0]
    /\ marks = {} /\ events = <<>> /\ woken = FALSE
    /\ sources = {} /\ zombies = {}
    /\ loop = "setup" /\ batch = <<>>
    /\ todo = IF mode = "inotify" THEN <<Visit("stat", Root, 0)>> ELSE <<>>
    /\ created = {} /\ deleted = {} /\ needRescan = FALSE
    /\ watchedDirs = {} /\ watchedPaths = {}
    /\ main = (IF mode = "inotify" THEN "setup" ELSE "scan") /\ found = {}
    /\ known = {}
    /\ blurred = {} /\ overflowed = FALSE

-------------------------------------------------------------------------------
(* The environment.                                                        *)

Event(type, d, p) == [type |-> type, wd |-> d, path |-> p]
Watched(d, e) == IF d \in marks THEN <<e>> ELSE <<>>

\* The kernel queues the events, or one overflow event in their place, and wakes the loop.
Queued(es) ==
    /\ woken' = (woken \/ es # <<>>)
    /\ IF Len(events \o es) <= EventQueueSize
       THEN events' = events \o es /\ UNCHANGED overflowed
       ELSE /\ events' = Append(events, Event("overflow", Root, Root))
            /\ overflowed' = TRUE

\* A removed directory that a source still holds open.
Lingering(p) == \E d \in sources : d[1] = p /\ ~Exists(d)

\* The paths of the events that were not processed yet.
Untold == {events[i].path : i \in DOMAIN events} \union {batch[i].path : i \in DOMAIN batch}

CreateCgroup(p) ==
    /\ p \notin dirs /\ ParentOf(p) \in dirs \union {Root}
    /\ FoldFunction(+, 0, gen) < MaxCreations
    /\ dirs' = dirs \union {p}
    /\ gen' = [gen EXCEPT ![p] = @ + 1]
    /\ Queued(Watched(Directory(ParentOf(p)), Event("create", Directory(ParentOf(p)), p)))
    /\ blurred' = IF Lingering(p) \/ p \in Untold THEN blurred \union {p} ELSE blurred
    /\ UNCHANGED <<mode, marks, probes, watch, main, found, known>>

\* The parent is told at once; the directory itself when nothing holds it open any more.
RemoveCgroup(p) ==
    /\ p \in dirs /\ ChildrenOf(p) = {}
    /\ dirs' = dirs \ {p}
    /\ LET d == Directory(p)
           parent == Directory(ParentOf(p))
           delete == Watched(parent, Event("delete", parent, p))
           self == IF d \in sources THEN <<>> ELSE Watched(d, Event("self", d, p))
       IN /\ Queued(delete \o self) \/ Queued(self \o delete)
          /\ marks' = IF d \in sources THEN marks ELSE marks \ {d}
    /\ blurred' = IF p \in found /\ (main = "register" \/ p \notin watchedPaths)
                  THEN blurred \union {p} ELSE blurred
    /\ UNCHANGED <<mode, gen, probes, watch, main, found, known>>

\* The next poll of the source fails (ENODEV): it stops and closes its files.
SourceStops(d) ==
    /\ d \in sources /\ ~Exists(d)
    /\ sources' = sources \ {d}
    /\ Queued(Watched(d, Event("self", d, d[1])))
    /\ marks' = marks \ {d}
    /\ UNCHANGED <<mode, filesystem, zombies, watch, main, found, known, blurred>>

-------------------------------------------------------------------------------
(* The callback: a source for each new cgroup.                             *)

\* CgroupV2Probe opens the files of the cgroup; a missing file is only a warning.
OnCgroupsCreated(new) ==
    /\ sources' = sources \union {Directory(p) : p \in new \intersect dirs}
    /\ zombies' = zombies \union (new \ dirs)

RegisterCgroups(paths) ==
    /\ known' = known \union paths
    /\ OnCgroupsCreated(paths \ known)

-------------------------------------------------------------------------------
(* The watch loop: walking through a directory.                            *)

Walking == todo # <<>> /\ loop # "panicked"
Now(step) == Walking /\ Head(todo).step = step
Continue(visits) == todo' = visits \o Tail(todo)

WalkStat ==
    /\ Now("stat")
    /\ LET p == Head(todo).path
       IN Continue(IF p \in dirs \union {Root} THEN <<Visit("add", p, Directory(p)[2])>> ELSE <<>>)
    /\ UNCHANGED <<mode, filesystem, kernel, probes, loop, batch, created, deleted, needRescan,
                   watchedDirs, watchedPaths, main, found, known, blurred, overflowed>>

\* Mutant of Then: the directory is watched and its sub-directories are not.
ThenNothing(p, g) == Continue(<<>>)

Then(p, g) == Continue(<<Visit("list", p, g)>>)

\* add_watch_dir: the watch is added by path; ENOENT when it has disappeared.
WalkAdd ==
    /\ Now("add")
    /\ LET p == Head(todo).path IN
       /\ Then(p, Head(todo).gen)
       /\ IF p \in watchedPaths
          THEN UNCHANGED <<marks, watchedDirs, watchedPaths, created, deleted>>
          ELSE IF p \in dirs \union {Root}
          THEN /\ marks' = marks \union {Directory(p)}
               /\ watchedDirs' = watchedDirs \union {Directory(p)}
               /\ watchedPaths' = watchedPaths \union {p}
               /\ created' = created \union ({p} \ {Root})
               /\ UNCHANGED deleted
          ELSE /\ deleted' = deleted \union {p}
               /\ UNCHANGED <<marks, watchedDirs, watchedPaths, created>>
    /\ UNCHANGED <<mode, filesystem, events, woken, probes, loop, batch, needRescan, main, found,
                   known, blurred, overflowed>>

\* The entries of the directory that was opened before the watch was added.
WalkList ==
    /\ Now("list")
    /\ LET v == Head(todo)
           children == IF Exists(<<v.path, v.gen>>) THEN ChildrenOf(v.path) ELSE {}
       IN Continue([i \in 1..Len(SetToSeq(children)) |-> Visit("stat", SetToSeq(children)[i], 0)])
    /\ UNCHANGED <<mode, filesystem, kernel, probes, loop, batch, created, deleted, needRescan,
                   watchedDirs, watchedPaths, main, found, known, blurred, overflowed>>

\* The root was walked through: the thread starts, and the scan begins.
StartThread ==
    /\ loop = "setup" /\ mode = "inotify" /\ todo = <<>>
    /\ loop' = "poll" /\ main' = "scan"
    /\ created' = {} /\ deleted' = {}
    /\ UNCHANGED <<mode, filesystem, kernel, probes, todo, batch, needRescan, watchedDirs,
                   watchedPaths, found, known, blurred, overflowed>>

-------------------------------------------------------------------------------
(* The watch loop: events.                                                 *)

\* The poll is edge-triggered and the loop reads once: the events that did not fit in the
\* buffer stay in the queue until the next event wakes it.
ReadEvents ==
    /\ loop = "poll" /\ woken
    /\ woken' = FALSE
    /\ \E n \in 1..Len(events) :
          /\ n >= ReadSize \/ n = Len(events)
          /\ batch' = SubSeq(events, 1, n)
          /\ events' = SubSeq(events, n + 1, Len(events))
    /\ created' = {} /\ deleted' = {} /\ needRescan' = FALSE
    /\ loop' = "process"
    /\ UNCHANGED <<mode, filesystem, marks, probes, todo, watchedDirs, watchedPaths, main, found,
                   known, blurred, overflowed>>

NextEvent(type) == loop = "process" /\ todo = <<>> /\ batch # <<>> /\ Head(batch).type = type

\* An event of a directory that is not in the map is a panic (unwrap).
FindWatchedDir(e) == IF e.wd \in watchedDirs THEN UNCHANGED loop ELSE loop' = "panicked"

ProcessCreate ==
    /\ NextEvent("create")
    /\ FindWatchedDir(Head(batch))
    /\ todo' = <<Visit("stat", Head(batch).path, 0)>>
    /\ batch' = Tail(batch)
    /\ UNCHANGED <<mode, filesystem, kernel, probes, created, deleted, needRescan, watchedDirs,
                   watchedPaths, main, found, known, blurred, overflowed>>

\* Only what is still marked is deleted.
Unmark(p) ==
    /\ watchedPaths' = watchedPaths \ {p}
    /\ deleted' = IF p \in watchedPaths THEN deleted \union {p} ELSE deleted

ProcessDelete ==
    /\ NextEvent("delete")
    /\ FindWatchedDir(Head(batch))
    /\ Unmark(Head(batch).path)
    /\ batch' = Tail(batch)
    /\ UNCHANGED <<mode, filesystem, kernel, probes, todo, created, needRescan, watchedDirs,
                   main, found, known, blurred, overflowed>>

ProcessDeleteSelf ==
    /\ NextEvent("self")
    /\ FindWatchedDir(Head(batch))
    /\ watchedDirs' = watchedDirs \ {Head(batch).wd}
    /\ Unmark(Head(batch).path)
    /\ batch' = Tail(batch)
    /\ UNCHANGED <<mode, filesystem, kernel, probes, todo, created, needRescan, main, found,
                   known, blurred, overflowed>>

ProcessOverflow ==
    /\ NextEvent("overflow")
    /\ needRescan' = TRUE
    /\ batch' = Tail(batch)
    /\ UNCHANGED <<mode, filesystem, kernel, probes, loop, todo, created, deleted, watchedDirs,
                   watchedPaths, main, found, known, blurred, overflowed>>

AfterFs == IF needRescan THEN "rescan" ELSE "poll"

EndBatch ==
    /\ loop = "process" /\ todo = <<>> /\ batch = <<>>
    /\ loop' = IF created \union deleted # {} THEN "forget" ELSE AfterFs
    /\ UNCHANGED <<mode, filesystem, kernel, probes, todo, batch, created, deleted, needRescan,
                   watchedDirs, watchedPaths, main, found, known, blurred, overflowed>>

\* The handler locks the shared state twice: it forgets, then it registers.
HandleDeleted ==
    /\ loop = "forget"
    /\ known' = known \ deleted
    /\ loop' = "register"
    /\ UNCHANGED <<mode, filesystem, kernel, probes, todo, batch, created, deleted, needRescan,
                   watchedDirs, watchedPaths, main, found, blurred, overflowed>>

HandleCreated ==
    /\ loop = "register"
    /\ RegisterCgroups(created)
    /\ loop' = AfterFs
    /\ UNCHANGED <<mode, filesystem, kernel, todo, batch, created, deleted, needRescan,
                   watchedDirs, watchedPaths, main, found, blurred, overflowed>>

\* update_cgroups: the paths of the removed cgroups are relative to the hierarchy,
\* and Cgroup::from_fs_path panics on them.
UpdateCgroups(paths) ==
    IF known \subseteq paths THEN RegisterCgroups(paths) ELSE UNCHANGED <<known, probes>>

Rescan ==
    /\ loop = "rescan"
    /\ UpdateCgroups(dirs)
    /\ loop' = IF known \subseteq dirs THEN "poll" ELSE "panicked"
    /\ UNCHANGED <<mode, filesystem, kernel, todo, batch, created, deleted, needRescan,
                   watchedDirs, watchedPaths, main, found, blurred, overflowed>>

-------------------------------------------------------------------------------
(* The initial scan, and the polling thread.                               *)

FullScan ==
    /\ main = "scan"
    /\ found' = dirs
    /\ main' = "register"
    /\ UNCHANGED <<mode, filesystem, kernel, probes, watch, known, blurred, overflowed>>

RegisterFound ==
    /\ main = "register"
    /\ RegisterCgroups(found)
    /\ main' = "done"
    /\ UNCHANGED <<mode, filesystem, kernel, watch, found, blurred, overflowed>>

PollingRefresh ==
    /\ mode = "poll" /\ main = "done"
    /\ UpdateCgroups(dirs)
    /\ main' = IF known \subseteq dirs THEN "done" ELSE "panicked"
    /\ UNCHANGED <<mode, filesystem, kernel, watch, found, blurred, overflowed>>

DetectionNext ==
    \/ \E p \in Cgroups : CreateCgroup(p) \/ RemoveCgroup(p)
    \/ \E d \in Cgroups \X (1..MaxCreations) : SourceStops(d)
    \/ WalkStat \/ WalkAdd \/ WalkList \/ StartThread
    \/ ReadEvents \/ ProcessCreate \/ ProcessDelete \/ ProcessDeleteSelf \/ ProcessOverflow
    \/ EndBatch \/ HandleDeleted \/ HandleCreated \/ Rescan
    \/ FullScan \/ RegisterFound \/ PollingRefresh

DetectionSpec == DetectionInit /\ [][DetectionNext]_detectionVars

-------------------------------------------------------------------------------
(* Properties.                                                             *)

\* The detector waits for the next change of the filesystem.
Settled == main = "done" /\ loop = "poll"

\* The queue still holds a change of the path or of a parent of it.
LeftUnread(p) == \E i \in DOMAIN events : IsPrefix(events[i].path, p)

\* Neither the path nor a parent of it was reused or removed in one of the windows
\* that the detector leaves open.
Sharp(p) == ~\E q \in blurred : IsPrefix(q, p)

\* When the detector waits, it knows the cgroups that exist and has forgotten the
\* others, however creations, removals, reads, walks and the initial scan were
\* interleaved.  Four kinds of paths are excepted: those with a change that is still
\* in the queue of the kernel, for ever if it did not fit in the buffer of the last
\* read and nothing else happens; and, recorded in blurred, a cgroup of the initial
\* scan that is removed before it is registered or watched, a path used again while
\* the events about its previous directory are not processed, and one used again
\* while a source still holds the previous directory open.
\* Nothing is said after an overflow of the event queue, nor in polling mode.
KnownIsAlive ==
    Settled /\ ~overflowed =>
        \A p \in Cgroups : Sharp(p) /\ ~LeftUnread(p) => (p \in known <=> p \in dirs)
================================================================================
