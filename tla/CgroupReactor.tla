----------------------------- MODULE CgroupReactor -----------------------------
(***************************************************************************)
(* From the mount of the cgroup filesystems to the sources of the jobs:  *)
(* CgroupMountWait, CgroupReactor and the callbacks of the plugins cgroups *)
(* ("raw"), oar and slurm (src/plugins/cgroups), with the transforms that  *)
(* tell the jobs of a point.  A detector is reduced to what it tells its   *)
(* callback: CgroupDetection has its notifications, CgroupProbe the source *)
(* that follows one cgroup.  Each detector has a thread of its own.        *)
(***************************************************************************)
EXTENDS Sequences, FiniteSets, SequencesExt

CONSTANTS
    Hierarchies,      \* functions from the hierarchies of the node to their version
    Groups,           \* [h, job, steps]: hierarchy, job or NoJob, path under the job
    NoJob,
    Plugins           \* [kind, jobsOnly, level, annotate]

Nobody == "nobody"

\* A node has a finite number of hierarchies and of cgroups.
ASSUME ReactorAssumption ==
    /\ \A v \in Hierarchies : IsFiniteSet(DOMAIN v) /\ Nobody \notin DOMAIN v
    /\ IsFiniteSet(Groups)

VARIABLES
    plugin,      \* the plugin that runs the reactor
    versions,    \* version of each hierarchy
    unseen,      \* mounts that the watcher has not been told of
    gathered,    \* mounts told during the coalescing delay
    mountWatch,       \* "first", "watching", "coalescing", "callback" or "stopped"
    toStart,     \* hierarchies that still need a detector, in the order of the mounts
    shared,      \* SharedCgroupHierarchy
    cachedRoot,  \* cache of the transform
    threads,     \* h -> "none", "idle", "setup", "dispatch" or "dead"
    groups,      \* cgroups that exist
    seen,        \* cgroups that the detectors know
    toSetUp,       \* h -> cgroups given to the callback, then to set up
    ready,       \* h -> sources to dispatch
    asked,     \* cgroups whose source has been asked to the pipeline
    excused,     \* cgroups without a source: refused, failed, or lost with a dispatch
    tracked,     \* JobTracker
    ended,       \* jobs of which the callback has seen a cgroup removed
    open,        \* the pipeline takes requests
    lastPoint    \* last point given to the transforms, with the jobs told on it

detectorVars == <<threads, groups, seen, toSetUp, ready, asked, excused, tracked, ended>>
mountVars == <<unseen, gathered, mountWatch, toStart, shared>>
reactorVars == <<plugin, versions, mountVars, cachedRoot, detectorVars, open, lastPoint>>

NoPoint == [own |-> FALSE, failed |-> FALSE, jobs |-> {}]

ReactorInit ==
    /\ plugin \in Plugins /\ versions \in Hierarchies
    /\ unseen = {} /\ gathered = {} /\ mountWatch = "first" /\ toStart = <<>>
    /\ shared = Nobody /\ cachedRoot = Nobody
    /\ threads = [h \in DOMAIN versions |-> "none"]
    /\ groups = {} /\ seen = {} /\ asked = {} /\ excused = {} /\ tracked = {} /\ ended = {}
    /\ toSetUp = [h \in DOMAIN versions |-> <<>>] /\ ready = [h \in DOMAIN versions |-> <<>>]
    /\ open = TRUE /\ lastPoint = NoPoint

-------------------------------------------------------------------------------
(* The mounts.                                                                 *)

\* A cgroup filesystem is mounted (external); each is mounted once.
Mount(h) ==
    /\ h \notin unseen \union gathered \union {x \in DOMAIN threads : threads[x] # "none"}
    /\ \A i \in DOMAIN toStart : toStart[i] # h
    /\ mountWatch # "stopped" /\ h \in DOMAIN versions
    /\ unseen' = unseen \union {h}
    /\ UNCHANGED <<plugin, versions, gathered, mountWatch, toStart, shared, cachedRoot,
                   detectorVars,
                   open, lastPoint>>

\* v1_coalesce_delay is set by every plugin.
MustWait(mounts) == \E h \in mounts : versions[h] = 1

\* The transform of oar or slurm that tells the job of foreign points.
Annotates == plugin.kind # "raw" /\ plugin.annotate

\* Only slurm gives its callback to the reactor, oar and raw have NoCallback.
HearsMounts == plugin.kind = "slurm" /\ plugin.annotate

\* OptionalSharedHierarchy::on_cgroupfs_mounted
Share(mounts) ==
    shared' = IF HearsMounts /\ \E h \in mounts : versions[h] = 2
              THEN CHOOSE h \in mounts : versions[h] = 2 ELSE shared

\* Mutant of BeginCallback: the callback for the mounts is NoCallback, as in oar.
BeginCallbackUnshared(mounts) ==
    /\ toStart' = SetToSeq(mounts) /\ mountWatch' = "callback"
    /\ UNCHANGED shared

\* Beginning of WaitCallback::on_cgroupfs_mounted.
BeginCallback(mounts) ==
    /\ Share(mounts)
    /\ toStart' = SetToSeq(mounts) /\ mountWatch' = "callback"

\* An event of the watcher: nothing but cgroup filesystems counts.
MountEvent ==
    /\ mountWatch \in {"first", "watching"} /\ unseen # {}
    /\ unseen' = {}
    /\ IF MustWait(unseen)
       THEN mountWatch' = "coalescing" /\ gathered' = unseen /\ UNCHANGED <<toStart, shared>>
       ELSE BeginCallback(unseen) /\ UNCHANGED gathered
    /\ UNCHANGED <<plugin, versions, cachedRoot, detectorVars, open, lastPoint>>

CoalesceDelay ==
    /\ mountWatch = "coalescing"
    /\ BeginCallback(gathered \union unseen)
    /\ gathered' = {} /\ unseen' = {}
    /\ UNCHANGED <<plugin, versions, cachedRoot, detectorVars, open, lastPoint>>

\* CgroupDetector::new for the next hierarchy; its thread starts at once.
StartDetector ==
    /\ mountWatch = "callback" /\ toStart # <<>>
    /\ threads' = [threads EXCEPT ![Head(toStart)] = "idle"]
    /\ toStart' = Tail(toStart)
    /\ UNCHANGED <<plugin, versions, unseen, gathered, mountWatch, shared, cachedRoot, groups,
                   seen,
                   toSetUp, ready, asked, excused, tracked, ended, open, lastPoint>>

\* The error ends the callback: the other hierarchies of the event are lost, and the
\* watcher goes on.
DetectorFails ==
    /\ mountWatch = "callback" /\ toStart # <<>>
    /\ toStart' = <<>> /\ mountWatch' = "watching"
    /\ threads' = [h \in DOMAIN threads |->
                      IF h \in ToSet(toStart) THEN "dead" ELSE threads[h]]
    /\ UNCHANGED <<plugin, versions, unseen, gathered, shared, cachedRoot, groups, seen, toSetUp,
                   ready, asked, excused, tracked, ended, open, lastPoint>>

\* ControlFlow::Break
EndCallback ==
    /\ mountWatch = "callback" /\ toStart = <<>> /\ mountWatch' = "stopped"
    /\ UNCHANGED <<plugin, versions, unseen, gathered, toStart, shared, cachedRoot, detectorVars,
                   open, lastPoint>>

-------------------------------------------------------------------------------
(* The cgroups (external).                                                     *)

CreateGroup(g) ==
    /\ g.h \in DOMAIN versions /\ g \notin groups
    /\ g.steps # <<>> => [g EXCEPT !.steps = Front(@)] \in groups
    /\ g \notin seen          \* bound: CgroupDetection has the cgroups that come back
    /\ g.job \notin ended     \* a job identifier is not used again
    /\ groups' = groups \union {g}
    /\ UNCHANGED <<plugin, versions, mountVars, cachedRoot, threads, seen, toSetUp, ready, asked,
                   excused, tracked, ended, open, lastPoint>>

DeleteGroup(g) ==
    /\ g \in groups
    /\ \A x \in groups : x.h = g.h /\ x.job = g.job /\ IsPrefix(g.steps, x.steps) => x = g
    /\ groups' = groups \ {g}
    /\ UNCHANGED <<plugin, versions, mountVars, cachedRoot, threads, seen, toSetUp, ready, asked,
                   excused, tracked, ended, open, lastPoint>>

-------------------------------------------------------------------------------
(* The detectors and the callbacks of the plugins.                             *)

\* attributes_for_cgroup: job_id, and the steps that the regex of slurm on v2 captures.
\* The regexes are not anchored at their end: a cgroup under that of a job matches.
HasJob(g) == plugin.kind # "raw" /\ g.job # NoJob

Steps(g) == IF plugin.kind = "slurm" /\ versions[g.h] = 2 THEN g.steps ELSE <<>>

\* setup_new_probe of each plugin: is a source wanted?
WantedByRaw(g) == TRUE

WantedByOar(g) == HasJob(g) \/ ~plugin.jobsOnly

WantedBySlurm(g) == IF HasJob(g) THEN Len(Steps(g)) =< plugin.level ELSE ~plugin.jobsOnly

Wanted(g) ==
    CASE plugin.kind = "raw" -> WantedByRaw(g)
      [] plugin.kind = "oar" -> WantedByOar(g)
      [] plugin.kind = "slurm" -> WantedBySlurm(g)

\* on_cgroups_created, with the cgroups found by a scan or an event.
Detect(h) ==
    /\ threads[h] = "idle"
    /\ LET new == {g \in groups \ seen : g.h = h} IN
       \E found \in {s \in SUBSET new : s # {}} :
           /\ toSetUp' = [toSetUp EXCEPT ![h] = SetToSeq(found)]
           /\ seen' = seen \union found
    /\ threads' = [threads EXCEPT ![h] = "setup"]
    /\ UNCHANGED <<plugin, versions, mountVars, cachedRoot, groups, ready, asked, excused,
                   tracked,
                   ended, open, lastPoint>>

\* The next cgroup of the batch, or the dispatch of the sources.
NextOfBatch(h) ==
    /\ toSetUp' = [toSetUp EXCEPT ![h] = Tail(@)]
    /\ threads' = [threads EXCEPT ![h] = IF Len(toSetUp[h]) = 1 THEN "dispatch" ELSE "setup"]

\* Mutant of AfterFailure: a source that cannot be created ends the callback.
AfterFailureEnds(h) ==
    /\ toSetUp' = [toSetUp EXCEPT ![h] = <<>>]
    /\ threads' = [threads EXCEPT ![h] = "dispatch"]

\* The other sources of the batch are created.
AfterFailure(h) == NextOfBatch(h)

\* JobTracker::add
Tracked(g) ==
    IF plugin.kind = "oar" /\ HasJob(g) THEN tracked \union {g.job} ELSE tracked

\* Set-up of one cgroup, whose probe can be made unless the cgroup has disappeared.
SetupProbe(h) ==
    /\ threads[h] = "setup"
    /\ LET g == Head(toSetUp[h]) IN
       /\ tracked' = Tracked(g)
       /\ IF Wanted(g) /\ g \in groups
          THEN /\ ready' = [ready EXCEPT ![h] = Append(@, g)]
               /\ NextOfBatch(h) /\ UNCHANGED excused
          ELSE AfterFailure(h) /\ excused' = excused \union {g} /\ UNCHANGED ready
    /\ UNCHANGED <<plugin, versions, mountVars, cachedRoot, groups, seen, asked, ended, open,
                   lastPoint>>

\* The name of the user of a job of OAR 3 cannot be found: the thread panics.
NoUserName(h) ==
    /\ threads[h] = "setup" /\ plugin.kind = "oar" /\ versions[h] = 2 /\ HasJob(Head(toSetUp[h]))
    /\ threads' = [threads EXCEPT ![h] = "dead"]
    /\ UNCHANGED <<plugin, versions, mountVars, cachedRoot, groups, seen, toSetUp, ready, asked,
                   excused, tracked, ended, open, lastPoint>>

\* A request per source; when one cannot be sent, because the control channel is closed or
\* stays full for DISPATCH_TIMEOUT, the rest of the batch is lost.
Dispatch(h) ==
    /\ threads[h] = "dispatch"
    /\ \/ /\ ready[h] = <<>>
          /\ threads' = [threads EXCEPT ![h] = "idle"]
          /\ UNCHANGED <<ready, asked, excused>>
       \/ /\ ready[h] # <<>> /\ open
          /\ asked' = asked \union {Head(ready[h])}
          /\ ready' = [ready EXCEPT ![h] = Tail(@)]
          /\ UNCHANGED <<threads, excused>>
       \/ /\ ready[h] # <<>>
          /\ excused' = excused \union ToSet(ready[h])
          /\ ready' = [ready EXCEPT ![h] = <<>>]
          /\ threads' = [threads EXCEPT ![h] = "idle"]
          /\ UNCHANGED asked
    /\ UNCHANGED <<plugin, versions, mountVars, cachedRoot, groups, seen, toSetUp, tracked,
                   ended, open,
                   lastPoint>>

\* The control channel is closed.
CloseControl ==
    /\ open /\ open' = FALSE
    /\ UNCHANGED <<plugin, versions, mountVars, cachedRoot, detectorVars, lastPoint>>

\* Mutant of Cleaned: only the first cgroup of the batch is looked at.
CleanedFirst(gone) == LET g == CHOOSE g \in gone : TRUE IN IF HasJob(g) THEN {g.job} ELSE {}

\* Jobs whose cgroups are removed, for JobCleaner.
Cleaned(gone) == {g.job : g \in {x \in gone : HasJob(x)}}

\* on_cgroups_removed
DetectRemoval(h) ==
    /\ threads[h] = "idle"
    /\ \E gone \in {s \in SUBSET {g \in seen \ groups : g.h = h} : s # {}} :
           /\ seen' = seen \ gone
           /\ tracked' = IF plugin.kind = "oar" THEN tracked \ Cleaned(gone) ELSE tracked
           /\ ended' = ended \union {g.job : g \in {x \in gone : HasJob(x)}}
           /\ asked' = asked \ gone
           /\ excused' = excused \ gone
    /\ UNCHANGED <<plugin, versions, mountVars, cachedRoot, threads, groups, toSetUp, ready, open,
                   lastPoint>>

-------------------------------------------------------------------------------
(* The transforms.                                                             *)

\* Mutant of Fetched: the shared value is read once, found or not.
FetchedEmpty == IF lastPoint # NoPoint THEN cachedRoot ELSE shared

\* CachedCgroupHierarchy::fetch
Fetched == IF cachedRoot # Nobody THEN cachedRoot ELSE shared

\* involved_jobs of a point without job_id.
JobsTold == IF plugin.kind = "oar" THEN tracked ELSE {}

\* A point about a cgroup: measured by its own source, or foreign (no attribute yet).
\* JobAnnotationTransform, if it is enabled, then JobInfoAttacher for OAR.
Apply(g, own) ==
    /\ own => g \in asked
    /\ g.h \in DOMAIN versions
    /\ cachedRoot' = IF Annotates THEN Fetched ELSE cachedRoot
    /\ shared' = IF Annotates /\ cachedRoot = Nobody THEN Nobody ELSE shared  \* take()
    /\ LET tags == \/ own /\ HasJob(g)
                   \/ Annotates /\ Fetched = g.h /\ g \in groups /\ HasJob(g)
       IN lastPoint' = [own |-> own, failed |-> Annotates /\ Fetched = Nobody,
                        jobs |-> IF tags THEN {g.job} ELSE JobsTold]
    /\ UNCHANGED <<plugin, versions, unseen, gathered, mountWatch, toStart, detectorVars, open>>

ReactorNext ==
    \/ \E h \in DOMAIN versions : Mount(h)
    \/ MountEvent \/ CoalesceDelay \/ StartDetector \/ DetectorFails \/ EndCallback
    \/ \E g \in Groups : CreateGroup(g)
    \/ \E g \in Groups : DeleteGroup(g)
    \/ \E h \in DOMAIN versions : Detect(h)
    \/ \E h \in DOMAIN versions : SetupProbe(h)
    \/ \E h \in DOMAIN versions : NoUserName(h)
    \/ \E h \in DOMAIN versions : Dispatch(h)
    \/ \E h \in DOMAIN versions : DetectRemoval(h)
    \/ CloseControl
    \/ \E g \in Groups, own \in BOOLEAN : Apply(g, own)

ReactorSpec == ReactorInit /\ [][ReactorNext]_reactorVars

-------------------------------------------------------------------------------
(* Properties.                                                                 *)

\* A cgroup that a detector has told has its source on the way, unless its own set-up
\* or the dispatch failed, or the thread of its detector panicked.
NoGroupForgotten ==
    \A g \in seen : \/ g \in asked \union excused
                    \/ \E i \in DOMAIN toSetUp[g.h] : toSetUp[g.h][i] = g
                    \/ \E i \in DOMAIN ready[g.h] : ready[g.h][i] = g

\* The jobs told on the points of the node are those that run: a tracked job has a
\* cgroup that its detector has not seen removed, and a job is tracked once one of its
\* cgroups has been set up, until one of them has been removed.
RunningJobsAreTracked ==
    plugin.kind = "oar" =>
        /\ \A j \in tracked : \E g \in seen : g.job = j
        /\ \A g \in asked : g.job # NoJob => g.job \in tracked \union ended

\* On a node with cgroup v2 only, a point measured by a source of slurm is never
\* refused by the transform that tells the jobs.
OwnPointsAreAnnotated ==
    plugin.kind = "slurm" /\ lastPoint.own /\ (\A h \in DOMAIN versions : versions[h] = 2) =>
        ~lastPoint.failed
================================================================================
