-------------------------------- MODULE K8sPods --------------------------------
(***************************************************************************)
(* How the plugin k8s finds the pod of a cgroup (src/plugins/cgroups/k8s). *)
(* The set-up of the probes and the transform that annotates the points    *)
(* have each a clone of the registry of the pods, made after the refresh   *)
(* of the start, and share the token of the API.  A lookup that misses     *)
(* refreshes the registry; its steps interleave with those of the other    *)
(* clone, with the expiration of the token and with the life of the pods.  *)
(***************************************************************************)
EXTENDS Integers

CONSTANTS
    Pods,             \* pods of the cluster
    PodPaths,         \* paths <<pod, kind>> of their cgroups: "pod", "container", "cgroupfs"
    Lifetime,         \* of a token of the API
    LastTime          \* bound: seconds

ASSUME K8sAssumption ==
    /\ Lifetime \in Nat \ {0}
    /\ LastTime \in Nat

Registries == {"probe", "transform"}
NoToken == [known |-> FALSE, expires |-> 0]
NoLookup == [pc |-> "idle", group |-> "none", token |-> NoToken, at |-> 0, fault |-> FALSE]

VARIABLES
    plugged,       \* "new", "starting", "failed" or "started"
    annotateContainers,
    seconds,
    token,         \* TokenData, shared by the clones
    nodePods,      \* pods of this node that the API knows
    podGroups,     \* cgroups <<pod, kind of path>> of these pods
    podsOf,         \* registry -> pods that it has cached
    lookup,        \* registry -> its current lookup
    measured,      \* cgroups with a source
    missed         \* cgroups without a source though nothing has failed

podWorld == <<nodePods, podGroups>>
k8sVars == <<plugged, annotateContainers, seconds, token, podWorld, podsOf, lookup, measured,
             missed>>

K8sInit ==
    /\ plugged = "new" /\ annotateContainers \in BOOLEAN /\ seconds = 0
    /\ token = NoToken /\ nodePods = {} /\ podGroups = {}
    /\ podsOf = [r \in Registries |-> {}] /\ lookup = [r \in Registries |-> NoLookup]
    /\ measured = {} /\ missed = {}

\* Mutant of IsAlive: the last second of the token counts as alive one second more.
IsAliveTooLong(t) == seconds =< t.expires

\* The expiration time is exclusive.
IsAlive(t) == seconds < t.expires

\* extract_pod_uid_from_cgroup: the pod named by a cgroup in the form of systemd; the
\* containers count when they are annotated.
Uid(g) ==
    CASE g[2] = "pod" -> g[1]
      [] g[2] = "container" /\ annotateContainers -> g[1]
      [] OTHER -> "none"

-------------------------------------------------------------------------------
(* A lookup.                                                                   *)

\* The lookup of r ends; found is the answer, with the tags of the pod.  The probe makes
\* a source of a cgroup with tags, and gives up the others for good.
EndLookup(r, found, fault) ==
    LET g == lookup[r].group IN
    /\ lookup' = [lookup EXCEPT ![r] = NoLookup]
    /\ IF r = "probe" /\ plugged = "started"
       THEN /\ measured' = IF found THEN measured \union {g} ELSE measured
            /\ missed' = IF ~found /\ ~fault /\ g \in podGroups THEN missed \union {g} ELSE missed
            /\ UNCHANGED plugged
       ELSE /\ UNCHANGED <<measured, missed>>
            /\ plugged' = IF plugged = "started" THEN plugged
                          ELSE IF found THEN "started" ELSE "failed"

\* The first refresh, in start; a clone of the registry is given to the transform.
StartK8s ==
    /\ plugged = "new" /\ plugged' = "starting"
    /\ lookup' = [lookup EXCEPT !["probe"].pc = "check"]
    /\ UNCHANGED <<annotateContainers, seconds, token, podWorld, podsOf, measured, missed>>

\* Mutant of Cached: a pod that is not in the cache does not exist.
CachedOnly(r, p) == TRUE

Cached(r, p) == p \in podsOf[r]

\* attributes_for_cgroup: of a new cgroup for the probe, of any point for the transform.
Lookup(r, g) ==
    /\ plugged = "started" /\ lookup[r].pc = "idle" /\ Uid(g) # "none"
    /\ r = "probe" => g \in podGroups /\ g \notin measured \union missed
    /\ IF Cached(r, Uid(g))
       THEN /\ IF r = "transform" THEN UNCHANGED <<measured, missed>>
               ELSE IF Uid(g) \in podsOf[r] THEN measured' = measured \union {g} /\ missed' = missed
               ELSE missed' = missed \union {g} /\ measured' = measured
            /\ UNCHANGED lookup
       ELSE /\ lookup' = [lookup EXCEPT ![r] = [NoLookup EXCEPT !.pc = "check", !.group = g]]
            /\ UNCHANGED <<measured, missed>>
    /\ UNCHANGED <<plugged, annotateContainers, seconds, token, podWorld, podsOf>>

\* get_value: the token in memory, if it is alive.
CheckToken(r) ==
    /\ lookup[r].pc = "check"
    /\ lookup' = IF token.known /\ IsAlive(token)
                 THEN [lookup EXCEPT ![r].pc = "request", ![r].token = token, ![r].at = seconds]
                 ELSE [lookup EXCEPT ![r].pc = "read"]
    /\ UNCHANGED <<plugged, annotateContainers, seconds, token, podWorld, podsOf, measured,
                   missed>>

\* TokenRetrieval::read and the parsing, outside of the lock: kubectl or the file gives a
\* fresh token.
ReadToken(r) ==
    /\ lookup[r].pc = "read"
    /\ lookup' = [lookup EXCEPT ![r].pc = "write", ![r].at = seconds,
                                ![r].token = [known |-> TRUE, expires |-> seconds + Lifetime]]
    /\ UNCHANGED <<plugged, annotateContainers, seconds, token, podWorld, podsOf, measured,
                   missed>>

\* The other clone may have written a token in between: the last one stays.
WriteToken(r) ==
    /\ lookup[r].pc = "write"
    /\ token' = lookup[r].token
    /\ lookup' = [lookup EXCEPT ![r].pc = "request"]
    /\ UNCHANGED <<plugged, annotateContainers, seconds, podWorld, podsOf, measured, missed>>

\* kubectl or the file fails, the token cannot be parsed, or the API does not answer.
ServiceFails(r) ==
    /\ lookup[r].pc \in {"read", "request"}
    /\ EndLookup(r, FALSE, TRUE)
    /\ UNCHANGED <<annotateContainers, seconds, token, podWorld, podsOf>>

\* list_pods and refresh: the answer to an expired token is not a list of pods.
AnswerPods(r) ==
    /\ lookup[r].pc = "request"
    /\ IF seconds < lookup[r].token.expires
       THEN /\ podsOf' = IF plugged = "starting" THEN [x \in Registries |-> nodePods]
                        ELSE [podsOf EXCEPT ![r] = nodePods]
            /\ EndLookup(r, plugged = "starting" \/ Uid(lookup[r].group) \in nodePods, FALSE)
       ELSE EndLookup(r, FALSE, lookup[r].at # seconds) /\ UNCHANGED podsOf
    /\ UNCHANGED <<annotateContainers, seconds, token, podWorld>>

-------------------------------------------------------------------------------
(* The node (external).                                                        *)

\* The API knows a pod of the node before its cgroups exist, and after.
SchedulePod(p) ==
    /\ p \notin nodePods /\ \A g \in measured \union missed : g[1] # p
    /\ nodePods' = nodePods \union {p}
    /\ UNCHANGED <<plugged, annotateContainers, seconds, token, podGroups, podsOf, lookup,
                   measured,
                   missed>>

CreatePodGroup(g) ==
    /\ g[1] \in nodePods /\ g \notin podGroups
    /\ podGroups' = podGroups \union {g}
    /\ UNCHANGED <<plugged, annotateContainers, seconds, token, nodePods, podsOf, lookup,
                   measured,
                   missed>>

\* The pod ends: its cgroups are removed, then the API forgets it.
RemovePodGroups(p) ==
    /\ \E g \in podGroups : g[1] = p
    /\ podGroups' = {g \in podGroups : g[1] # p}
    /\ UNCHANGED <<plugged, annotateContainers, seconds, token, nodePods, podsOf, lookup,
                   measured,
                   missed>>

ForgetPod(p) ==
    /\ p \in nodePods /\ \A g \in podGroups : g[1] # p
    /\ nodePods' = nodePods \ {p}
    /\ UNCHANGED <<plugged, annotateContainers, seconds, token, podGroups, podsOf, lookup,
                   measured,
                   missed>>

K8sTime ==
    /\ seconds < LastTime /\ seconds' = seconds + 1
    /\ UNCHANGED <<plugged, annotateContainers, token, podWorld, podsOf, lookup, measured,
                   missed>>

K8sNext ==
    \/ StartK8s
    \/ \E r \in Registries, g \in PodPaths : Lookup(r, g)
    \/ \E r \in Registries : CheckToken(r)
    \/ \E r \in Registries : ReadToken(r)
    \/ \E r \in Registries : WriteToken(r)
    \/ \E r \in Registries : ServiceFails(r)
    \/ \E r \in Registries : AnswerPods(r)
    \/ \E p \in Pods : SchedulePod(p)
    \/ \E g \in PodPaths : CreatePodGroup(g)
    \/ \E p \in Pods : RemovePodGroups(p)
    \/ \E p \in Pods : ForgetPod(p)
    \/ K8sTime

K8sSpec == K8sInit /\ [][K8sNext]_k8sVars

-------------------------------------------------------------------------------
(* Properties.                                                                 *)

\* The probe finds the pod of every cgroup that still exists when it looks, whenever the
\* token expires and whatever the other clone does to it: only a failure of the services,
\* or the expiration of the token between its check and its use, leaves a pod unmeasured.
PodsAreMeasured == missed = {}
================================================================================
