---------------------------- MODULE MetricRegistry ----------------------------
(***************************************************************************)
(* The metric registry and the task that controls it (MetricRegistryControl*)
(* ::run): requests arrive on a bounded channel, each one is applied to a  *)
(* private copy of the registry, the copy is published, the listeners are  *)
(* told, and the client that asked gets its answer.  Readers look at the   *)
(* published registry at any moment.                                       *)
(*                                                                         *)
(* A name is a tuple of parts, because de-duplication appends parts to it; *)
(* the kind of a metric is its unit and value type, `text` its description.*)
(***************************************************************************)
EXTENDS Integers, Sequences, FiniteSets

CONSTANTS
    Clients,        \* holders of a MetricSender
    Metrics,        \* the definitions that clients register
    Initial,        \* the sequence of those registered before the pipeline starts
    RenameSuffixes,       \* suffixes used to rename a duplicate
    Listeners,      \* metric listeners, each of them subscribed at most once
    EarlyListeners, \* those created before the task starts
    Batches,        \* the sequences of metrics that a request may hold
    QueueSize       \* capacity of the control channel (256 in the code)

ASSUME RegistryAssumption ==
    /\ QueueSize \in Nat \ {0}
    /\ Initial \in Seq(Metrics)
    /\ \A i, j \in DOMAIN Initial : Initial[i].name = Initial[j].name => i = j
    /\ EarlyListeners \subseteq Listeners /\ IsFiniteSet(EarlyListeners)
    /\ Batches \subseteq Seq(Metrics)
    /\ \A m \in Metrics :
          /\ m = [name |-> m.name, kind |-> m.kind, text |-> m.text]
          /\ m.name \in Seq({m.name[i] : i \in DOMAIN m.name})

VARIABLES
    registry,   \* the published registry
    copy,       \* the private copy of the request being handled
    queue,      \* the control channel
    job,        \* the request being handled
    pc,         \* the control task: "idle", "modify", "tell", "reply" or "ended"
    results,    \* results of the request being handled: an id or Failed
    listening,  \* the listeners, in order of subscription
    called,     \* how many of them have been called for this request
    told,       \* told[l]: the pairs <<id, definition>> given to listener l
    client,     \* what each client asked, and what it was answered
    since       \* history: number of metrics when each listener subscribed

registryVars == <<registry, copy, queue, job, pc, results, listening, called, told, client, since>>

Criteria == {"Strict", "Different", "Incompatible"}
Error == "error"    \* DuplicateReaction::Error; a suffix stands for Rename
Failed == -1       \* the result of a metric that was refused
Never == -1        \* the listener has not subscribed

NoJob == [type |-> "none"]

-------------------------------------------------------------------------------
(* MetricRegistry: a map by id and a map by name.                          *)

HasName(reg, name) == name \in DOMAIN reg.byName
ByName(reg, name) == reg.byId[reg.byName[name]]

NewId(reg) == Cardinality(DOMAIN reg.byName)

Extend(f, k, v) == [x \in DOMAIN f \union {k} |-> IF x = k THEN v ELSE f[x]]

RegisterNew(reg, m) ==
    [byId |-> Extend(reg.byId, NewId(reg), m), byName |-> Extend(reg.byName, m.name, NewId(reg))]

Compatible(m1, m2) == m1.name = m2.name /\ m1.kind = m2.kind
Identical(m1, m2)  == Compatible(m1, m2) /\ m1.text = m2.text

Duplicate(criteria, m1, m2) ==
    CASE criteria = "Strict" -> m1.name = m2.name
      [] criteria = "Different" -> ~Identical(m1, m2)
      [] criteria = "Incompatible" -> ~Compatible(m1, m2)

\* The n-th name tried for a duplicate: name_suffix, name_suffix_2, name_suffix_3...
Alternative(m, suffix, n) ==
    IF n = 1 THEN m.name \o <<suffix>> ELSE m.name \o <<suffix, n>>

\* Mutant of Usable: an existing metric is reused whatever its unit and type.
UsableAny(reg, m, name) == TRUE

\* A name is usable when it is free or when it denotes a metric of the same kind.
Usable(reg, m, name) == HasName(reg, name) => ByName(reg, name).kind = m.kind

\* [registry, result] after the registration of m.
Added(reg, m) == [registry |-> RegisterNew(reg, m), result |-> NewId(reg)]
Found(reg, name) == [registry |-> reg, result |-> reg.byName[name]]

\* Mutant of Resolve: the suffix is appended without looking for a conflict.
ResolveBlindly(reg, m, suffix) == Added(reg, [m EXCEPT !.name = Alternative(m, suffix, 1)])

\* resolve_conflict: the first alternative that is usable.
Resolve(reg, m, suffix) ==
    LET tries == 1..(Cardinality(DOMAIN reg.byName) + 1)
        n == CHOOSE n \in tries :
                /\ Usable(reg, m, Alternative(m, suffix, n))
                /\ \A k \in 1..(n - 1) : ~Usable(reg, m, Alternative(m, suffix, k))
        name == Alternative(m, suffix, n)
    IN IF HasName(reg, name) THEN Found(reg, name) ELSE Added(reg, [m EXCEPT !.name = name])

Conflict(reg, m, criteria) == HasName(reg, m.name) /\ Duplicate(criteria, m, ByName(reg, m.name))

\* register_no_duplicate and register_infallible.
Register(reg, m, criteria, onDuplicate) ==
    CASE ~HasName(reg, m.name) -> Added(reg, m)
      [] HasName(reg, m.name) /\ ~Conflict(reg, m, criteria) -> Found(reg, m.name)
      [] Conflict(reg, m, criteria) /\ onDuplicate = Error -> [registry |-> reg, result |-> Failed]
      [] Conflict(reg, m, criteria) /\ onDuplicate # Error -> Resolve(reg, m, onDuplicate)

InitialRegistry ==
    [byId |-> [id \in 0..(Len(Initial) - 1) |-> Initial[id + 1]],
     byName |-> [name \in {Initial[i].name : i \in DOMAIN Initial} |->
                   (CHOOSE i \in DOMAIN Initial : Initial[i].name = name) - 1]]

RegistryInit ==
    /\ registry = InitialRegistry
    /\ copy = registry
    /\ queue = <<>>
    /\ job = NoJob /\ pc = "idle" /\ results = <<>> /\ called = 0
    /\ listening \in {l \in [1..Cardinality(EarlyListeners) -> EarlyListeners] :
                        \A i, j \in DOMAIN l : l[i] = l[j] => i = j}
    /\ told = [l \in Listeners |-> {}]
    /\ client = [c \in Clients |-> [st |-> "idle"]]
    /\ since = [l \in Listeners |-> IF l \in EarlyListeners THEN Len(Initial) ELSE Never]

-------------------------------------------------------------------------------
(* The clients: MetricSender.                                              *)

\* A client asks once; send waits until the channel has room.
SendRegister(c, batch, criteria, onDuplicate) ==
    /\ client[c].st = "idle"
    /\ pc # "ended"
    /\ Len(queue) < QueueSize
    /\ queue' = Append(queue, [type |-> "register", from |-> c, metrics |-> batch,
                                criteria |-> criteria, onDuplicate |-> onDuplicate])
    /\ client' = [client EXCEPT ![c] = [st |-> "waiting", asked |-> batch, onDuplicate |-> onDuplicate]]
    /\ UNCHANGED <<registry, copy, job, pc, results, listening, called, told, since>>

SendSubscribe(l) ==
    /\ since[l] = Never
    /\ \A i \in DOMAIN queue : queue[i] # [type |-> "subscribe", listener |-> l]
    /\ pc # "ended"
    /\ Len(queue) < QueueSize
    /\ queue' = Append(queue, [type |-> "subscribe", listener |-> l])
    /\ UNCHANGED <<registry, copy, job, pc, results, listening, called, told, client, since>>

-------------------------------------------------------------------------------
(* The control task: one request at a time.                                *)

\* Read and copy.
BeginRegister ==
    /\ pc = "idle"
    /\ queue # <<>> /\ Head(queue).type = "register"
    /\ job' = Head(queue)
    /\ queue' = Tail(queue)
    /\ copy' = registry
    /\ results' = <<>>
    /\ pc' = "modify"
    /\ UNCHANGED <<registry, listening, called, told, client, since>>

\* Modify the copy, one metric of the batch at a time.
RegisterOne ==
    /\ pc = "modify"
    /\ Len(results) < Len(job.metrics)
    /\ LET r == Register(copy, job.metrics[Len(results) + 1], job.criteria, job.onDuplicate)
       IN copy' = r.registry /\ results' = Append(results, r.result)
    /\ UNCHANGED <<registry, queue, job, pc, listening, called, told, client, since>>

\* Update: the write lock is held for this assignment only.
Publish ==
    /\ pc = "modify"
    /\ Len(results) = Len(job.metrics)
    /\ registry' = copy
    /\ called' = 0
    /\ pc' = "tell"
    /\ UNCHANGED <<copy, queue, job, results, listening, told, client, since>>

\* The definitions of the ids that were obtained, new or not.
NewMetrics == {<<results[i], copy.byId[results[i]]>> : i \in {i \in DOMAIN results : results[i] # Failed}}

\* The listeners are called one after the other; an error is only logged.
CallListener ==
    /\ pc = "tell"
    /\ called < Len(listening)
    /\ called' = called + 1
    /\ told' = [told EXCEPT ![listening[called + 1]] = @ \union NewMetrics]
    /\ UNCHANGED <<registry, copy, queue, job, pc, results, listening, client, since>>

\* Mutant of Reply: the client is answered while listeners are still being called.
ReplyEarly ==
    /\ pc = "tell"
    /\ client' = [client EXCEPT ![job.from] =
                    [st |-> "answered", asked |-> job.metrics, results |-> results, onDuplicate |-> job.onDuplicate]]
    /\ job' = NoJob
    /\ pc' = "idle"
    /\ UNCHANGED <<registry, copy, queue, results, listening, called, told, since>>

Reply ==
    /\ pc = "tell"
    /\ called = Len(listening)
    /\ client' = [client EXCEPT ![job.from] =
                    [st |-> "answered", asked |-> job.metrics, results |-> results, onDuplicate |-> job.onDuplicate]]
    /\ job' = NoJob
    /\ pc' = "idle"
    /\ UNCHANGED <<registry, copy, queue, results, listening, called, told, since>>

\* A new listener, unless its builder fails.
Subscribe ==
    /\ pc = "idle"
    /\ queue # <<>> /\ Head(queue).type = "subscribe"
    /\ queue' = Tail(queue)
    /\ \/ /\ listening' = Append(listening, Head(queue).listener)
          /\ since' = [since EXCEPT ![Head(queue).listener] = Cardinality(DOMAIN registry.byId)]
       \/ UNCHANGED <<listening, since>>
    /\ UNCHANGED <<registry, copy, job, pc, results, called, told, client>>

\* The end of the pipeline: pending requests are dropped, their clients get an error.
RegistryEnd ==
    /\ pc = "idle"
    /\ pc' = "ended"
    /\ queue' = <<>>
    /\ client' = [c \in Clients |-> IF client[c].st = "waiting" THEN [st |-> "refused"] ELSE client[c]]
    /\ UNCHANGED <<registry, copy, job, results, listening, called, told, since>>

RegistryNext ==
    \/ \E c \in Clients, b \in Batches, k \in Criteria, d \in RenameSuffixes \union {Error} :
          SendRegister(c, b, k, d)
    \/ \E l \in Listeners : SendSubscribe(l)
    \/ BeginRegister \/ RegisterOne \/ Publish \/ CallListener \/ Reply
    \/ Subscribe \/ RegistryEnd

RegistrySpec == RegistryInit /\ [][RegistryNext]_registryVars

-------------------------------------------------------------------------------
(* Properties.                                                             *)

\* The two maps are inverse of each other and the ids are dense.
Sound(reg) ==
    /\ IsFiniteSet(DOMAIN reg.byName)
    /\ DOMAIN reg.byId = 0..(Cardinality(DOMAIN reg.byName) - 1)
    /\ \A id \in DOMAIN reg.byId :
          reg.byId[id].name \in DOMAIN reg.byName /\ reg.byName[reg.byId[id].name] = id
    /\ \A name \in DOMAIN reg.byName :
          reg.byName[name] \in DOMAIN reg.byId /\ reg.byId[reg.byName[name]].name = name

Answers == {c \in Clients : client[c].st = "answered"}
Granted(c) == {i \in DOMAIN client[c].results : client[c].results[i] # Failed}

\* The id that a client got denotes, in the registry that everybody reads, a
\* metric of the unit and type it asked for, and of the name it asked for when
\* it did not accept to be renamed; and the two maps of this registry agree,
\* whatever was renamed, reused or refused.
AnswersTrue ==
    /\ Sound(registry)
    /\ \A c \in Answers : \A i \in Granted(c) :
           LET id == client[c].results[i] IN
           /\ id \in DOMAIN registry.byId
           /\ registry.byId[id].kind = client[c].asked[i].kind
           /\ client[c].onDuplicate = Error => registry.byId[id].name = client[c].asked[i].name

\* New metrics are published, then told to the listeners, then given to the client:
\* a listener never hears of an id that the readers do not see, and who has got
\* an id may use it at once, since every listener knows its definition.
KnownEverywhere ==
    /\ \A l \in Listeners : \A p \in told[l] :
          p[1] \in DOMAIN registry.byId /\ registry.byId[p[1]] = p[2]
    /\ \A c \in Answers, l \in Listeners : \A i \in Granted(c) :
          LET id == client[c].results[i] IN
          since[l] # Never /\ id >= since[l] => <<id, registry.byId[id]>> \in told[l]

\* The registry implements a set of definitions that only grows.
Growing == INSTANCE GrowingRegistry WITH known <- registry.byId

ImplementsGrowing == Growing!Spec
===============================================================================
