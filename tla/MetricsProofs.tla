-------------------------- MODULE MetricsProofs --------------------------
(***************************************************************************)
(* The metrics, from the registry to the server of a relay.  The registry  *)
(* implements a set of definitions that only grows, the answers of its     *)
(* clients are true of it and its listeners know it (MetricRegistry); the  *)
(* server of a relay knows the metrics of the points that it receives, and *)
(* no point is lost (Relay).  For any clients, listeners, metrics, batches *)
(* and suffixes, any sizes of a message and any retries and connections.   *)
(***************************************************************************)
EXTENDS MetricRegistry, Relay, Integers, FiniteSetTheorems, SequenceTheorems, TLAPS

\* The definitions of reg are those of old, and others.
Extends(old, reg) ==
    /\ DOMAIN old.byId \subseteq DOMAIN reg.byId
    /\ \A id \in DOMAIN old.byId : reg.byId[id] = old.byId[id]

\* What a client may be told of a metric m.
Right(reg, m, onDuplicate, id) ==
    /\ id \in Int
    /\ id # Failed =>
          /\ id \in DOMAIN reg.byId
          /\ reg.byId[id].kind = m.kind
          /\ onDuplicate = Error => reg.byId[id].name = m.name

AllRight(reg, batch, onDuplicate, ids) ==
    \A i \in DOMAIN ids : Right(reg, batch[i], onDuplicate, ids[i])

-------------------------------------------------------------------------------
(* The registry as a data structure.                                         *)

\* A set of numbers has a least element.
LEMMA LeastElement ==
    ASSUME NEW T, T \subseteq Nat, T # {}
    PROVE  \E x \in T : \A y \in T : x =< y
  <1> DEFINE I == {1..n : n \in T}
  <1>1. IsWellFoundedOn(StrictSubsetOrdering(Nat), FiniteSubsetsOf(Nat))
    BY FS_StrictSubsetOrderingWellFounded
  <1>2. I \subseteq FiniteSubsetsOf(Nat) /\ I # {}
    <2>1. ASSUME NEW n \in T PROVE IsFiniteSet(1..n) /\ 1..n \in SUBSET Nat
      BY FS_Interval
    <2> QED BY <2>1 DEF FiniteSubsetsOf
  <1> HIDE DEF I
  <1>3. PICK i \in I : \A j \in I : ~(<<j, i>> \in StrictSubsetOrdering(Nat))
    BY <1>1, <1>2, WFMin
  <1>4. PICK x \in T : i = 1..x
    BY <1>3 DEF I
  <1>5. ASSUME NEW y \in T, y < x PROVE FALSE
    <2>1. 1..y \in I BY DEF I
    <2>2. x \in 1..x /\ x \notin 1..y  BY <1>5, <1>4
    <2>3. 1..y \subseteq 1..x /\ 1..y # 1..x BY <1>5, <2>2
    <2>4. 1..y \in SUBSET Nat /\ 1..x \in SUBSET Nat OBVIOUS
    <2>5. <<1..y, 1..x>> \in StrictSubsetOrdering(Nat)
      BY <2>3, <2>4 DEF StrictSubsetOrdering
    <2> QED BY <2>1, <2>5, <1>3, <1>4
  <1> QED BY <1>5

\* The ids of a sound registry are numbers.
LEMMA IdsAreNumbers == ASSUME NEW reg, Sound(reg) PROVE DOMAIN reg.byId \subseteq Int
  <1>1. Cardinality(DOMAIN reg.byName) \in Nat
    BY FS_CardinalityType DEF Sound
  <1> QED BY <1>1 DEF Sound

\* A sound registry stays sound when a metric is added under a free name.
LEMMA AddedIsSound ==
    ASSUME NEW reg, Sound(reg), NEW m, ~HasName(reg, m.name)
    PROVE  /\ Sound(RegisterNew(reg, m)) /\ Extends(reg, RegisterNew(reg, m))
           /\ NewId(reg) \in DOMAIN RegisterNew(reg, m).byId
           /\ RegisterNew(reg, m).byId[NewId(reg)] = m
           /\ NewId(reg) \in Nat
  <1> DEFINE new == RegisterNew(reg, m)
             n == NewId(reg)
  <1>1. IsFiniteSet(DOMAIN reg.byName) /\ n = Cardinality(DOMAIN reg.byName) /\ n \in Nat
    BY FS_CardinalityType DEF Sound, NewId
  <1>2. DOMAIN new.byName = DOMAIN reg.byName \union {m.name}
    BY DEF RegisterNew, Extend
  <1>3. IsFiniteSet(DOMAIN new.byName) /\ Cardinality(DOMAIN new.byName) = n + 1
    BY <1>1, <1>2, FS_AddElement DEF HasName
  <1>4. DOMAIN new.byId = DOMAIN reg.byId \union {n}
    BY DEF RegisterNew, Extend
  <1>5. DOMAIN reg.byId = 0..(n - 1)
    BY <1>1 DEF Sound
  <1>6. DOMAIN new.byId = 0..(Cardinality(DOMAIN new.byName) - 1)
    BY <1>1, <1>3, <1>4, <1>5
  <1>7. n \notin DOMAIN reg.byId
    BY <1>1, <1>5
  <1>8. \A id \in DOMAIN reg.byId : new.byId[id] = reg.byId[id]
    BY <1>7 DEF RegisterNew, Extend
  <1>9. new.byId[n] = m
    BY DEF RegisterNew, Extend
  <1>10. new.byName[m.name] = n
    BY DEF RegisterNew, Extend
  <1>11. \A name \in DOMAIN reg.byName : new.byName[name] = reg.byName[name]
    BY DEF RegisterNew, Extend, HasName
  <1> HIDE DEF new, n
  <1>12. \A id \in DOMAIN new.byId :
            new.byId[id].name \in DOMAIN new.byName /\ new.byName[new.byId[id].name] = id
    <2> TAKE id \in DOMAIN new.byId
    <2>1. CASE id = n
      BY <2>1, <1>9, <1>10, <1>2
    <2>2. CASE id \in DOMAIN reg.byId
      <3>1. reg.byId[id].name \in DOMAIN reg.byName /\ reg.byName[reg.byId[id].name] = id
        BY <2>2 DEF Sound
      <3> QED BY <2>2, <3>1, <1>2, <1>8, <1>11
    <2> QED BY <2>1, <2>2, <1>4
  <1>13. \A name \in DOMAIN new.byName :
            new.byName[name] \in DOMAIN new.byId /\ new.byId[new.byName[name]].name = name
    <2> TAKE name \in DOMAIN new.byName
    <2>1. CASE name = m.name
      BY <2>1, <1>9, <1>10, <1>4
    <2>2. CASE name \in DOMAIN reg.byName
      <3>1. reg.byName[name] \in DOMAIN reg.byId /\ reg.byId[reg.byName[name]].name = name
        BY <2>2 DEF Sound
      <3> QED BY <2>2, <3>1, <1>11, <1>8, <1>4
    <2> QED BY <2>1, <2>2, <1>2
  <1>14. Sound(new)
    BY <1>3, <1>6, <1>12, <1>13 DEF Sound
  <1>15. Extends(reg, new)
    BY <1>4, <1>8 DEF Extends
  <1> QED BY <1>1, <1>4, <1>9, <1>14, <1>15 DEF new, n

\* The names tried for a duplicate are all different.
LEMMA AlternativesDiffer ==
    ASSUME NEW m \in Metrics, NEW suffix, NEW j \in Nat \ {0}, NEW k \in Nat \ {0},
           Alternative(m, suffix, j) = Alternative(m, suffix, k)
    PROVE  j = k
  <1> DEFINE Parts == {m.name[i] : i \in DOMAIN m.name} \union {suffix} \union Nat
             base == m.name
  <1>1. base \in Seq(Parts)
    <2>1. base \in Seq({m.name[i] : i \in DOMAIN m.name})
      BY RegistryAssumption
    <2> QED BY <2>1
  <1>2. <<suffix>> \in Seq(Parts) /\ <<suffix, j>> \in Seq(Parts) /\ <<suffix, k>> \in Seq(Parts)
    OBVIOUS
  <1> HIDE DEF Parts
  <1>3. Len(base \o <<suffix>>) = Len(base) + 1
    BY <1>1, <1>2
  <1>4. \A i \in {j, k} : /\ Len(base \o <<suffix, i>>) = Len(base) + 2
                           /\ (base \o <<suffix, i>>)[Len(base) + 2] = i
    <2> TAKE i \in {j, k}
    <2>1. <<suffix, i>> \in Seq(Parts) BY <1>2
    <2>2. Len(<<suffix, i>>) = 2 /\ <<suffix, i>>[2] = i OBVIOUS
    <2>3. Len(base) \in Nat BY <1>1
    <2> QED BY <1>1, <2>1, <2>2, <2>3
  <1>5. Len(base) \in Nat BY <1>1
  <1>6. CASE j = 1 /\ k = 1
    BY <1>6
  <1>7. CASE j = 1 /\ k # 1
    <2>1. base \o <<suffix>> = base \o <<suffix, k>> BY <1>7 DEF Alternative
    <2> QED BY <2>1, <1>3, <1>4, <1>5
  <1>8. CASE j # 1 /\ k = 1
    <2>1. base \o <<suffix, j>> = base \o <<suffix>> BY <1>8 DEF Alternative
    <2> QED BY <2>1, <1>3, <1>4, <1>5
  <1>9. CASE j # 1 /\ k # 1
    <2>1. base \o <<suffix, j>> = base \o <<suffix, k>> BY <1>9 DEF Alternative
    <2> QED BY <2>1, <1>4
  <1> QED BY <1>6, <1>7, <1>8, <1>9

\* A sound registry has a usable alternative among one more names than it has metrics.
LEMMA SomeAlternativeIsUsable ==
    ASSUME NEW reg, Sound(reg), NEW m \in Metrics, NEW suffix
    PROVE  \E n \in 1..(Cardinality(DOMAIN reg.byName) + 1) :
              /\ Usable(reg, m, Alternative(m, suffix, n))
              /\ \A k \in 1..(n - 1) : ~Usable(reg, m, Alternative(m, suffix, k))
  <1> DEFINE names == DOMAIN reg.byName
             tries == 1..(Cardinality(names) + 1)
             free == {n \in tries : Usable(reg, m, Alternative(m, suffix, n))}
             f == [n \in tries |-> Alternative(m, suffix, n)]
  <1>1. IsFiniteSet(names) /\ Cardinality(names) \in Nat
    BY FS_CardinalityType DEF Sound
  <1>2. IsFiniteSet(tries) /\ Cardinality(tries) = Cardinality(names) + 1
    BY <1>1, FS_Interval
  <1>3. free # {}
    <2> SUFFICES ASSUME free = {} PROVE FALSE OBVIOUS
    <2>1. \A n \in tries : ~Usable(reg, m, Alternative(m, suffix, n))
      OBVIOUS
    <2>2. \A n \in tries : Alternative(m, suffix, n) \in names
      BY <2>1 DEF Usable, HasName
    <2>3. f \in [tries -> names]
      BY <2>2
    <2>4. Cardinality(names) < Cardinality(tries)
      BY <1>1, <1>2
    <2> HIDE DEF f, names, tries
    <2>5. \E j, k \in tries : j # k /\ f[j] = f[k]
      BY <1>1, <1>2, <2>3, <2>4, FS_PigeonHole
    <2>6. PICK j \in tries, k \in tries : j # k /\ f[j] = f[k]
      BY <2>5
    <2>7. Alternative(m, suffix, j) = Alternative(m, suffix, k)
      BY <2>6 DEF f
    <2>8. j \in Nat \ {0} /\ k \in Nat \ {0}
      BY <2>6, <1>1 DEF tries
    <2> QED BY <2>6, <2>7, <2>8, AlternativesDiffer
  <1>4. free \subseteq Nat
    BY <1>1
  <1>5. PICK n \in free : \A k \in free : n =< k
    <2> HIDE DEF free
    <2> QED BY <1>3, <1>4, LeastElement
  <1>6. ASSUME NEW k \in 1..(n - 1) PROVE ~Usable(reg, m, Alternative(m, suffix, k))
    <2>1. k \in tries /\ k < n
      BY <1>1, <1>5
    <2> QED BY <2>1, <1>1, <1>5
  <1> QED BY <1>5, <1>6

\* register_infallible: the metric that is found or added is of the right kind.
LEMMA ResolveIsSound ==
    ASSUME NEW reg, Sound(reg), NEW m \in Metrics, NEW suffix, suffix # Error
    PROVE  LET r == Resolve(reg, m, suffix) IN
           Sound(r.registry) /\ Extends(reg, r.registry) /\ Right(r.registry, m, suffix, r.result)
  <1> DEFINE First(n) == /\ Usable(reg, m, Alternative(m, suffix, n))
                         /\ \A k \in 1..(n - 1) : ~Usable(reg, m, Alternative(m, suffix, k))
             n == CHOOSE n \in 1..(Cardinality(DOMAIN reg.byName) + 1) : First(n)
             name == Alternative(m, suffix, n)
             renamed == [m EXCEPT !.name = name]
  <1>1. Usable(reg, m, name)
    BY SomeAlternativeIsUsable
  <1>2. Resolve(reg, m, suffix) = IF HasName(reg, name) THEN Found(reg, name) ELSE Added(reg, renamed)
    BY DEF Resolve
  <1>3. renamed.name = name /\ renamed.kind = m.kind
    BY RegistryAssumption
  <1> HIDE DEF n, name, renamed
  <1>4. CASE HasName(reg, name)
    <2>1. reg.byName[name] \in DOMAIN reg.byId
      BY <1>4 DEF Sound, HasName
    <2>2. reg.byId[reg.byName[name]].kind = m.kind
      BY <1>1, <1>4 DEF Usable, ByName
    <2> QED BY <1>2, <1>4, <2>1, <2>2, IdsAreNumbers DEF Found, Extends, Right
  <1>5. CASE ~HasName(reg, name)
    <2>1. /\ Sound(RegisterNew(reg, renamed)) /\ Extends(reg, RegisterNew(reg, renamed))
          /\ NewId(reg) \in DOMAIN RegisterNew(reg, renamed).byId
          /\ RegisterNew(reg, renamed).byId[NewId(reg)] = renamed
      BY <1>3, <1>5, AddedIsSound
    <2> QED BY <1>2, <1>3, <1>5, <2>1, IdsAreNumbers DEF Added, Right
  <1> QED BY <1>4, <1>5

\* register_one: the registry stays sound, keeps its metrics, and the result is right.
LEMMA RegisterIsSound ==
    ASSUME NEW reg, Sound(reg), NEW m \in Metrics, NEW criteria \in Criteria, NEW onDuplicate
    PROVE  LET r == Register(reg, m, criteria, onDuplicate) IN
           Sound(r.registry) /\ Extends(reg, r.registry) /\ Right(r.registry, m, onDuplicate, r.result)
  <1> DEFINE r == Register(reg, m, criteria, onDuplicate)
  <1>1. CASE ~HasName(reg, m.name)
    <2>1. r = Added(reg, m)
      BY <1>1 DEF Register, Conflict
    <2>2. /\ Sound(RegisterNew(reg, m)) /\ Extends(reg, RegisterNew(reg, m))
          /\ NewId(reg) \in DOMAIN RegisterNew(reg, m).byId
          /\ RegisterNew(reg, m).byId[NewId(reg)] = m
      BY <1>1, AddedIsSound
    <2> QED BY <2>1, <2>2, IdsAreNumbers DEF Added, Right
  <1>2. CASE HasName(reg, m.name) /\ ~Conflict(reg, m, criteria)
    <2>1. r = Found(reg, m.name)
      BY <1>2 DEF Register
    <2>2. ~Duplicate(criteria, m, ByName(reg, m.name))
      BY <1>2 DEF Conflict
    <2>3. /\ reg.byName[m.name] \in DOMAIN reg.byId
          /\ reg.byId[reg.byName[m.name]] = ByName(reg, m.name)
      BY <1>2 DEF Sound, HasName, ByName
    <2>4. CASE criteria = "Strict"
      <3>1. m.name # ByName(reg, m.name).name
        BY <2>2, <2>4 DEF Duplicate
      <3> QED BY <3>1, <1>2, <2>3 DEF Sound, HasName
    <2>5. CASE criteria \in {"Different", "Incompatible"}
      <3>1. Compatible(m, ByName(reg, m.name))
        BY <2>2, <2>5 DEF Duplicate, Identical
      <3> QED BY <2>1, <2>3, <3>1, IdsAreNumbers DEF Compatible, Found, Right, Extends
    <2> QED BY <2>4, <2>5 DEF Criteria
  <1>3. CASE Conflict(reg, m, criteria) /\ onDuplicate = Error
    <2>1. r = [registry |-> reg, result |-> Failed]
      BY <1>3 DEF Register, Conflict
    <2> QED BY <2>1 DEF Right, Extends, Failed
  <1>4. CASE Conflict(reg, m, criteria) /\ onDuplicate # Error
    <2>1. r = Resolve(reg, m, onDuplicate)
      BY <1>4 DEF Register, Conflict
    <2> QED BY <1>4, <2>1, ResolveIsSound
  <1> QED BY <1>1, <1>2, <1>3, <1>4 DEF Conflict

-------------------------------------------------------------------------------
(* The control task.                                                         *)

Requests ==
    [type : {"register"}, from : Clients, metrics : Seq(Metrics), criteria : Criteria,
     onDuplicate : RenameSuffixes \union {Error}]
      \union [type : {"subscribe"}, listener : Listeners]

\* The request in progress, and the results of the metrics that it has handled so far.
JobOK ==
    pc \in {"modify", "tell"} =>
      /\ job \in Requests /\ job.type = "register"
      /\ results \in Seq(Int) /\ Len(results) =< Len(job.metrics)
      /\ AllRight(copy, job.metrics, job.onDuplicate, results)

AnswersOK ==
    \A c \in Clients : client[c].st = "answered" =>
        AllRight(registry, client[c].asked, client[c].onDuplicate, client[c].results)

\* The inductive invariant: the copy is sound and keeps what is published; it is published
\* before anybody is told of it.
IInv ==
    /\ Sound(registry) /\ Sound(copy) /\ Extends(registry, copy)
    /\ pc = "tell" => registry = copy
    /\ queue \in Seq(Requests)
    /\ DOMAIN client = Clients
    /\ JobOK /\ AnswersOK

\* Ids that were right for a registry are right for what extends it.
LEMMA ExtendsRight ==
    ASSUME NEW old, NEW reg, Extends(old, reg), NEW batch, NEW onDuplicate, NEW ids,
           AllRight(old, batch, onDuplicate, ids)
    PROVE  AllRight(reg, batch, onDuplicate, ids)
  BY DEF Extends, AllRight, Right

\* The registry the agent builds is sound.
LEMMA InitialIsSound == Sound(InitialRegistry)
  <1> DEFINE names == {Initial[i].name : i \in DOMAIN Initial}
             f == [i \in 1..Len(Initial) |-> Initial[i].name]
  <1>1. Initial \in Seq(Metrics) /\ DOMAIN Initial = 1..Len(Initial) /\ Len(Initial) \in Nat
    BY RegistryAssumption
  <1>2. IsFiniteSet(1..Len(Initial)) /\ Cardinality(1..Len(Initial)) = Len(Initial)
    BY SMTT(30), <1>1, FS_Interval
  <1>3. f \in Bijection(1..Len(Initial), names)
    <2>1. f \in [1..Len(Initial) -> names]
      BY <1>1
    <2>2. \A i, j \in 1..Len(Initial) : f[i] = f[j] => i = j
      BY <1>1, RegistryAssumption
    <2>3. \A t \in names : \E i \in 1..Len(Initial) : f[i] = t
      BY <1>1
    <2> HIDE DEF f, names
    <2>4. f \in Injection(1..Len(Initial), names)
      BY <2>1, <2>2 DEF Injection, IsInjective
    <2>5. f \in Surjection(1..Len(Initial), names)
      BY <2>1, <2>3 DEF Surjection
    <2> QED BY <2>4, <2>5 DEF Bijection
  <1>4. IsFiniteSet(names) /\ Cardinality(names) = Len(Initial)
    <2> HIDE DEF f, names
    <2>1. ExistsBijection(1..Len(Initial), names)
      BY <1>3 DEF ExistsBijection
    <2> QED BY <1>2, <2>1, FS_Bijection
  <1>5. DOMAIN InitialRegistry.byName = names /\ DOMAIN InitialRegistry.byId = 0..(Len(Initial) - 1)
    BY DEF InitialRegistry
  <1>6. \A id \in 0..(Len(Initial) - 1) : InitialRegistry.byId[id] = Initial[id + 1]
    BY DEF InitialRegistry
  <1>7. ASSUME NEW i \in DOMAIN Initial
        PROVE  InitialRegistry.byName[Initial[i].name] = i - 1
    <2>1. InitialRegistry.byName[Initial[i].name]
            = (CHOOSE j \in DOMAIN Initial : Initial[j].name = Initial[i].name) - 1
      BY DEF InitialRegistry
    <2>2. (CHOOSE j \in DOMAIN Initial : Initial[j].name = Initial[i].name) = i
      BY RegistryAssumption
    <2> QED BY <2>1, <2>2
  <1>8. ASSUME NEW id \in 0..(Len(Initial) - 1)
        PROVE  /\ InitialRegistry.byId[id].name \in names
               /\ InitialRegistry.byName[InitialRegistry.byId[id].name] = id
    <2>1. id + 1 \in DOMAIN Initial /\ id = (id + 1) - 1
      BY <1>1
    <2> QED BY <2>1, <1>6, <1>7
  <1>9. ASSUME NEW name \in names
        PROVE  /\ InitialRegistry.byName[name] \in 0..(Len(Initial) - 1)
               /\ InitialRegistry.byId[InitialRegistry.byName[name]].name = name
    <2>1. PICK i \in DOMAIN Initial : name = Initial[i].name
      OBVIOUS
    <2>2. i - 1 \in 0..(Len(Initial) - 1) /\ (i - 1) + 1 = i
      BY <1>1
    <2> QED BY <2>1, <2>2, <1>6, <1>7
  <1> HIDE DEF names
  <1> QED BY <1>4, <1>5, <1>8, <1>9 DEF Sound

\* The invariant holds initially.
LEMMA InitOK == RegistryInit => IInv
  <1> SUFFICES ASSUME RegistryInit PROVE IInv
    OBVIOUS
  <1>1. Sound(registry) /\ Sound(copy)
    BY InitialIsSound DEF RegistryInit
  <1>2. Extends(registry, copy)
    BY DEF RegistryInit, Extends
  <1>3. pc = "idle" /\ queue = <<>> /\ DOMAIN client = Clients /\ JobOK
    BY DEF RegistryInit, JobOK
  <1>4. AnswersOK
    BY DEF RegistryInit, AnswersOK
  <1>5. queue \in Seq(Requests)
    BY <1>3
  <1> QED BY <1>1, <1>2, <1>3, <1>4, <1>5 DEF IInv

\* What the clients do.
LEMMA SendRegisterOK ==
    ASSUME IInv, NEW c \in Clients, NEW b \in Batches, NEW k \in Criteria,
           NEW d \in RenameSuffixes \union {Error}, SendRegister(c, b, k, d)
    PROVE  IInv'
  <1>1. queue' \in Seq(Requests)
    <2>1. [type |-> "register", from |-> c, metrics |-> b, criteria |-> k, onDuplicate |-> d]
            \in Requests
      BY RegistryAssumption DEF Requests
    <2>2. queue' = Append(queue, [type |-> "register", from |-> c, metrics |-> b,
                                  criteria |-> k, onDuplicate |-> d])
      BY DEF SendRegister
    <2> HIDE DEF Requests
    <2> QED BY <2>1, <2>2 DEF IInv
  <1>2. AnswersOK'
    <2>1. DOMAIN client = Clients /\ UNCHANGED registry
      BY DEF IInv, SendRegister
    <2>2. client' = [client EXCEPT ![c] = [st |-> "waiting", asked |-> b, onDuplicate |-> d]]
      BY DEF SendRegister
    <2>3. client'[c].st = "waiting"
      BY <2>1, <2>2
    <2>4. \A e \in Clients \ {c} : client'[e] = client[e]
      BY <2>1, <2>2
    <2> QED BY <2>1, <2>3, <2>4 DEF IInv, AnswersOK
  <1>3. DOMAIN client' = Clients
    BY DEF IInv, SendRegister
  <1>4. UNCHANGED <<registry, copy, job, pc, results>>
    BY DEF SendRegister
  <1>5. JobOK'
    BY <1>4 DEF IInv, JobOK
  <1> QED BY <1>1, <1>2, <1>3, <1>4, <1>5 DEF IInv

\* A listener that asks to be told keeps the invariant.
LEMMA SendSubscribeOK ==
    ASSUME IInv, NEW l \in Listeners, SendSubscribe(l)
    PROVE  IInv'
  <1>1. [type |-> "subscribe", listener |-> l] \in Requests
    BY DEF Requests
  <1>2. queue' \in Seq(Requests)
    BY <1>1 DEF IInv, SendSubscribe
  <1>3. UNCHANGED <<registry, copy, job, pc, results, client>>
    BY DEF SendSubscribe
  <1> QED BY <1>2, <1>3 DEF IInv, JobOK, AnswersOK

\* What the control task does.
LEMMA BeginRegisterOK == IInv /\ BeginRegister => IInv'
  <1> SUFFICES ASSUME IInv, BeginRegister PROVE IInv'
    OBVIOUS
  <1>1. Head(queue) \in Requests /\ Head(queue).type = "register" /\ queue' \in Seq(Requests)
    BY DEF IInv, BeginRegister
  <1>2. job' = Head(queue) /\ copy' = registry /\ results' = <<>> /\ pc' = "modify"
        /\ UNCHANGED <<registry, client>>
    BY DEF BeginRegister
  <1>3. JobOK'
    <2>1. job'.metrics \in Seq(Metrics)
      BY <1>1, <1>2 DEF Requests
    <2>2. results' \in Seq(Int) /\ Len(results') =< Len(job'.metrics) /\ DOMAIN results' = {}
      BY <1>2, <2>1
    <2> QED BY <1>1, <1>2, <2>2 DEF JobOK, AllRight
  <1>4. Extends(registry', copy')
    BY <1>2 DEF Extends
  <1>5. Sound(registry') /\ Sound(copy')
    BY <1>2 DEF IInv
  <1>6. AnswersOK' /\ DOMAIN client' = Clients
    BY <1>2 DEF IInv, AnswersOK
  <1> QED BY <1>1, <1>2, <1>3, <1>4, <1>5, <1>6 DEF IInv

\* The registration of one metric of a request keeps the invariant.
LEMMA RegisterOneOK == IInv /\ RegisterOne => IInv'
  <1> SUFFICES ASSUME IInv, RegisterOne PROVE IInv'
    OBVIOUS
  <1> DEFINE n == Len(results) + 1
             r == Register(copy, job.metrics[n], job.criteria, job.onDuplicate)
  <1>1. /\ job \in Requests /\ job.type = "register" /\ pc = "modify"
        /\ results \in Seq(Int) /\ Len(results) < Len(job.metrics)
        /\ AllRight(copy, job.metrics, job.onDuplicate, results)
    BY DEF IInv, JobOK, RegisterOne
  <1>2. job.metrics \in Seq(Metrics) /\ job.criteria \in Criteria
    BY <1>1 DEF Requests
  <1>3. job.metrics[n] \in Metrics /\ n \in 1..Len(job.metrics) /\ Len(results) \in Nat
    BY <1>1, <1>2
  <1>4. copy' = r.registry /\ results' = Append(results, r.result)
        /\ UNCHANGED <<registry, queue, job, pc, client>>
    BY DEF RegisterOne
  <1>5. /\ Sound(r.registry) /\ Extends(copy, r.registry) /\ r.result \in Int
        /\ Right(r.registry, job.metrics[n], job.onDuplicate, r.result)
    BY <1>2, <1>3, RegisterIsSound DEF IInv, Right
  <1> HIDE DEF r
  <1>6. Extends(registry, r.registry)
    BY <1>5 DEF IInv, Extends
  <1>7. JobOK'
    <2>1. results' \in Seq(Int) /\ Len(results') = n /\ n =< Len(job.metrics)
      BY <1>1, <1>3, <1>4, <1>5
    <2>2. AllRight(r.registry, job.metrics, job.onDuplicate, results)
      BY <1>1, <1>5, ExtendsRight
    <2>3. ASSUME NEW i \in DOMAIN results'
          PROVE  Right(r.registry, job.metrics[i], job.onDuplicate, results'[i])
      <3>1. CASE i = n
        BY <3>1, <1>1, <1>4, <1>5
      <3>2. CASE i # n
        <4>1. i \in DOMAIN results /\ results'[i] = results[i]
          BY <3>2, <1>1, <1>4, <2>1
        <4> QED BY <4>1, <2>2 DEF AllRight
      <3> QED BY <3>1, <3>2
    <2>4. AllRight(copy', job'.metrics, job'.onDuplicate, results')
      BY <1>4, <2>3 DEF AllRight
    <2> QED BY <1>1, <1>4, <2>1, <2>4 DEF JobOK
  <1>8. AnswersOK' /\ Sound(registry') /\ Sound(copy') /\ Extends(registry', copy')
    BY <1>4, <1>5, <1>6 DEF IInv, AnswersOK
  <1> QED BY <1>1, <1>4, <1>7, <1>8 DEF IInv

\* The publication of the copy keeps the invariant.
LEMMA PublishOK == IInv /\ Publish => IInv'
  <1> SUFFICES ASSUME IInv, Publish PROVE IInv'
    OBVIOUS
  <1>1. registry' = copy /\ pc = "modify" /\ pc' = "tell"
        /\ UNCHANGED <<copy, queue, job, results, client>>
    BY DEF Publish
  <1>2. AnswersOK'
    <2> SUFFICES ASSUME NEW c \in Clients, client[c].st = "answered"
                 PROVE  AllRight(copy, client[c].asked, client[c].onDuplicate, client[c].results)
      BY <1>1 DEF AnswersOK
    <2>1. AllRight(registry, client[c].asked, client[c].onDuplicate, client[c].results)
      BY DEF IInv, AnswersOK
    <2> QED BY <2>1, ExtendsRight DEF IInv
  <1>3. JobOK'
    BY <1>1 DEF IInv, JobOK
  <1>4. Extends(registry', copy') /\ Sound(registry') /\ Sound(copy')
    BY <1>1 DEF IInv, Extends
  <1> QED BY <1>1, <1>2, <1>3, <1>4 DEF IInv

\* A call of a listener keeps the invariant.
LEMMA CallListenerOK == IInv /\ CallListener => IInv'
  BY DEF IInv, CallListener, JobOK, AnswersOK

\* The answer to the caller keeps the invariant.
LEMMA ReplyOK == IInv /\ Reply => IInv'
  <1> SUFFICES ASSUME IInv, Reply PROVE IInv'
    OBVIOUS
  <1> DEFINE told_ == [st |-> "answered", asked |-> job.metrics, results |-> results,
                       onDuplicate |-> job.onDuplicate]
  <1>1. client' = [client EXCEPT ![job.from] = told_] /\ pc = "tell" /\ pc' = "idle"
        /\ UNCHANGED <<registry, copy, queue, results>>
    BY DEF Reply
  <1>2. AllRight(registry, job.metrics, job.onDuplicate, results)
    BY <1>1 DEF IInv, JobOK
  <1>3. DOMAIN client = Clients /\ DOMAIN client' = Clients
    BY <1>1 DEF IInv
  <1>4. AnswersOK'
    <2> SUFFICES ASSUME NEW c \in Clients, client'[c].st = "answered"
                 PROVE  AllRight(registry, client'[c].asked, client'[c].onDuplicate, client'[c].results)
      BY <1>1 DEF AnswersOK
    <2>1. CASE c = job.from
      <3>1. client'[c] = told_
        BY <2>1, <1>1, <1>3
      <3> QED BY <3>1, <1>2
    <2>2. CASE c # job.from
      <3>1. client'[c] = client[c]
        BY <2>2, <1>1, <1>3
      <3> QED BY <3>1 DEF IInv, AnswersOK
    <2> QED BY <2>1, <2>2
  <1>5. JobOK'
    BY <1>1 DEF JobOK
  <1> QED BY <1>1, <1>3, <1>4, <1>5 DEF IInv

\* The subscription of a listener keeps the invariant.
LEMMA SubscribeOK == IInv /\ Subscribe => IInv'
  <1> SUFFICES ASSUME IInv, Subscribe PROVE IInv'
    OBVIOUS
  <1>1. queue' \in Seq(Requests)
    BY DEF IInv, Subscribe
  <1>2. UNCHANGED <<registry, copy, job, pc, results, client>>
    BY DEF Subscribe
  <1> QED BY <1>1, <1>2 DEF IInv, JobOK, AnswersOK

\* The end of the registry keeps the invariant.
LEMMA RegistryEndOK == IInv /\ RegistryEnd => IInv'
  <1> SUFFICES ASSUME IInv, RegistryEnd PROVE IInv'
    OBVIOUS
  <1>1. queue' = <<>> /\ pc' = "ended" /\ UNCHANGED <<registry, copy, job, results>>
    BY DEF RegistryEnd
  <1>2. \A c \in Clients : client'[c].st = "refused" \/ client'[c] = client[c]
    BY DEF RegistryEnd
  <1>3. DOMAIN client' = Clients
    BY DEF RegistryEnd
  <1>4. AnswersOK'
    BY <1>1, <1>2 DEF IInv, AnswersOK
  <1>5. JobOK' /\ queue' \in Seq(Requests)
    BY <1>1 DEF JobOK
  <1> QED BY <1>1, <1>3, <1>4, <1>5 DEF IInv

\* A step of another component keeps the invariant.
LEMMA StutterOK == IInv /\ UNCHANGED registryVars => IInv'
  BY DEF IInv, registryVars, JobOK, AnswersOK

\* The copy keeps the published registry, is published as a whole, and the results that
\* clients get are right in it.
THEOREM Invariance == RegistrySpec => []IInv
  <1>1. RegistryInit => IInv
    BY InitOK
  <1>2. IInv /\ [RegistryNext]_registryVars => IInv'
    <2> SUFFICES ASSUME IInv, [RegistryNext]_registryVars PROVE IInv'
      OBVIOUS
    <2>1. CASE \E c \in Clients, b \in Batches, k \in Criteria, d \in RenameSuffixes \union {Error} :
                  SendRegister(c, b, k, d)
      BY <2>1, SendRegisterOK
    <2>2. CASE \E l \in Listeners : SendSubscribe(l)
      BY <2>2, SendSubscribeOK
    <2>3. CASE BeginRegister \/ RegisterOne \/ Publish
      BY <2>3, BeginRegisterOK, RegisterOneOK, PublishOK
    <2>4. CASE CallListener \/ Reply \/ Subscribe \/ RegistryEnd
      BY <2>4, CallListenerOK, ReplyOK, SubscribeOK, RegistryEndOK
    <2>5. CASE UNCHANGED registryVars
      BY <2>5, StutterOK
    <2> QED BY <2>1, <2>2, <2>3, <2>4, <2>5 DEF RegistryNext
  <1> QED BY <1>1, <1>2, PTL DEF RegistrySpec

\* The id that a client got denotes a metric of the kind it asked for, and of its name if it
\* did not accept another one (MetricRegistryControl::handle_message).
THEOREM AnswersAreTrue == RegistrySpec => []AnswersTrue
  <1>1. IInv => AnswersTrue
    BY DEF IInv, AnswersOK, AllRight, Right, AnswersTrue, Answers, Granted
  <1> QED BY <1>1, Invariance, PTL

-------------------------------------------------------------------------------
(* The refinement.                                                           *)

LEMMA SoundIsGood == ASSUME NEW reg, Sound(reg) PROVE Growing!Good(reg.byId)
  <1>1. Cardinality(DOMAIN reg.byName) \in Nat
    BY FS_CardinalityType DEF Sound
  <1>2. Growing!DenseIds(reg.byId)
    BY <1>1 DEF Sound, Growing!DenseIds
  <1>3. Growing!UniqueNames(reg.byId)
    BY DEF Sound, Growing!UniqueNames
  <1> QED BY <1>2, <1>3 DEF Growing!Good

\* The registry only grows, and an id keeps its meaning for ever: what everything that stores
\* an id relies on (MetricRegistryControl, ArcSwap of the registry).
THEOREM RegistryGrows == RegistrySpec => ImplementsGrowing
  <1>1. IInv => Growing!Init
    BY SoundIsGood DEF IInv, Growing!Init
  <1>2. IInv /\ IInv' /\ [RegistryNext]_registryVars => [Growing!Grow]_(registry.byId)
    <2> SUFFICES ASSUME IInv, IInv', [RegistryNext]_registryVars
                 PROVE  [Growing!Grow]_(registry.byId)
      OBVIOUS
    <2>1. CASE Publish
      <3>1. registry' = copy
        BY <2>1 DEF Publish
      <3>2. Growing!Good(registry'.byId)
        BY SoundIsGood DEF IInv
      <3>3. Growing!Grow
        BY <3>1, <3>2 DEF IInv, Extends, Growing!Grow
      <3> QED BY <3>3
    <2>2. CASE ~Publish
      <3>1. UNCHANGED registry
        BY <2>2 DEF RegistryNext, registryVars, SendRegister, SendSubscribe, BeginRegister,
                    RegisterOne, CallListener, Reply, Subscribe, RegistryEnd
      <3> QED BY <3>1
    <2> QED BY <2>1, <2>2
  <1> QED BY <1>1, <1>2, Invariance, InitOK, PTL DEF RegistrySpec, ImplementsGrowing, Growing!Spec

-------------------------------------------------------------------------------
(* The listeners.                                                            *)

\* Who listens, and how far the calls for the current request have come.
ListenersOK ==
    /\ listening \in Seq(Listeners) /\ called \in Nat
    /\ since \in [Listeners -> Int] /\ DOMAIN told = Listeners
    /\ \A l \in Listeners : since[l] # Never => \E k \in 1..Len(listening) : listening[k] = l
    /\ pc = "tell" => \A k \in 1..Len(listening) : k =< called => NewMetrics \subseteq told[listening[k]]

ToldOK ==
    \A l \in Listeners : \A p \in told[l] :
        p[1] \in DOMAIN registry.byId /\ registry.byId[p[1]] = p[2]

KnownAnswers ==
    \A c \in Answers, l \in Listeners : \A i \in Granted(c) :
        LET id == client[c].results[i] IN
        since[l] # Never /\ id >= since[l] => <<id, registry.byId[id]>> \in told[l]

LInv == ListenersOK /\ ToldOK /\ KnownAnswers

\* The invariant of the listeners holds initially.
LEMMA LInitOK == RegistryInit => LInv
  <1> SUFFICES ASSUME RegistryInit PROVE LInv
    OBVIOUS
  <1> DEFINE n == Cardinality(EarlyListeners)
  <1>1. IsFiniteSet(EarlyListeners) /\ n \in Nat /\ EarlyListeners \subseteq Listeners
    BY RegistryAssumption, FS_CardinalityType
  <1>2. listening \in [1..n -> EarlyListeners] /\ \A i, j \in 1..n : listening[i] = listening[j] => i = j
    BY DEF RegistryInit
  <1>3. listening \in Surjection(1..n, EarlyListeners)
    <2>1. listening \in Injection(1..n, EarlyListeners)
      BY <1>2 DEF Injection, IsInjective
    <2>2. Cardinality(1..n) = n
      BY <1>1, FS_Interval
    <2> HIDE DEF n
    <2>3. Cardinality(1..n) = Cardinality(EarlyListeners)
      BY <2>2 DEF n
    <2> QED BY <1>1, <2>1, <2>3, FS_Injection
  <1> HIDE DEF n
  <1>4. listening \in Seq(Listeners) /\ Len(listening) = n
    BY <1>1, <1>2
  <1>5. \A l \in Listeners : since[l] # Never => l \in EarlyListeners
    BY DEF RegistryInit
  <1>6. \A l \in EarlyListeners : \E k \in 1..n : listening[k] = l
    BY <1>3 DEF Surjection
  <1>7. called \in Nat /\ pc = "idle" /\ told = [l \in Listeners |-> {}]
    BY DEF RegistryInit
  <1>8. since \in [Listeners -> Int]
    <2>1. Len(Initial) \in Int /\ Never \in Int
      BY RegistryAssumption DEF Never
    <2> QED BY <2>1 DEF RegistryInit
  <1>9. ListenersOK
    BY <1>4, <1>5, <1>6, <1>7, <1>8 DEF ListenersOK
  <1>10. ToldOK
    BY <1>7 DEF ToldOK
  <1>11. Answers = {}
    BY DEF RegistryInit, Answers
  <1> QED BY <1>9, <1>10, <1>11 DEF LInv, KnownAnswers

\* Steps that change neither what is published, nor who was told and answered.
LEMMA AnswersUnchanged ==
    ASSUME KnownAnswers, UNCHANGED <<registry, told, since>>,
           \A c \in Clients : client'[c].st = "answered" => client'[c] = client[c]
    PROVE  KnownAnswers'
  BY DEF KnownAnswers, Answers, Granted

\* The callers disturb no listener.
LEMMA ClientStepsOK ==
    ASSUME IInv, LInv,
           \/ \E c \in Clients, b \in Batches, k \in Criteria, d \in RenameSuffixes \union {Error} :
                 SendRegister(c, b, k, d)
           \/ \E l \in Listeners : SendSubscribe(l)
           \/ RegistryEnd
    PROVE  LInv'
  <1>1. UNCHANGED <<registry, copy, results, listening, called, told, since>> /\ (pc' = "tell" => pc = "tell")
    BY DEF SendRegister, SendSubscribe, RegistryEnd
  <1>2. \A c \in Clients : client'[c].st = "answered" => client'[c] = client[c]
    <2>1. CASE \E c \in Clients, b \in Batches, k \in Criteria, d \in RenameSuffixes \union {Error} :
                  SendRegister(c, b, k, d)
      <3>1. PICK c \in Clients, b \in Batches, d \in RenameSuffixes \union {Error} :
               client' = [client EXCEPT ![c] = [st |-> "waiting", asked |-> b, onDuplicate |-> d]]
        BY <2>1 DEF SendRegister
      <3>2. DOMAIN client = Clients
        BY DEF IInv
      <3>3. client'[c].st = "waiting" /\ \A e \in Clients \ {c} : client'[e] = client[e]
        BY <3>1, <3>2
      <3> QED BY <3>3
    <2>2. CASE \E l \in Listeners : SendSubscribe(l)
      BY <2>2 DEF SendSubscribe
    <2>3. CASE RegistryEnd
      BY <2>3 DEF RegistryEnd
    <2> QED BY <2>1, <2>2, <2>3
  <1>3. KnownAnswers'
    BY <1>1, <1>2, AnswersUnchanged DEF LInv
  <1>4. ListenersOK' /\ ToldOK'
    BY <1>1 DEF LInv, ListenersOK, ToldOK, NewMetrics
  <1> QED BY <1>3, <1>4 DEF LInv

\* A registration under way disturbs no listener.
LEMMA ModifyOK ==
    ASSUME IInv, LInv, BeginRegister \/ RegisterOne
    PROVE  LInv'
  <1>1. UNCHANGED <<registry, listening, called, told, client, since>> /\ pc' = "modify"
    BY DEF BeginRegister, RegisterOne
  <1>2. KnownAnswers'
    BY <1>1, AnswersUnchanged DEF LInv
  <1> QED BY <1>1, <1>2 DEF LInv, ListenersOK, ToldOK

\* The ids that clients got are in the published registry.
LEMMA AnswersAreIds ==
    ASSUME AnswersOK, NEW c \in Answers, NEW i \in Granted(c)
    PROVE  client[c].results[i] \in DOMAIN registry.byId
  BY DEF AnswersOK, Answers, Granted, AllRight, Right

\* The publication keeps the invariant of the listeners.
LEMMA LPublishOK ==
    ASSUME IInv, LInv, Publish
    PROVE  LInv'
  <1>1. registry' = copy /\ called' = 0 /\ UNCHANGED <<copy, results, listening, told, client, since>>
    BY DEF Publish
  <1>2. ListenersOK'
    BY <1>1 DEF LInv, ListenersOK, NewMetrics
  <1>3. ToldOK'
    BY <1>1 DEF IInv, LInv, ToldOK, Extends
  <1>4. \A c \in Answers, l \in Listeners : \A i \in Granted(c) :
           LET id == client[c].results[i] IN
           since[l] # Never /\ id >= since[l] => <<id, copy.byId[id]>> \in told[l]
    <2> SUFFICES ASSUME NEW c \in Answers, NEW l \in Listeners, NEW i \in Granted(c),
                        since[l] # Never, client[c].results[i] >= since[l]
                 PROVE  <<client[c].results[i], copy.byId[client[c].results[i]]>> \in told[l]
      OBVIOUS
    <2>1. client[c].results[i] \in DOMAIN registry.byId
      BY AnswersAreIds DEF IInv
    <2>2. copy.byId[client[c].results[i]] = registry.byId[client[c].results[i]]
      BY <2>1 DEF IInv, Extends
    <2>3. <<client[c].results[i], registry.byId[client[c].results[i]]>> \in told[l]
      BY DEF LInv, KnownAnswers
    <2> QED BY <2>2, <2>3
  <1>5. KnownAnswers'
    BY <1>1, <1>4 DEF KnownAnswers, Answers, Granted
  <1> QED BY <1>2, <1>3, <1>5 DEF LInv

\* A call of a listener tells it what is new, and keeps the invariant of the listeners.
LEMMA LCallListenerOK ==
    ASSUME IInv, LInv, CallListener
    PROVE  LInv'
  <1> DEFINE next == listening[called + 1]
  <1>1. /\ pc = "tell" /\ called < Len(listening) /\ called' = called + 1
        /\ told' = [told EXCEPT ![next] = @ \union NewMetrics]
        /\ UNCHANGED <<registry, copy, pc, results, listening, client, since>>
    BY DEF CallListener
  <1>2. called \in Nat /\ listening \in Seq(Listeners) /\ DOMAIN told = Listeners
    BY DEF LInv, ListenersOK
  <1>3. next \in Listeners
    BY <1>1, <1>2
  <1>4. told'[next] = told[next] \union NewMetrics /\ \A l \in Listeners \ {next} : told'[l] = told[l]
    BY <1>1, <1>2, <1>3
  <1>5. DOMAIN told' = Listeners
    BY <1>1, <1>2
  <1>6. NewMetrics' = NewMetrics
    BY <1>1 DEF NewMetrics
  <1>7. \A l \in Listeners : told[l] \subseteq told'[l]
    BY <1>4
  <1>8. ASSUME NEW k \in 1..Len(listening), k =< called + 1
        PROVE  NewMetrics \subseteq told'[listening[k]]
    <2>1. CASE k = called + 1
      BY <2>1, <1>4
    <2>2. CASE k # called + 1
      <3>1. k =< called /\ listening[k] \in Listeners
        BY <2>2, <1>8, <1>2
      <3>2. NewMetrics \subseteq told[listening[k]]
        BY <3>1, <1>1 DEF LInv, ListenersOK
      <3> QED BY <3>1, <3>2, <1>7
    <2> QED BY <2>1, <2>2
  <1>9. \A p \in NewMetrics : p[1] \in DOMAIN registry.byId /\ registry.byId[p[1]] = p[2]
    <2> SUFFICES ASSUME NEW i \in DOMAIN results, results[i] # Failed
                 PROVE  results[i] \in DOMAIN registry.byId /\ registry = copy
      BY DEF NewMetrics
    <2> QED BY <1>1 DEF IInv, JobOK, AllRight, Right
  <1>10. ListenersOK'
    <2>1. called' \in Nat
      BY <1>1, <1>2
    <2> HIDE DEF next
    <2> QED BY <2>1, <1>1, <1>5, <1>6, <1>8 DEF LInv, ListenersOK
  <1> HIDE DEF next
  <1>11. ToldOK'
    BY <1>1, <1>4, <1>9 DEF LInv, ToldOK
  <1>12. KnownAnswers'
    BY <1>1, <1>7 DEF LInv, KnownAnswers, Answers, Granted
  <1> QED BY <1>10, <1>11, <1>12 DEF LInv

\* After the answer every listener was told, and the invariant of the listeners is kept.
LEMMA LReplyOK ==
    ASSUME IInv, LInv, Reply
    PROVE  LInv'
  <1> DEFINE answer == [st |-> "answered", asked |-> job.metrics, results |-> results,
                        onDuplicate |-> job.onDuplicate]
  <1>1. /\ pc = "tell" /\ called = Len(listening) /\ pc' = "idle"
        /\ client' = [client EXCEPT ![job.from] = answer]
        /\ UNCHANGED <<registry, copy, results, listening, called, told, since>>
    BY DEF Reply
  <1>2. DOMAIN client = Clients /\ registry = copy
    BY <1>1 DEF IInv
  <1>3. ASSUME NEW l \in Listeners, since[l] # Never
        PROVE  NewMetrics \subseteq told[l]
    <2>1. PICK k \in 1..Len(listening) : listening[k] = l
      BY <1>3 DEF LInv, ListenersOK
    <2>2. k =< called
      BY <1>1, <2>1
    <2> QED BY <1>1, <2>1, <2>2 DEF LInv, ListenersOK
  <1>4. ASSUME NEW c \in Clients, client'[c].st = "answered", NEW l \in Listeners, since[l] # Never,
               NEW i \in DOMAIN client'[c].results, client'[c].results[i] # Failed,
               client'[c].results[i] >= since[l]
        PROVE  <<client'[c].results[i], registry.byId[client'[c].results[i]]>> \in told[l]
    <2>1. CASE c = job.from
      <3>1. client'[c].results = results
        BY <2>1, <1>1, <1>2
      <3>2. <<results[i], copy.byId[results[i]]>> \in NewMetrics
        BY <3>1, <1>4 DEF NewMetrics
      <3> QED BY <3>1, <3>2, <1>2, <1>3, <1>4
    <2>2. CASE c # job.from
      <3>1. client'[c] = client[c]
        BY <2>2, <1>1, <1>2
      <3>2. c \in Answers /\ i \in Granted(c)
        BY <3>1, <1>4 DEF Answers, Granted
      <3> QED BY <3>1, <3>2, <1>4 DEF LInv, KnownAnswers
    <2> QED BY <2>1, <2>2
  <1> HIDE DEF answer
  <1>5. KnownAnswers'
    <2> SUFFICES ASSUME NEW c \in Answers', NEW l \in Listeners, NEW i \in Granted(c)',
                        since[l] # Never, client'[c].results[i] >= since[l]
                 PROVE  <<client'[c].results[i], registry.byId[client'[c].results[i]]>> \in told[l]
      BY <1>1 DEF KnownAnswers
    <2>1. c \in Clients /\ client'[c].st = "answered"
      BY DEF Answers
    <2>2. i \in DOMAIN client'[c].results /\ client'[c].results[i] # Failed
      BY DEF Granted
    <2> QED BY <2>1, <2>2, <1>4
  <1>6. ListenersOK' /\ ToldOK'
    BY <1>1 DEF LInv, ListenersOK, ToldOK
  <1> QED BY <1>5, <1>6 DEF LInv

\* A subscription starts from the current copy, and keeps the invariant of the listeners.
LEMMA LSubscribeOK ==
    ASSUME IInv, LInv, Subscribe
    PROVE  LInv'
  <1>1. pc = "idle" /\ UNCHANGED <<registry, copy, pc, results, called, told, client>>
    BY DEF Subscribe
  <1>2. CASE UNCHANGED <<listening, since>>
    BY <1>1, <1>2 DEF LInv, ListenersOK, ToldOK, KnownAnswers, Answers, Granted
  <1>3. CASE /\ listening' = Append(listening, Head(queue).listener)
             /\ since' = [since EXCEPT ![Head(queue).listener] = Cardinality(DOMAIN registry.byId)]
    <2> DEFINE new == Head(queue).listener
               size == Cardinality(DOMAIN registry.byId)
    <2>1. new \in Listeners
      <3>1. queue \in Seq(Requests) /\ queue # <<>> /\ Head(queue).type = "subscribe"
        BY DEF IInv, Subscribe
      <3>2. Head(queue) \in Requests
        BY <3>1
      <3> QED BY <3>1, <3>2 DEF Requests
    <2>2. size \in Nat /\ DOMAIN registry.byId = 0..(size - 1)
      <3>1. Cardinality(DOMAIN registry.byName) \in Nat
        BY FS_CardinalityType DEF IInv, Sound
      <3>2. DOMAIN registry.byId = 0..(Cardinality(DOMAIN registry.byName) - 1)
        BY DEF IInv, Sound
      <3>3. size = Cardinality(DOMAIN registry.byName)
        BY <3>1, <3>2, FS_Interval
      <3> QED BY <3>1, <3>2, <3>3
    <2> HIDE DEF new, size
    <2>3. since' = [since EXCEPT ![new] = size] /\ listening' = Append(listening, new)
      BY <1>3 DEF new, size
    <2>4. since \in [Listeners -> Int] /\ listening \in Seq(Listeners)
      BY DEF LInv, ListenersOK
    <2>5. since' \in [Listeners -> Int] /\ listening' \in Seq(Listeners)
      BY <2>1, <2>2, <2>3, <2>4
    <2>6. since'[new] = size /\ \A l \in Listeners \ {new} : since'[l] = since[l]
      BY <2>1, <2>3, <2>4
    <2>7. ASSUME NEW l \in Listeners, since'[l] # Never
          PROVE  \E k \in 1..Len(listening') : listening'[k] = l
      <3>1. CASE l = new
        <4>1. Len(listening') = Len(listening) + 1 /\ listening'[Len(listening) + 1] = new
              /\ Len(listening) \in Nat
          BY <2>1, <2>3, <2>4
        <4> QED BY <4>1, <3>1
      <3>2. CASE l # new
        <4>1. PICK k \in 1..Len(listening) : listening[k] = l
          BY <3>2, <2>6, <2>7 DEF LInv, ListenersOK
        <4>2. k \in 1..Len(listening') /\ listening'[k] = l
          BY <4>1, <2>1, <2>3, <2>4
        <4> QED BY <4>2
      <3> QED BY <3>1, <3>2
    <2>8. ListenersOK'
      BY <1>1, <2>5, <2>7 DEF LInv, ListenersOK
    <2>9. ASSUME NEW c \in Answers, NEW l \in Listeners, NEW i \in Granted(c),
                 since'[l] # Never, client[c].results[i] >= since'[l]
          PROVE  <<client[c].results[i], registry.byId[client[c].results[i]]>> \in told[l]
      <3>1. client[c].results[i] \in 0..(size - 1)
        BY <2>2, AnswersAreIds DEF IInv
      <3>2. l # new
        BY <3>1, <2>2, <2>6, <2>9
      <3> QED BY <3>2, <2>6, <2>9 DEF LInv, KnownAnswers
    <2>10. KnownAnswers'
      BY <1>1, <2>9 DEF KnownAnswers, Answers, Granted
    <2>11. ToldOK'
      BY <1>1 DEF LInv, ToldOK
    <2> QED BY <2>8, <2>10, <2>11 DEF LInv
  <1> QED BY <1>2, <1>3 DEF Subscribe

\* Whoever has got an id may use it: the listeners that had subscribed when it was given know
\* its definition, and no listener knows a definition that the readers do not see.
THEOREM ListenersKnow == RegistrySpec => []KnownEverywhere
  <1>1. RegistryInit => LInv
    BY LInitOK
  <1>2. IInv /\ LInv /\ [RegistryNext]_registryVars => LInv'
    <2> SUFFICES ASSUME IInv, LInv, [RegistryNext]_registryVars PROVE LInv'
      OBVIOUS
    <2>1. CASE \/ \E c \in Clients, b \in Batches, k \in Criteria, d \in RenameSuffixes \union {Error} :
                     SendRegister(c, b, k, d)
               \/ \E l \in Listeners : SendSubscribe(l)
               \/ RegistryEnd
      BY <2>1, ClientStepsOK
    <2>2. CASE BeginRegister \/ RegisterOne
      BY <2>2, ModifyOK
    <2>3. CASE Publish \/ CallListener \/ Reply \/ Subscribe
      BY <2>3, LPublishOK, LCallListenerOK, LReplyOK, LSubscribeOK
    <2>4. CASE UNCHANGED registryVars
      BY <2>4 DEF registryVars, LInv, ListenersOK, ToldOK, KnownAnswers, Answers, Granted, NewMetrics
    <2> QED BY <2>1, <2>2, <2>3, <2>4 DEF RegistryNext
  <1>3. LInv => KnownEverywhere
    BY DEF LInv, ToldOK, KnownAnswers, KnownEverywhere
  <1> QED BY <1>1, <1>2, <1>3, Invariance, PTL DEF RegistrySpec

-------------------------------------------------------------------------------
(* Sequences that FlattenSeq joins.                                          *)

\* f is what FlattenSeq computes of the first n sequences of s.
Flattens(s, n, f) == f = [i \in 1..n |-> IF i = 1 THEN s[i] ELSE f[i - 1] \o s[i]]

\* The recursive equation of FlattenSeq has one solution.
LEMMA FlattensOnce ==
    ASSUME NEW s, NEW n \in Nat, NEW f, NEW g, Flattens(s, n, f), Flattens(s, n, g)
    PROVE  f = g
  <1> DEFINE T == {i \in 1..n : f[i] # g[i]}
  <1>1. /\ DOMAIN f = 1..n /\ DOMAIN g = 1..n
        /\ f = [i \in DOMAIN f |-> f[i]] /\ g = [i \in DOMAIN g |-> g[i]]
    BY DEF Flattens
  <1>2. \A i \in 1..n : /\ f[i] = IF i = 1 THEN s[i] ELSE f[i - 1] \o s[i]
                        /\ g[i] = IF i = 1 THEN s[i] ELSE g[i - 1] \o s[i]
    BY Zenon DEF Flattens
  <1>3. T = {}
    <2> SUFFICES ASSUME T # {} PROVE FALSE OBVIOUS
    <2>1. PICK i \in T : \A j \in T : i =< j
      <3>1. T \subseteq Nat OBVIOUS
      <3> HIDE DEF T
      <3> QED BY <3>1, LeastElement
    <2>2. i # 1 BY <2>1, <1>2
    <2>3. i - 1 \in 1..n /\ i - 1 \notin T BY <2>1, <2>2
    <2>4. f[i - 1] = g[i - 1] BY <2>3
    <2> QED BY <2>1, <2>2, <2>4, <1>2
  <1> QED BY <1>1, <1>3

\* FlattenSeq is the value of any solution of its equation.
LEMMA FlattenIs ==
    ASSUME NEW s, Len(s) \in Nat \ {0}, NEW f, Flattens(s, Len(s), f)
    PROVE  FlattenSeq(s) = f[Len(s)]
  <1> DEFINE g == CHOOSE g : Flattens(s, Len(s), g)
  <1>1. Flattens(s, Len(s), g) OBVIOUS
  <1>2. g = f BY <1>1, FlattensOnce
  <1>3. FlattenSeq(s) = g[Len(s)]
    BY Zenon DEF FlattenSeq, Flattens
  <1> QED BY <1>2, <1>3

\* Nothing is flattened to nothing.
LEMMA FlattenEmpty == FlattenSeq(<<>>) = <<>>
  BY DEF FlattenSeq

\* The function of one more sequence.
LEMMA FlattensNext ==
    ASSUME NEW s, NEW n \in Nat \ {0}, NEW f, Flattens(s, n, f),
           NEW g, g = [i \in 1..(n + 1) |-> g[i]], g[n + 1] = f[n] \o s[n + 1],
           \A i \in 1..n : g[i] = f[i]
    PROVE  Flattens(s, n + 1, g)
  <1>1. \A i \in 1..n : f[i] = IF i = 1 THEN s[i] ELSE f[i - 1] \o s[i]
    BY Zenon DEF Flattens
  <1>2. ASSUME NEW i \in 1..(n + 1)
        PROVE  g[i] = IF i = 1 THEN s[i] ELSE g[i - 1] \o s[i]
    <2>1. CASE i = n + 1
      <3>1. i # 1 /\ i - 1 = n /\ n \in 1..n BY <2>1
      <3>2. g[n] = f[n] BY <3>1
      <3> QED BY <2>1, <3>1, <3>2
    <2>2. CASE i = 1
      <3>1. i \in 1..n BY <2>2
      <3> QED BY <2>2, <3>1, <1>1
    <2>3. CASE i # n + 1 /\ i # 1
      <3>1. i \in 1..n /\ i - 1 \in 1..n BY <2>3
      <3>2. g[i] = f[i] /\ g[i - 1] = f[i - 1] BY <3>1
      <3> QED BY <2>3, <3>1, <3>2, <1>1
    <2> QED BY <2>1, <2>2, <2>3
  <1> QED BY <1>2 DEF Flattens

\* The same, for a sequence of sequences.
LEMMA FlattensOneMore ==
    ASSUME NEW S, NEW s \in Seq(Seq(S)), NEW k \in 1..Len(s), k # 1,
           NEW f, Flattens(s, k - 1, f), f \in [1..(k - 1) -> Seq(S)]
    PROVE  \E g : Flattens(s, k, g) /\ g \in [1..k -> Seq(S)]
  <1>1. PICK n \in Nat \ {0} : n = k - 1 /\ n + 1 = k OBVIOUS
  <1> DEFINE g == [i \in 1..(n + 1) |-> IF i = n + 1 THEN f[n] \o s[n + 1] ELSE f[i]]
  <1>2. Flattens(s, n + 1, g)
    <2>1. g = [i \in 1..(n + 1) |-> g[i]] OBVIOUS
    <2>2. g[n + 1] = f[n] \o s[n + 1]
      <3>1. n + 1 \in 1..(n + 1) OBVIOUS
      <3> QED BY Zenon, <3>1
    <2>3. \A i \in 1..n : g[i] = f[i]
      <3>1. \A i \in 1..n : i \in 1..(n + 1) /\ i # n + 1 OBVIOUS
      <3> QED BY Zenon, <3>1
    <2>4. Flattens(s, n, f) BY <1>1
    <2> HIDE DEF g
    <2> QED BY <2>1, <2>2, <2>3, <2>4, FlattensNext
  <1>3. g \in [1..k -> Seq(S)]
    <2>1. f \in [1..n -> Seq(S)] /\ n \in 1..n BY <1>1
    <2>2. f[n] \in Seq(S) /\ s[k] \in Seq(S) BY <2>1
    <2>3. f[n] \o s[k] \in Seq(S) BY <2>2
    <2>4. \A i \in 1..k : i # k => i \in 1..n BY <1>1
    <2> QED BY <2>1, <2>3, <2>4, <1>1
  <1> HIDE DEF g
  <1> QED BY <1>1, <1>2, <1>3

\* The recursive equation of FlattenSeq has a solution, made of sequences.
LEMMA FlattensExists ==
    ASSUME NEW S, NEW s \in Seq(Seq(S)), NEW n \in 1..Len(s)
    PROVE  \E f : Flattens(s, n, f) /\ f \in [1..n -> Seq(S)]
  <1> DEFINE T == {k \in 1..Len(s) : ~\E f : Flattens(s, k, f) /\ f \in [1..k -> Seq(S)]}
  <1>1. T = {}
    <2> SUFFICES ASSUME T # {} PROVE FALSE OBVIOUS
    <2>1. PICK k \in T : \A j \in T : k =< j
      <3>1. T \subseteq Nat OBVIOUS
      <3> HIDE DEF T
      <3> QED BY <3>1, LeastElement
    <2>2. CASE k = 1
      <3> DEFINE f == [i \in 1..1 |-> s[i]]
      <3>1. f \in [1..1 -> Seq(S)] BY <2>1, <2>2
      <3>2. f = [i \in 1..1 |-> IF i = 1 THEN s[i] ELSE f[i - 1] \o s[i]] OBVIOUS
      <3>3. Flattens(s, 1, f) BY <3>2 DEF Flattens
      <3> QED BY <2>1, <2>2, <3>1, <3>3
    <2>3. CASE k # 1
      <3>1. k - 1 \in 1..Len(s) /\ k - 1 \in Nat \ {0} /\ k \in Nat
        BY <2>1, <2>3
      <3>6. k - 1 \notin T
        <4> SUFFICES ASSUME k - 1 \in T PROVE FALSE OBVIOUS
        <4>1. k =< k - 1 BY Zenon, <2>1
        <4> QED BY <4>1, <3>1
      <3>2. PICK f : Flattens(s, k - 1, f) /\ f \in [1..(k - 1) -> Seq(S)]
        BY Zenon, <3>1, <3>6
      <3> QED BY Zenon, <2>1, <2>3, <3>2, FlattensOneMore
    <2> QED BY <2>2, <2>3
  <1> QED BY <1>1

\* FlattenSeq of one more sequence.
LEMMA FlattenAppend ==
    ASSUME NEW S, NEW s \in Seq(Seq(S)), NEW x \in Seq(S)
    PROVE  /\ FlattenSeq(s) \in Seq(S)
           /\ FlattenSeq(Append(s, x)) = FlattenSeq(s) \o x
  <1> DEFINE n == Len(s)
             t == Append(s, x)
  <1>1. n \in Nat /\ t \in Seq(Seq(S)) /\ Len(t) = n + 1 /\ t[n + 1] = x
        /\ \A i \in 1..n : t[i] = s[i]
    BY AppendProperties
  <1>2. CASE n = 0
    <2>1. s = <<>> BY <1>2
    <2>2. FlattenSeq(s) = <<>> BY <2>1, FlattenEmpty
    <2> DEFINE f == [i \in 1..1 |-> x]
    <2>3. f = [i \in 1..1 |-> IF i = 1 THEN t[i] ELSE f[i - 1] \o t[i]] BY <1>1, <1>2
    <2>4. Flattens(t, 1, f) BY <2>3 DEF Flattens
    <2>5. Len(t) = 1 BY <1>1, <1>2
    <2> HIDE DEF t
    <2>6. FlattenSeq(t) = x
      <3>1. f[1] = x OBVIOUS
      <3>2. Len(t) \in Nat \ {0} /\ Flattens(t, Len(t), f) BY <2>4, <2>5
      <3> HIDE DEF f
      <3>3. FlattenSeq(t) = f[Len(t)] BY <3>2, FlattenIs
      <3> QED BY <3>1, <3>3, <2>5
    <2>7. <<>> \o x = x BY <2>1
    <2>8. <<>> \in Seq(S) OBVIOUS
    <2> QED BY <2>2, <2>6, <2>7, <2>8 DEF t
  <1>3. CASE n # 0
    <2>1. n \in 1..Len(s) /\ n \in Nat \ {0} BY <1>1, <1>3
    <2>2. PICK f : Flattens(s, n, f) /\ f \in [1..n -> Seq(S)]
      BY <2>1, FlattensExists
    <2>3. FlattenSeq(s) = f[n] BY <2>1, <2>2, FlattenIs
    <2> DEFINE g == [i \in 1..(n + 1) |-> IF i = n + 1 THEN f[n] \o t[n + 1] ELSE f[i]]
    <2>4. Flattens(t, n, f)
      <3>1. [i \in 1..n |-> IF i = 1 THEN t[i] ELSE f[i - 1] \o t[i]]
            = [i \in 1..n |-> IF i = 1 THEN s[i] ELSE f[i - 1] \o s[i]]
        BY <1>1
      <3> QED BY <2>2, <3>1 DEF Flattens
    <2> HIDE DEF t, n
    <2>5. Flattens(t, n + 1, g)
      <3>1. g = [i \in 1..(n + 1) |-> g[i]] OBVIOUS
      <3>2. g[n + 1] = f[n] \o t[n + 1]
        <4>1. n + 1 \in 1..(n + 1) BY <2>1
        <4> QED BY Zenon, <4>1
      <3>3. \A i \in 1..n : g[i] = f[i]
        <4>1. \A i \in 1..n : i \in 1..(n + 1) /\ i # n + 1 BY <2>1
        <4> QED BY Zenon, <4>1
      <3> HIDE DEF g
      <3> QED BY <3>1, <3>2, <3>3, <2>1, <2>4, FlattensNext
    <2>6. g[n + 1] = f[n] \o x BY <1>1
    <2>7. Len(t) \in Nat \ {0} /\ Flattens(t, Len(t), g) BY <1>1, <2>1, <2>5
    <2> HIDE DEF g
    <2>8. FlattenSeq(t) = g[n + 1] BY <1>1, <2>7, FlattenIs
    <2>9. n \in 1..n /\ f[n] \in Seq(S) BY <2>1, <2>2
    <2> QED BY <2>3, <2>6, <2>8, <2>9 DEF t
  <1> QED BY <1>2, <1>3

\* Concatenation, as an operator that the provers need not look into.
Cat(s, t) == s \o t

\* Concatenation is associative.
LEMMA CatIsAssociative ==
    ASSUME NEW S, NEW s \in Seq(S), NEW t \in Seq(S), NEW u \in Seq(S)
    PROVE  /\ Cat(Cat(s, t), u) = Cat(s, Cat(t, u))
           /\ Cat(s, t) \in Seq(S)
  BY ConcatAssociative DEF Cat

\* FlattenSeq begins with the first sequence.
LEMMA FlattenFirst ==
    ASSUME NEW S, NEW s \in Seq(Seq(S)), s # <<>>
    PROVE  FlattenSeq(s) = Head(s) \o FlattenSeq(Tail(s))
  <1> DEFINE Bad(r) == FlattenSeq(r) # Head(r) \o FlattenSeq(Tail(r))
             T == {n \in Nat \ {0} : \E r \in Seq(Seq(S)) : Len(r) = n /\ Bad(r)}
  <1>1. T = {}
    <2> SUFFICES ASSUME T # {} PROVE FALSE OBVIOUS
    <2>1. PICK n \in T : \A j \in T : n =< j
      <3>1. T \subseteq Nat OBVIOUS
      <3> HIDE DEF T
      <3> QED BY <3>1, LeastElement
    <2>2. PICK r \in Seq(Seq(S)) : Len(r) = n /\ Bad(r)
      BY <2>1
    <2>3. PICK p \in Seq(Seq(S)), x \in Seq(S) : r = Append(p, x)
      <3>1. r # <<>> BY <2>1, <2>2
      <3> QED BY <3>1, SequenceEmptyOrAppend
    <2>4. FlattenSeq(r) = FlattenSeq(p) \o x /\ FlattenSeq(p) \in Seq(S)
      BY <2>3, FlattenAppend
    <2>5. CASE p = <<>>
      <3>1. Head(r) = x /\ Tail(r) = <<>>
        BY <2>3, <2>5, HeadTailAppend
      <3>2. <<>> \o x = x /\ x \o <<>> = x
        BY ConcatEmptySeq
      <3>3. ~Bad(r)
        BY <2>4, <2>5, <3>1, <3>2, FlattenEmpty
      <3> QED BY <2>2, <3>3
    <2>6. CASE p # <<>>
      <3>1. Head(r) = Head(p) /\ Tail(r) = Append(Tail(p), x)
        BY <2>3, <2>6, HeadTailAppend
      <3>2. Head(p) \in Seq(S) /\ Tail(p) \in Seq(Seq(S))
        BY <2>6, HeadTailProperties
      <3>3. FlattenSeq(Tail(r)) = FlattenSeq(Tail(p)) \o x /\ FlattenSeq(Tail(p)) \in Seq(S)
        BY <3>1, <3>2, FlattenAppend
      <3>4. Len(p) \in Nat \ {0} /\ Len(p) < n
        <4>1. Len(r) = Len(p) + 1 BY <2>3, AppendProperties
        <4>2. Len(p) \in Nat \ {0} BY <2>6, EmptySeq
        <4> QED BY <4>1, <4>2, <2>2
      <3>5. ~Bad(p)
        <4>1. Len(p) \notin T
          <5> SUFFICES ASSUME Len(p) \in T PROVE FALSE OBVIOUS
          <5>1. n =< Len(p) BY Zenon, <2>1
          <5>2. n \in Nat BY <2>1
          <5> QED BY <5>1, <5>2, <3>4
        <4> QED BY Zenon, <4>1, <3>4
      <3>6. FlattenSeq(p) = Head(p) \o FlattenSeq(Tail(p))
        BY Zenon, <3>5
      <3>7. /\ FlattenSeq(p) = Cat(Head(p), FlattenSeq(Tail(p)))
            /\ FlattenSeq(Tail(r)) = Cat(FlattenSeq(Tail(p)), x)
            /\ FlattenSeq(r) = Cat(FlattenSeq(p), x)
        BY <2>4, <3>3, <3>6 DEF Cat
      <3>8. FlattenSeq(r) = Cat(Head(r), FlattenSeq(Tail(r)))
        <4>0. x \in Seq(S) /\ FlattenSeq(Tail(p)) \in Seq(S) /\ Head(p) \in Seq(S)
          BY <2>3, <3>2, <3>3
        <4>1. \A a, b, c \in Seq(S) : Cat(Cat(a, b), c) = Cat(a, Cat(b, c))
          BY CatIsAssociative
        <4>2. Cat(Cat(Head(p), FlattenSeq(Tail(p))), x) = Cat(Head(p), Cat(FlattenSeq(Tail(p)), x))
          BY Zenon, <4>0, <4>1
        <4> QED BY Zenon, <4>2, <3>1, <3>7
      <3>9. FlattenSeq(r) = Head(r) \o FlattenSeq(Tail(r))
        BY <3>8 DEF Cat
      <3> QED BY Zenon, <2>2, <3>9
    <2> QED BY <2>5, <2>6
  <1>2. Len(s) \in Nat \ {0} BY EmptySeq
  <1> QED BY Zenon, <1>1, <1>2

-------------------------------------------------------------------------------
(* The relay: the invariant.                                                 *)

Point == [rank : Nat, metric : Nat]
\* A message holds definitions or points.
Message == {m \in [register : SUBSET Nat, points : Seq(Point)] : m.points = <<>> \/ m.register = {}}
Readers == {"header", "body", "rejected", "disconnected", "failed"}
Stream ==
    [messages : Seq(Message), written : Nat, open : BOOLEAN, reset : BOOLEAN,
     read : Nat, fresh : Nat, taken : Nat, reader : Readers, known : SUBSET Nat]

RelayTypeOK ==
    /\ published \in Nat /\ heard \in Nat /\ usable \in Nat
    /\ inMetrics \in Seq(SUBSET Nat) /\ inPoints \in Seq(Point)
    /\ made \in Nat /\ closing \in BOOLEAN
    /\ out \in {"connect", "select", "poll", "write", "reconnect", "ended", "failed"}
    /\ polled \in Nat
    /\ buffer \in Seq(Point) /\ rest \in Seq(Point) /\ message \in Message
    /\ conn \in Seq(Stream)
    /\ delivered \in Seq(Nat) /\ faulty \in BOOLEAN /\ raced \in SUBSET Nat

\* The server of a connection has not ended.
Runs(c) == c.reader \in {"header", "body"}

\* The metrics defined by the first n messages of a connection.
Defined(c, n) == UNION {c.messages[i].register : i \in 1..n}

Uses(ps, ms) == \A i \in DOMAIN ps : ps[i].metric \in ms

\* The last message that the server took has a measurement of a metric of late.
Refused(c, late) ==
    /\ c.taken > 0
    /\ \E i \in DOMAIN c.messages[c.taken].points :
          c.messages[c.taken].points[i].metric \in late \ c.known

\* The server takes whole messages that were written, knows what they define, and each
\* measurement comes after the definition of its metric, or its metric is one of late.  A
\* server that refuses a message does so for one of these.
StreamIsSound(c, late) ==
    /\ c.taken * MessageSize <= c.read
    /\ c.read <= c.written
    /\ c.written <= Len(c.messages) * MessageSize
    /\ Defined(c, c.taken) \subseteq c.known
    /\ \A j \in 1..Len(c.messages) : Uses(c.messages[j].points, Defined(c, j - 1) \union late)
    /\ c.reader = "rejected" => Refused(c, late)

Connected == out \in {"select", "poll", "write"}

\* What the current connection defines, once what waits in the output is written.
Defs == Defined(conn[CurrentConn], Len(conn[CurrentConn].messages))

MetricsOrdered == usable <= heard /\ heard <= published

\* Outside of the connection nothing uses a metric that is not in the registry.
PointsAreHeard ==
    /\ Uses(inPoints, 1..usable)
    /\ Uses(buffer, 1..heard) /\ Uses(rest, 1..heard) /\ Uses(message.points, 1..heard)

\* The definition of metric m is on its way to the output.
Waits(m) == \E i \in DOMAIN inMetrics : m \in inMetrics[i]

\* The current connection, unless its server is gone, defines what it is given to read.
DefinesFirst ==
    Connected =>
        /\ CurrentConn > 0
        /\ ~conn[CurrentConn].reset =>
            /\ \A m \in 1..heard : m \in Defs \/ m \in message.register \/ Waits(m)
            /\ out = "poll" => 1..polled \subseteq Defs
            /\ Uses(message.points, Defs \union raced)

\* What the output has buffered was told before it polled the metrics.
PolledFirst == out = "poll" => polled <= heard /\ Uses(buffer, 1..polled)

\* A message that is not being written holds nothing; what it holds are the points of
\* the buffer, or definitions.
MessageInv ==
    /\ out \in {"connect", "select", "poll"} => message = NoMessage
    /\ message.points \in {<<>>, buffer}

RelayInv ==
    /\ RelayTypeOK
    /\ MetricsOrdered
    /\ PointsAreHeard
    /\ DefinesFirst /\ PolledFirst
    /\ MessageInv
    /\ \A k \in DOMAIN conn : StreamIsSound(conn[k], raced)

-------------------------------------------------------------------------------
(* Sequences of points.                                                      *)

LEMMA UsesFewer ==
    ASSUME NEW ps, NEW ms, NEW ns, ms \subseteq ns, Uses(ps, ms)
    PROVE  Uses(ps, ns)
  BY DEF Uses

\* No point uses no metric.
LEMMA UsesNothing == ASSUME NEW ms PROVE Uses(<<>>, ms)
  BY DEF Uses

\* Points that use known metrics, with one more of them.
LEMMA UsesAppended ==
    ASSUME NEW ps \in Seq(Point), NEW p \in Point, NEW ms, Uses(ps, ms), p.metric \in ms
    PROVE  Append(ps, p) \in Seq(Point) /\ Uses(Append(ps, p), ms)
  BY AppendProperties DEF Uses

\* The first of a batch of points and the others use the metrics of the batch.
LEMMA UsesFirst ==
    ASSUME NEW ps \in Seq(Point), ps # <<>>, NEW ms, Uses(ps, ms)
    PROVE  /\ Head(ps) \in Point /\ Tail(ps) \in Seq(Point)
           /\ Uses(<<Head(ps)>>, ms) /\ Head(ps).metric \in ms /\ Uses(Tail(ps), ms)
           /\ <<Head(ps)>> \in Seq(Point)
  <1>1. Len(ps) \in Nat \ {0} /\ Head(ps) = ps[1] /\ 1 \in DOMAIN ps
    BY EmptySeq
  <1>2. Head(ps) \in Point /\ Tail(ps) \in Seq(Point) /\ Len(Tail(ps)) = Len(ps) - 1
        /\ \A i \in 1..Len(Tail(ps)) : Tail(ps)[i] = ps[i + 1]
    BY HeadTailProperties
  <1>3. Head(ps).metric \in ms
    BY <1>1 DEF Uses
  <1>4. ASSUME NEW i \in DOMAIN Tail(ps) PROVE Tail(ps)[i].metric \in ms
    <2>1. i \in 1..Len(Tail(ps)) /\ i + 1 \in DOMAIN ps
      BY <1>1, <1>2
    <2> QED BY <1>2, <2>1 DEF Uses
  <1> QED BY <1>2, <1>3, <1>4 DEF Uses

\* The ranks of points are numbers, one for each point.
LEMMA RanksAreNumbers ==
    ASSUME NEW ps \in Seq(Point)
    PROVE  /\ Ranks(ps) \in Seq(Nat) /\ Len(Ranks(ps)) = Len(ps)
           /\ \A i \in 1..Len(ps) : Ranks(ps)[i] = ps[i].rank
  <1>1. Len(ps) \in Nat /\ DOMAIN ps = 1..Len(ps) /\ \A i \in 1..Len(ps) : ps[i].rank \in Nat
    <2>1. \A i \in 1..Len(ps) : ps[i] \in Point BY ElementOfSeq
    <2>2. \A p \in Point : p.rank \in Nat BY DEF Point
    <2> QED BY <2>1, <2>2
  <1>2. Ranks(ps) = [i \in 1..Len(ps) |-> ps[i].rank]
    BY <1>1 DEF Ranks
  <1>3. Ranks(ps) \in [1..Len(ps) -> Nat]
    BY <1>1, <1>2
  <1> QED BY <1>1, <1>2, <1>3

-------------------------------------------------------------------------------
(* One connection.                                                           *)

LEMMA MessageSizeIsPositive == MessageSize \in Nat \ {0}
  BY RelayAssumption DEF MessageSize

\* The empty message is a message.
LEMMA NoMessageIsMessage == NoMessage \in Message /\ NoMessage.points = <<>> /\ NoMessage.register = {}
  BY DEF NoMessage, Message

\* What a record of a connection says, field by field.
LEMMA NewStream ==
    ASSUME NEW m \in Message, m.points = <<>>, NEW late
    PROVE  /\ Connection(m) \in Stream
           /\ StreamIsSound(Connection(m), late)
           /\ Len(Connection(m).messages) = 1
           /\ Defined(Connection(m), 1) = m.register
  <1> DEFINE c == Connection(m)
  <1>1. /\ c.messages = <<m>> /\ c.written = MessageSize /\ c.read = 0 /\ c.taken = 0
        /\ c.fresh = 0 /\ c.reader = "header" /\ c.known = {} /\ c.open = TRUE /\ c.reset = FALSE
    BY DEF Connection
  <1>2. c \in Stream
    <2>1. <<m>> \in Seq(Message) OBVIOUS
    <2> QED BY <2>1, MessageSizeIsPositive DEF Connection, Stream, Readers
  <1>3. Defined(c, 1) = m.register /\ Defined(c, 0) = {}
    BY <1>1 DEF Defined
  <1>4. \A j \in 1..Len(c.messages) : Uses(c.messages[j].points, Defined(c, j - 1) \union late)
    BY <1>1, UsesNothing
  <1> HIDE DEF c
  <1>5. StreamIsSound(c, late)
    <2>1. 0 * MessageSize = 0 /\ 1 * MessageSize = MessageSize BY MessageSizeIsPositive
    <2>2. c.taken * MessageSize <= c.read /\ c.read <= c.written
          /\ c.written <= Len(c.messages) * MessageSize
      BY <1>1, <2>1, MessageSizeIsPositive
    <2> QED BY <1>1, <1>3, <1>4, <2>2 DEF StreamIsSound
  <1> QED BY <1>1, <1>2, <1>3, <1>5 DEF c

\* The connection defines the metrics of message m, or they are in raced.
Fits(m, c) == Uses(m.points, Defined(c, Len(c.messages)) \union raced)

\* A message of which n units are written.
LEMMA WrittenStream ==
    ASSUME NEW c \in Stream, StreamIsSound(c, raced), NEW m \in Message,
           Fits(m, c), NEW n \in 0..MessageSize,
           NEW d \in Stream, d.messages = Append(c.messages, m), d.written = c.written + n,
           d.read = c.read, d.taken = c.taken, d.known = c.known, d.reader = c.reader
    PROVE  /\ StreamIsSound(d, raced)
           /\ Defined(d, Len(d.messages)) = Defined(c, Len(c.messages)) \union m.register
  <1> DEFINE len == Len(c.messages)
  <1>2. /\ d.messages \in Seq(Message) /\ Len(d.messages) = len + 1 /\ len \in Nat
        /\ \A i \in 1..len : d.messages[i] = c.messages[i]
        /\ d.messages[len + 1] = m
    BY AppendProperties DEF Stream
  <1>4. \A j \in 0..len : Defined(d, j) = Defined(c, j)
    BY <1>2 DEF Defined
  <1>5. Defined(d, len + 1) = Defined(c, len) \union m.register
    BY <1>2 DEF Defined
  <1>6. c.taken \in 0..len
    <2>1. c.taken * MessageSize <= len * MessageSize /\ c.taken \in Nat /\ len \in Nat
      <3>1. /\ c.taken * MessageSize <= c.read /\ c.read <= c.written
            /\ c.written <= len * MessageSize /\ c.taken \in Nat /\ c.read \in Nat /\ c.written \in Nat
        BY DEF StreamIsSound, Stream
      <3>2. c.taken * MessageSize \in Nat /\ len * MessageSize \in Nat
        <4>1. MessageSize \in Nat /\ len \in Nat /\ c.taken \in Nat
          BY <1>2, <3>1, MessageSizeIsPositive
        <4> HIDE DEF len
        <4>2. \A x, y \in Nat : x * y \in Nat
          OBVIOUS
        <4> QED BY <4>1, <4>2
      <3> DEFINE low == c.taken * MessageSize
                 high == len * MessageSize
      <3>3. low <= c.read /\ c.read <= c.written /\ c.written <= high
        BY <3>1
      <3> HIDE DEF len, low, high
      <3>4. low <= high
        BY <3>1, <3>2, <3>3 DEF low, high
      <3> QED BY <1>2, <3>1, <3>4 DEF low, high
    <2> HIDE DEF len
    <2> QED BY <2>1, MessageSizeIsPositive
  <1>7. ASSUME NEW j \in 1..(len + 1) PROVE Uses(d.messages[j].points, Defined(d, j - 1) \union raced)
    <2>1. CASE j \in 1..len
      <3>1. d.messages[j] = c.messages[j] /\ Defined(d, j - 1) = Defined(c, j - 1)
        BY <2>1, <1>2, <1>4
      <3>2. Uses(c.messages[j].points, Defined(c, j - 1) \union raced)
        BY <2>1 DEF StreamIsSound
      <3> QED BY Zenon, <3>1, <3>2
    <2>2. CASE j = len + 1
      <3>1. d.messages[j] = m /\ j - 1 = len /\ Defined(d, len) = Defined(c, len)
        BY <2>2, <1>2, <1>4
      <3>2. Defined(d, j - 1) = Defined(c, Len(c.messages)) BY <3>1
      <3> QED BY Zenon, <3>1, <3>2 DEF Fits
    <2> QED BY <2>1, <2>2, <1>2
  <1>8. /\ d.taken * MessageSize <= d.read /\ d.read <= d.written
        /\ d.written <= (len + 1) * MessageSize
    <2>1. /\ c.taken * MessageSize <= c.read /\ c.read <= c.written
          /\ c.written <= len * MessageSize /\ c.read \in Nat /\ c.written \in Nat
      BY DEF StreamIsSound, Stream
    <2>2. (len + 1) * MessageSize = len * MessageSize + MessageSize
      BY <1>2, MessageSizeIsPositive
    <2> QED BY <2>1, <2>2, <1>2, MessageSizeIsPositive
  <1>9. StreamIsSound(d, raced)
    <2>1. Defined(d, d.taken) \subseteq d.known
      BY <1>4, <1>6 DEF StreamIsSound
    <2>2. d.reader = "rejected" => Refused(d, raced)
      <3>1. ASSUME c.taken > 0 PROVE d.messages[d.taken] = c.messages[c.taken]
        BY <3>1, <1>2, <1>6
      <3> QED BY <3>1 DEF StreamIsSound, Refused
    <2> QED BY <2>1, <2>2, <1>2, <1>7, <1>8 DEF StreamIsSound
  <1> QED BY <1>2, <1>5, <1>9

\* A change of nothing but the flags and the units read.
LEMMA SameStream ==
    ASSUME NEW c \in Stream, NEW late, StreamIsSound(c, late), NEW d \in Stream,
           d.messages = c.messages, d.written = c.written, d.taken = c.taken,
           d.known = c.known, d.reader = "rejected" => c.reader = "rejected",
           c.read <= d.read, d.read <= d.written
    PROVE  StreamIsSound(d, late)
  <1>1. \A n : Defined(d, n) = Defined(c, n)
    BY DEF Defined
  <1>2. c.taken * MessageSize <= d.read
    BY MessageSizeIsPositive DEF StreamIsSound, Stream
  <1>3. Refused(c, late) => Refused(d, late)
    BY DEF Refused
  <1> QED BY <1>1, <1>2, <1>3 DEF StreamIsSound

\* More metrics may be late.
LEMMA LaterStream ==
    ASSUME NEW c, NEW late, NEW more, late \subseteq more, StreamIsSound(c, late)
    PROVE  StreamIsSound(c, more)
  <1>1. Refused(c, late) => Refused(c, more)
    BY DEF Refused
  <1>2. \A j \in 1..Len(c.messages) : Uses(c.messages[j].points, Defined(c, j - 1) \union more)
    <2> TAKE j \in 1..Len(c.messages)
    <2>1. Uses(c.messages[j].points, Defined(c, j - 1) \union late) BY DEF StreamIsSound
    <2> QED BY <2>1, UsesFewer
  <1> QED BY <1>1, <1>2 DEF StreamIsSound

\* The next message is complete: the server knows the metrics of its points, or they are late.
LEMMA TakenStream ==
    ASSUME NEW c \in Stream, NEW late, StreamIsSound(c, late), Buffered(c) >= MessageSize
    PROVE  /\ c.taken + 1 \in 1..Len(c.messages)
           /\ (c.taken + 1) * MessageSize <= c.read
           /\ Uses(c.messages[c.taken + 1].points, c.known \union late)
           /\ Defined(c, c.taken + 1) \subseteq c.known \union c.messages[c.taken + 1].register
  <1>1. c.taken \in Nat /\ c.read \in Nat /\ c.written \in Nat /\ Len(c.messages) \in Nat
    BY DEF Stream
  <1>2. (c.taken + 1) * MessageSize = c.taken * MessageSize + MessageSize
    BY <1>1, MessageSizeIsPositive
  <1>3. (c.taken + 1) * MessageSize <= c.read
    BY <1>1, <1>2, MessageSizeIsPositive DEF Buffered
  <1>4. (c.taken + 1) * MessageSize <= Len(c.messages) * MessageSize
    BY <1>1, <1>3, MessageSizeIsPositive DEF StreamIsSound
  <1>5. c.taken + 1 <= Len(c.messages)
    <2> DEFINE a == c.taken + 1
               b == Len(c.messages)
    <2>1. a \in Nat /\ b \in Nat /\ a * MessageSize <= b * MessageSize
      BY <1>1, <1>4
    <2> HIDE DEF a, b
    <2>2. a <= b BY <2>1, MessageSizeIsPositive
    <2> QED BY <2>2 DEF a, b
  <1>6. c.taken + 1 \in 1..Len(c.messages)
    BY <1>1, <1>5
  <1>7. \A j \in 1..Len(c.messages) : Uses(c.messages[j].points, Defined(c, j - 1) \union late)
    BY DEF StreamIsSound
  <1>8. (c.taken + 1) - 1 = c.taken BY <1>1
  <1>9. Uses(c.messages[c.taken + 1].points, c.known \union late)
    <2>1. Uses(c.messages[c.taken + 1].points, Defined(c, c.taken) \union late)
      BY Zenon, <1>6, <1>7, <1>8
    <2>2. Defined(c, c.taken) \union late \subseteq c.known \union late BY DEF StreamIsSound
    <2> QED BY <2>1, <2>2, UsesFewer
  <1>10. Defined(c, c.taken + 1) \subseteq Defined(c, c.taken) \union c.messages[c.taken + 1].register
    BY <1>1 DEF Defined
  <1> QED BY <1>3, <1>6, <1>9, <1>10 DEF StreamIsSound

\* The server takes a complete message.
LEMMA ProcessedStream ==
    ASSUME NEW c \in Stream, NEW late, StreamIsSound(c, late), Buffered(c) >= MessageSize,
           NEW d \in Stream, d.messages = c.messages, d.written = c.written, d.read = c.read,
           d.taken = c.taken + 1, d.known = c.known \union c.messages[c.taken + 1].register,
           d.reader = "rejected" => Refused(d, late)
    PROVE  StreamIsSound(d, late)
  <1>1. /\ d.taken \in 1..Len(c.messages) /\ d.taken * MessageSize <= c.read
        /\ Defined(c, d.taken) \subseteq d.known
    BY TakenStream
  <1>2. \A n : Defined(d, n) = Defined(c, n)
    BY DEF Defined
  <1>3. d.taken * MessageSize <= d.read /\ d.read <= d.written
        /\ d.written <= Len(d.messages) * MessageSize
    BY <1>1 DEF StreamIsSound
  <1>4. Defined(d, d.taken) \subseteq d.known
    BY <1>1, <1>2
  <1>5. \A j \in 1..Len(d.messages) : Uses(d.messages[j].points, Defined(d, j - 1) \union late)
    BY <1>2 DEF StreamIsSound
  <1> QED BY <1>3, <1>4, <1>5 DEF StreamIsSound

\* Closing a connection changes nothing of what it holds.
LEMMA ClosedStream ==
    ASSUME NEW c \in Stream, NEW late, StreamIsSound(c, late)
    PROVE  CloseOne(c) \in Stream /\ StreamIsSound(CloseOne(c), late)
  <1> DEFINE d == CloseOne(c)
  <1>1. /\ d.messages = c.messages /\ d.written = c.written /\ d.taken = c.taken
        /\ d.known = c.known /\ d.reader = c.reader /\ d.read = c.read /\ d \in Stream
    BY DEF CloseOne, Stream
  <1>2. c.read <= d.read /\ d.read <= d.written
    BY <1>1 DEF StreamIsSound, Stream
  <1> HIDE DEF d
  <1>3. StreamIsSound(d, late) BY <1>1, <1>2, SameStream
  <1> QED BY <1>1, <1>3 DEF d

\* The server gives the connection up.
LEMMA ResetStream ==
    ASSUME NEW d, d = [Connection(NoMessage) EXCEPT !.reader = "failed", !.reset = TRUE], NEW late
    PROVE  d \in Stream /\ StreamIsSound(d, late) /\ d.reset = TRUE
  <1> DEFINE c == Connection(NoMessage)
  <1>1. c \in Stream /\ StreamIsSound(c, late)
    BY NoMessageIsMessage, NewStream
  <1> HIDE DEF c
  <1>2. /\ d.messages = c.messages /\ d.written = c.written /\ d.taken = c.taken
        /\ d.known = c.known /\ d.reader = "failed" /\ d.read = c.read /\ d \in Stream
        /\ d.reset = TRUE
    <2>1. d = [c EXCEPT !.reader = "failed", !.reset = TRUE] BY DEF c
    <2> QED BY <1>1, <2>1 DEF Stream, Readers
  <1>3. d.reader # "rejected" /\ c.read <= d.read /\ d.read <= d.written
    BY <1>1, <1>2 DEF StreamIsSound, Stream
  <1> QED BY <1>1, <1>2, <1>3, SameStream

-------------------------------------------------------------------------------
(* The invariant: the agent.                                                 *)

StreamsAreSound == \A k \in DOMAIN conn : StreamIsSound(conn[k], raced)

\* Nothing changes but the part of the agent that is not the inputs.
LEMMA SameSent ==
    ASSUME UNCHANGED <<conn, raced>>
    PROVE  Defs' = Defs /\ CurrentConn' = CurrentConn /\ (StreamsAreSound => StreamsAreSound')
  BY DEF Defs, CurrentConn, StreamsAreSound

\* The invariant of the relay holds initially.
LEMMA RelayInitInv == RelayInit => RelayInv
  <1> SUFFICES ASSUME RelayInit PROVE RelayInv OBVIOUS
  <1>1. InitialMetrics \in Nat /\ <<1..InitialMetrics>> \in Seq(SUBSET Nat)
    <2>1. InitialMetrics \in Nat BY RelayAssumption
    <2>2. 1..InitialMetrics \in SUBSET Nat BY <2>1
    <2> QED BY <2>1, <2>2
  <1>2. RelayTypeOK
    <2>1. \A S : <<>> \in Seq(S) OBVIOUS
    <2> QED BY <1>1, <2>1, NoMessageIsMessage DEF RelayInit, RelayTypeOK
  <1>3. MetricsOrdered /\ PointsAreHeard
    BY <1>1, UsesNothing, NoMessageIsMessage DEF RelayInit, MetricsOrdered, PointsAreHeard
  <1>4. DefinesFirst /\ PolledFirst /\ MessageInv
    BY NoMessageIsMessage DEF RelayInit, DefinesFirst, PolledFirst, MessageInv, Connected
  <1>5. \A k \in DOMAIN conn : StreamIsSound(conn[k], raced)
    BY DEF RelayInit
  <1> QED BY <1>2, <1>3, <1>4, <1>5 DEF RelayInv

\* Points that use the first m metrics use the first n, for n >= m.
LEMMA UsesUpTo ==
    ASSUME NEW ps, NEW m \in Nat, NEW n \in Nat, m <= n, Uses(ps, 1..m)
    PROVE  Uses(ps, 1..n)
  <1>1. 1..m \subseteq 1..n OBVIOUS
  <1> QED BY <1>1, UsesFewer

\* A step of the registry keeps the invariant of the relay: metrics are only added.
LEMMA AgentKeepsInv ==
    ASSUME RelayInv, PublishMetric \/ AnswerSource \/ StopStream
    PROVE  RelayInv'
  <1>1. /\ UNCHANGED <<heard, inMetrics, inPoints, made, output, conn, delivered, faulty, raced>>
        /\ published' \in Nat /\ usable' \in Nat /\ closing' \in BOOLEAN
        /\ published <= published' /\ usable <= usable' /\ MetricsOrdered'
    <2>1. /\ published \in Nat /\ usable \in Nat /\ heard \in Nat /\ closing \in BOOLEAN
          /\ usable <= heard /\ heard <= published
      BY DEF RelayInv, RelayTypeOK, MetricsOrdered
    <2>2. CASE PublishMetric
      BY <2>1, <2>2 DEF MetricsOrdered, PublishMetric
    <2>3. CASE AnswerSource
      BY <2>1, <2>3 DEF MetricsOrdered, AnswerSource
    <2>4. CASE StopStream
      BY <2>1, <2>4 DEF MetricsOrdered, StopStream
    <2> QED BY <2>2, <2>3, <2>4
  <1>2. RelayTypeOK'
    BY <1>1 DEF RelayInv, RelayTypeOK, output
  <1>3. PointsAreHeard'
    <2>1. Uses(inPoints, 1..usable')
      BY <1>1, UsesUpTo DEF RelayInv, RelayTypeOK, PointsAreHeard
    <2> QED BY <1>1, <2>1 DEF RelayInv, PointsAreHeard, output
  <1>4. DefinesFirst' /\ PolledFirst' /\ MessageInv' /\ StreamsAreSound'
    BY <1>1, SameSent DEF RelayInv, DefinesFirst, PolledFirst, MessageInv, StreamsAreSound, Connected,
                          output, CurrentConn, Waits
  <1> QED BY <1>1, <1>2, <1>3, <1>4 DEF RelayInv, StreamsAreSound

\* The step LateMetrics keeps the invariant.
LEMMA LateMetricsKeepsInv == ASSUME RelayInv, LateMetricsHook PROVE RelayInv'
  <1>1. /\ UNCHANGED <<published, usable, inPoints, made, closing, output, conn, delivered, faulty, raced>>
        /\ heard' = heard + 1 /\ heard \in Nat /\ heard < published
        /\ inMetrics' = Append(inMetrics, {heard + 1})
    BY DEF RelayInv, RelayTypeOK, LateMetricsHook
  <1>2. /\ inMetrics' \in Seq(SUBSET Nat)
        /\ \A m : Waits(m)' <=> Waits(m) \/ m = heard + 1
    <2>1. {heard + 1} \in SUBSET Nat /\ inMetrics \in Seq(SUBSET Nat)
      BY <1>1 DEF RelayInv, RelayTypeOK
    <2>2. /\ inMetrics' \in Seq(SUBSET Nat) /\ Len(inMetrics') = Len(inMetrics) + 1
          /\ \A i \in 1..Len(inMetrics) : inMetrics'[i] = inMetrics[i]
          /\ inMetrics'[Len(inMetrics) + 1] = {heard + 1}
      BY <1>1, <2>1, AppendProperties
    <2>3. DOMAIN inMetrics' = DOMAIN inMetrics \union {Len(inMetrics) + 1}
          /\ DOMAIN inMetrics = 1..Len(inMetrics)
      BY <2>1, <2>2
    <2> QED BY <2>2, <2>3 DEF Waits
  <1>3. RelayTypeOK' /\ MetricsOrdered'
    BY <1>1, <1>2 DEF RelayInv, RelayTypeOK, MetricsOrdered, output
  <1>4. PointsAreHeard'
    <2>1. Uses(buffer, 1..heard') /\ Uses(rest, 1..heard') /\ Uses(message.points, 1..heard')
      BY <1>1, UsesUpTo DEF RelayInv, RelayTypeOK, PointsAreHeard
    <2> QED BY <1>1, <2>1 DEF RelayInv, PointsAreHeard, output
  <1>5. DefinesFirst'
    <2> SUFFICES ASSUME Connected'
                 PROVE /\ CurrentConn' > 0
                       /\ ~conn'[CurrentConn'].reset =>
                             /\ \A m \in 1..heard' : m \in Defs' \/ m \in message'.register \/ Waits(m)'
                             /\ out' = "poll" => 1..polled' \subseteq Defs'
                             /\ Uses(message'.points, Defs' \union raced')
      BY DEF DefinesFirst
    <2>1. Connected /\ Defs' = Defs /\ CurrentConn' = CurrentConn
      BY <1>1, SameSent DEF Connected, output
    <2>2. 1..heard' = 1..heard \union {heard + 1}
      BY <1>1
    <2> QED BY <1>1, <1>2, <2>1, <2>2 DEF RelayInv, DefinesFirst, output
  <1>6. MessageInv' /\ StreamsAreSound' /\ PolledFirst'
    <2>1. polled \in Nat BY DEF RelayInv, RelayTypeOK
    <2> QED BY <1>1, <2>1, SameSent DEF RelayInv, MessageInv, StreamsAreSound, PolledFirst, output
  <1> QED BY <1>3, <1>4, <1>5, <1>6 DEF RelayInv, StreamsAreSound

\* The step Measure keeps the invariant.
LEMMA MeasureKeepsInv == ASSUME RelayInv, Measure PROVE RelayInv'
  <1>1. /\ UNCHANGED <<published, heard, usable, inMetrics, closing, output, conn, delivered, faulty, raced>>
        /\ made' = made + 1 /\ made \in Nat /\ usable \in Nat /\ usable > 0
        /\ inPoints' = Append(inPoints, [rank |-> made + 1, metric |-> usable])
        /\ inPoints \in Seq(Point) /\ Uses(inPoints, 1..usable)
    BY DEF RelayInv, RelayTypeOK, Measure, PointsAreHeard
  <1>2. inPoints' \in Seq(Point) /\ Uses(inPoints', 1..usable)
    <2> DEFINE p == [rank |-> made + 1, metric |-> usable]
    <2>1. p \in Point /\ p.metric \in 1..usable BY <1>1 DEF Point
    <2> HIDE DEF p
    <2>2. inPoints' = Append(inPoints, p) BY <1>1 DEF p
    <2> QED BY <1>1, <2>1, <2>2, UsesAppended
  <1>3. RelayTypeOK' /\ MetricsOrdered'
    BY <1>1, <1>2 DEF RelayInv, RelayTypeOK, MetricsOrdered, output
  <1>4. PointsAreHeard'
    BY <1>1, <1>2 DEF RelayInv, PointsAreHeard, output
  <1>5. DefinesFirst' /\ PolledFirst' /\ MessageInv' /\ StreamsAreSound'
    BY <1>1, SameSent DEF RelayInv, DefinesFirst, PolledFirst, MessageInv, StreamsAreSound, Connected,
                          output, CurrentConn, Waits
  <1> QED BY <1>3, <1>4, <1>5 DEF RelayInv, StreamsAreSound

-------------------------------------------------------------------------------
(* The invariant: the output.                                                *)

LEMMA AllClosedAreSound ==
    ASSUME RelayInv
    PROVE  /\ AllClosed \in Seq(Stream) /\ Len(AllClosed) = Len(conn)
           /\ \A k \in 1..Len(conn) : StreamIsSound(AllClosed[k], raced) /\ AllClosed[k] = CloseOne(conn[k])
  <1>1. conn \in Seq(Stream) /\ Len(conn) \in Nat /\ DOMAIN conn = 1..Len(conn)
    BY DEF RelayInv, RelayTypeOK
  <1>2. \A k \in 1..Len(conn) : conn[k] \in Stream /\ StreamIsSound(conn[k], raced)
    BY <1>1 DEF RelayInv
  <1>3. \A k \in 1..Len(conn) : CloseOne(conn[k]) \in Stream /\ StreamIsSound(CloseOne(conn[k]), raced)
    BY <1>2, ClosedStream
  <1> QED BY <1>1, <1>3 DEF AllClosed

\* A new connection begins with the whole registry.
LEMMA ReconnectedIsSound ==
    ASSUME RelayInv, Reconnected
    PROVE  /\ conn' \in Seq(Stream) /\ CurrentConn' > 0 /\ Defs' = 1..published
           /\ \A k \in DOMAIN conn' : StreamIsSound(conn'[k], raced)
  <1> DEFINE first == Connection(Greeting)
  <1>1. /\ first \in Stream /\ StreamIsSound(first, raced)
        /\ Len(first.messages) = 1 /\ Defined(first, 1) = 1..published
    <2>1. /\ Greeting \in Message /\ Greeting.points = <<>> /\ Greeting.register = 1..published
      BY DEF Greeting, Definitions, Message, RelayInv, RelayTypeOK
    <2> QED BY <2>1, NewStream
  <1> HIDE DEF first
  <1>2. conn' = Append(AllClosed, first)
    BY DEF Reconnected, first
  <1>3. /\ AllClosed \in Seq(Stream)
        /\ \A k \in 1..Len(AllClosed) : StreamIsSound(AllClosed[k], raced)
    BY AllClosedAreSound
  <1>4. /\ conn' \in Seq(Stream) /\ Len(conn') = Len(AllClosed) + 1 /\ Len(AllClosed) \in Nat
        /\ \A k \in 1..Len(AllClosed) : conn'[k] = AllClosed[k]
        /\ conn'[Len(AllClosed) + 1] = first
    BY <1>1, <1>2, <1>3, AppendProperties
  <1>5. CurrentConn' = Len(conn')
    BY DEF CurrentConn
  <1>6. conn'[CurrentConn'] = first
    BY <1>4, <1>5
  <1>7. Defs' = 1..published
    <2>1. Defs' = Defined(conn'[CurrentConn'], Len(conn'[CurrentConn'].messages))
      BY DEF Defs, Defined
    <2> QED BY <2>1, <1>1, <1>6
  <1>8. ASSUME NEW k \in DOMAIN conn' PROVE StreamIsSound(conn'[k], raced)
    <2>1. k \in 1..Len(AllClosed) \/ k = Len(AllClosed) + 1
      BY <1>4
    <2> QED BY <2>1, <1>1, <1>3, <1>4
  <1> QED BY <1>4, <1>5, <1>7, <1>8

\* Nothing that the output holds uses a metric that is not in the registry.
LEMMA HeardArePublished ==
    ASSUME RelayInv
    PROVE  /\ Uses(buffer, 1..published) /\ Uses(rest, 1..published)
           /\ Uses(message.points, 1..published) /\ Uses(inPoints, 1..heard)
           /\ 1..heard \subseteq 1..published /\ 1..usable \subseteq 1..heard
  BY UsesUpTo DEF RelayInv, RelayTypeOK, MetricsOrdered, PointsAreHeard

\* A connection, made or failed, keeps the invariant of the relay.
LEMMA ConnectsKeepInv ==
    ASSUME RelayInv, Connect \/ Reconnect
    PROVE  RelayInv'
  <1>1. /\ UNCHANGED <<agent, polled, buffer, rest, message, delivered, raced>>
        /\ faulty' \in BOOLEAN /\ out' \in {"select", "write", "connect", "reconnect", "failed"}
        /\ out' = "select" => out = "connect" /\ out' # "write"
        /\ out' = "connect" => out = "connect"
        /\ \/ Reconnected
           \/ UNCHANGED conn /\ out' \notin {"select", "write"}
    BY DEF Connect, Reconnect, RelayInv, RelayTypeOK
  <1>2. conn' \in Seq(Stream) /\ \A k \in DOMAIN conn' : StreamIsSound(conn'[k], raced)
    BY <1>1, ReconnectedIsSound DEF RelayInv, RelayTypeOK
  <1>3. RelayTypeOK' /\ MetricsOrdered' /\ PointsAreHeard'
    BY <1>1, <1>2 DEF RelayInv, RelayTypeOK, MetricsOrdered, PointsAreHeard, agent
  <1>4. MessageInv' /\ PolledFirst'
    BY <1>1 DEF RelayInv, MessageInv, PolledFirst
  <1>5. DefinesFirst'
    <2> SUFFICES ASSUME Connected'
                 PROVE /\ CurrentConn' > 0
                       /\ \A m \in 1..heard' : m \in Defs' \/ m \in message'.register \/ Waits(m)'
                       /\ out' = "poll" => 1..polled' \subseteq Defs'
                       /\ Uses(message'.points, Defs' \union raced')
      BY DEF DefinesFirst
    <2>1. Reconnected /\ out' # "poll"
      BY <1>1 DEF Connected
    <2>2. Defs' = 1..published /\ CurrentConn' > 0 BY <2>1, ReconnectedIsSound
    <2>3. 1..published \subseteq 1..published \union raced OBVIOUS
    <2>4. Uses(message.points, 1..published \union raced)
      BY Zenon, <2>3, HeardArePublished, UsesFewer
    <2> QED BY <1>1, <2>1, <2>2, <2>4, HeardArePublished DEF agent
  <1> QED BY <1>1, <1>2, <1>3, <1>4, <1>5 DEF RelayInv

\* The loop goes on with nothing received, or with a loss of points.
LEMMA PollsKeepInv ==
    ASSUME RelayInv, PollMetrics \/ NothingReady \/ Lagged
    PROVE  RelayInv'
  <1>1. /\ UNCHANGED <<published, heard, usable, inMetrics, made, closing, buffer, rest, message, conn,
                       delivered, raced>>
        /\ out \in {"select", "poll"} /\ faulty' \in BOOLEAN
        /\ \/ inPoints' = inPoints
           \/ inPoints # <<>> /\ inPoints' = Tail(inPoints)
        /\ \/ out' = "select" /\ polled' = 0
           \/ out = "select" /\ out' = "poll" /\ polled' = heard /\ inMetrics = <<>>
    <2>1. faulty \in BOOLEAN BY DEF RelayInv, RelayTypeOK
    <2>2. CASE PollMetrics BY <2>1, <2>2 DEF PollMetrics, NoMetricsWaiting, agent
    <2>3. CASE NothingReady BY <2>1, <2>3 DEF NothingReady, agent
    <2>4. CASE Lagged
      <3>1. inPoints # <<>> BY <2>4 DEF Lagged
      <3> QED BY <3>1, <2>4 DEF Lagged
    <2> QED BY <2>2, <2>3, <2>4
  <1>2. inPoints' \in Seq(Point) /\ Uses(inPoints', 1..usable)
    BY <1>1, UsesFirst DEF RelayInv, RelayTypeOK, PointsAreHeard
  <1>3. heard \in Nat /\ message = NoMessage /\ RelayTypeOK /\ MetricsOrdered
    BY <1>1 DEF RelayInv, RelayTypeOK, MessageInv
  <1>4. RelayTypeOK' /\ MetricsOrdered' /\ PointsAreHeard' /\ MessageInv'
    <2>1. polled' \in Nat /\ out' \in {"select", "poll"} BY <1>1, <1>3
    <2>2. RelayTypeOK' /\ MetricsOrdered' BY <1>1, <1>2, <1>3, <2>1 DEF RelayTypeOK, MetricsOrdered
    <2> QED BY <1>1, <1>2, <1>3, <2>1, <2>2 DEF RelayInv, PointsAreHeard, MessageInv
  <1>5. PolledFirst'
    BY <1>1, <1>3 DEF RelayInv, PolledFirst, PointsAreHeard
  <1>6. StreamsAreSound' /\ Defs' = Defs /\ CurrentConn' = CurrentConn
    BY <1>1, SameSent DEF RelayInv, StreamsAreSound
  <1>7. DefinesFirst'
    <2>1. Connected /\ \A m : Waits(m)' <=> Waits(m) BY <1>1 DEF Connected, Waits
    <2>2. ASSUME out' = "poll", ~conn[CurrentConn].reset PROVE 1..polled' \subseteq Defs'
      <3>1. \A m : ~Waits(m) BY <1>1, <2>2 DEF Waits
      <3>2. polled' = heard BY <1>1, <2>2
      <3> QED BY <1>3, <1>6, <2>1, <2>2, <3>1, <3>2, NoMessageIsMessage DEF RelayInv, DefinesFirst
    <2> QED BY <1>1, <1>6, <2>1, <2>2 DEF RelayInv, DefinesFirst
  <1> QED BY <1>4, <1>5, <1>6, <1>7 DEF RelayInv, StreamsAreSound

\* The end of the output keeps the invariant.
LEMMA EndKeepsInv == ASSUME RelayInv, EndOutput PROVE RelayInv'
  <1>1. /\ UNCHANGED <<agent, buffer, rest, message, retries, delivered, faulty, raced>>
        /\ out' = "ended" /\ polled' = 0 /\ conn' = AllClosed
    BY DEF EndOutput
  <1>2. conn' \in Seq(Stream) /\ \A k \in DOMAIN conn' : StreamIsSound(conn'[k], raced)
    BY <1>1, AllClosedAreSound
  <1>3. RelayTypeOK' /\ MetricsOrdered' /\ PointsAreHeard'
    BY <1>1, <1>2 DEF RelayInv, RelayTypeOK, MetricsOrdered, PointsAreHeard, agent
  <1>4. DefinesFirst' /\ PolledFirst' /\ MessageInv'
    BY <1>1 DEF RelayInv, DefinesFirst, PolledFirst, MessageInv, Connected
  <1> QED BY <1>1, <1>2, <1>3, <1>4 DEF RelayInv

\* The step SendMetrics keeps the invariant.
LEMMA SendMetricsKeepsInv == ASSUME RelayInv, SendMetrics PROVE RelayInv'
  <1> DEFINE n == UpTo8(Len(inMetrics))
             taken == UNION {inMetrics[i] : i \in 1..n}
  <1>1. /\ UNCHANGED <<published, heard, usable, inPoints, made, closing, polled, buffer, rest, conn,
                       delivered, faulty, raced>>
        /\ out = "select" /\ out' = "write" /\ message' = Definitions(taken)
        /\ inMetrics # <<>> /\ inMetrics' = SubSeq(inMetrics, n + 1, Len(inMetrics))
    BY DEF SendMetrics, Begin
  <1>2. n \in 1..Len(inMetrics) /\ Len(inMetrics) \in Nat /\ inMetrics \in Seq(SUBSET Nat)
        /\ DOMAIN inMetrics = 1..Len(inMetrics)
    <2>1. inMetrics \in Seq(SUBSET Nat) BY DEF RelayInv, RelayTypeOK
    <2>2. Len(inMetrics) \in Nat \ {0} BY <1>1, <2>1, EmptySeq
    <2> QED BY <2>1, <2>2 DEF UpTo8
  <1>3. /\ inMetrics' \in Seq(SUBSET Nat)
        /\ \A m : Waits(m) => m \in taken \/ Waits(m)'
    <2> HIDE DEF n
    <2>1. \A i \in (n + 1)..Len(inMetrics) : inMetrics[i] \in SUBSET Nat
      BY <1>2, ElementOfSeq
    <2>2. /\ inMetrics' \in Seq(SUBSET Nat)
          /\ Len(inMetrics') = IF n + 1 <= Len(inMetrics) THEN Len(inMetrics) - (n + 1) + 1 ELSE 0
          /\ \A i \in 1..(Len(inMetrics) - (n + 1) + 1) : inMetrics'[i] = inMetrics[n + 1 + i - 1]
      BY <1>1, <1>2, <2>1, SubSeqProperties
    <2>3. ASSUME NEW m, NEW i \in DOMAIN inMetrics, m \in inMetrics[i]
          PROVE  m \in taken \/ Waits(m)'
      <3>1. CASE i \in 1..n
        BY <3>1, <2>3
      <3>2. CASE i \notin 1..n
        <4>1. i - n \in 1..(Len(inMetrics) - (n + 1) + 1) /\ n + 1 + (i - n) - 1 = i
          BY <3>2, <1>2
        <4>2. inMetrics'[i - n] = inMetrics[i]
          BY <4>1, <2>2
        <4>3. i - n \in DOMAIN inMetrics'
          <5>1. n + 1 <= Len(inMetrics) BY <3>2, <1>2
          <5>2. Len(inMetrics') = Len(inMetrics) - (n + 1) + 1 BY <5>1, <2>2
          <5>3. DOMAIN inMetrics' = 1..Len(inMetrics') BY <2>2
          <5> QED BY <4>1, <5>2, <5>3
        <4> QED BY <4>2, <4>3, <2>3 DEF Waits
      <3> QED BY <3>1, <3>2
    <2> QED BY <2>2, <2>3 DEF Waits
  <1>4. message' \in Message /\ message'.points = <<>> /\ message'.register = taken
    <2>1. taken \in SUBSET Nat
      BY <1>2, ElementOfSeq
    <2> HIDE DEF taken
    <2> QED BY <1>1, <2>1 DEF Definitions, Message
  <1> HIDE DEF taken, n
  <1>5. RelayTypeOK' /\ MetricsOrdered'
    BY <1>1, <1>3, <1>4 DEF RelayInv, RelayTypeOK, MetricsOrdered
  <1>6. PointsAreHeard'
    BY <1>1, <1>4, UsesNothing DEF RelayInv, PointsAreHeard
  <1>7. MessageInv'
    BY <1>1, <1>4 DEF RelayInv, MessageInv
  <1>10. PolledFirst'
    BY <1>1 DEF PolledFirst
  <1>8. StreamsAreSound'
    BY <1>1, SameSent DEF RelayInv, StreamsAreSound
  <1>9. DefinesFirst'
    <2>1. Connected /\ Defs' = Defs /\ CurrentConn' = CurrentConn
      BY <1>1, SameSent DEF Connected
    <2>2. message.register = {}
      BY <1>1, NoMessageIsMessage DEF RelayInv, MessageInv
    <2> QED BY <1>1, <1>3, <1>4, <2>1, <2>2, UsesNothing DEF RelayInv, DefinesFirst
  <1> QED BY <1>5, <1>6, <1>7, <1>8, <1>9, <1>10 DEF RelayInv, StreamsAreSound

\* The step ReceivePoints keeps the invariant.
LEMMA ReceivePointsKeepsInv == ASSUME RelayInv, ReceivePoints PROVE RelayInv'
  <1> DEFINE p == Head(inPoints)
  <1>1. /\ UNCHANGED <<published, heard, usable, inMetrics, made, closing, conn, delivered, faulty>>
        /\ out = "poll" /\ inPoints # <<>> /\ inPoints' = Tail(inPoints) /\ polled' = 0
    BY DEF ReceivePoints
  <1>2. /\ p \in Point /\ inPoints' \in Seq(Point) /\ Uses(inPoints', 1..usable)
        /\ <<p>> \in Seq(Point) /\ Uses(<<p>>, 1..usable) /\ p.metric \in 1..usable
    BY <1>1, UsesFirst DEF RelayInv, RelayTypeOK, PointsAreHeard
  <1>3. Connected /\ CurrentConn > 0 /\ message = NoMessage
    BY <1>1 DEF Connected, RelayInv, DefinesFirst, MessageInv
  <1>4. /\ polled <= heard /\ Uses(buffer, 1..polled) /\ polled \in Nat /\ heard \in Nat
        /\ usable \in Nat /\ usable <= heard
        /\ ~conn[CurrentConn].reset => 1..polled \subseteq Defs
        /\ buffer \in Seq(Point) /\ rest \in Seq(Point)
        /\ Uses(buffer, 1..heard) /\ Uses(rest, 1..heard)
    BY <1>1, <1>3 DEF RelayInv, RelayTypeOK, DefinesFirst, PolledFirst, MetricsOrdered, PointsAreHeard
  <1>5. p.metric \in 1..heard /\ Uses(<<p>>, 1..heard)
    <2>1. 1..usable \subseteq 1..heard BY <1>4
    <2> QED BY <1>2, <2>1, UsesFewer
  <1>6. /\ message' \in {NoMessage, Measurements(buffer')}
        /\ out' \in {"select", "write"} /\ (out' = "select" => message' = NoMessage)
        /\ raced \subseteq raced' /\ raced' \in SUBSET Nat
        /\ rest' \in Seq(Point) /\ Uses(rest', 1..heard)
        /\ buffer' \in Seq(Point) /\ Uses(buffer', 1..heard)
        /\ out' = "write" => Uses(buffer', 1..polled \union raced')
    <2> DEFINE late == ToldMeanwhile(p)
    <2>1. raced \in SUBSET Nat /\ late \in SUBSET Nat /\ p.metric \in 1..polled \union late
      BY <1>4, <1>5 DEF RelayInv, RelayTypeOK, ToldMeanwhile
    <2> HIDE DEF late, p
    <2>2. CASE rest' = <<p>> /\ Begin(Measurements(buffer)) /\ UNCHANGED <<buffer, raced>>
      <3>1. Uses(buffer, 1..polled \union raced) BY <1>4, UsesFewer
      <3> QED BY <1>2, <1>4, <1>5, <2>1, <2>2, <3>1 DEF Begin
    <2>3. ASSUME buffer' = Append(buffer, p), UNCHANGED rest
          PROVE  /\ buffer' \in Seq(Point) /\ Uses(buffer', 1..heard)
                 /\ Uses(buffer', 1..polled \union late)
      <3>1. Uses(buffer, 1..polled \union late) BY <1>4, UsesFewer
      <3> QED BY <1>2, <1>4, <1>5, <2>1, <2>3, <3>1, UsesAppended
    <2>4. CASE /\ buffer' = Append(buffer, p) /\ UNCHANGED rest
               /\ Begin(Measurements(buffer')) /\ raced' = raced \union late
      <3>1. Uses(buffer', 1..polled \union raced') BY <2>3, <2>4, UsesFewer
      <3> QED BY <1>4, <2>1, <2>3, <2>4, <3>1 DEF Begin
    <2>5. CASE /\ buffer' = Append(buffer, p) /\ UNCHANGED rest
               /\ out' = "select" /\ UNCHANGED <<message, retries, raced>>
      BY <1>3, <1>4, <2>1, <2>3, <2>5
    <2> QED BY <2>2, <2>4, <2>5 DEF ReceivePoints, p, late
  <1> HIDE DEF p
  <1>7. /\ message' \in Message /\ message'.register = {} /\ message'.points \in {<<>>, buffer'}
        /\ Uses(message'.points, 1..heard)
        /\ out' = "write" => Uses(message'.points, 1..polled \union raced')
    BY <1>6, NoMessageIsMessage, UsesNothing DEF Measurements, Message
  <1>8. RelayTypeOK' /\ MetricsOrdered'
    <2>1. MetricsOrdered' BY <1>1 DEF RelayInv, MetricsOrdered
    <2>2. RelayTypeOK BY DEF RelayInv
    <2> QED BY <1>1, <1>2, <1>6, <1>7, <2>1, <2>2 DEF RelayTypeOK
  <1>9. PointsAreHeard'
    BY <1>1, <1>2, <1>6, <1>7 DEF PointsAreHeard
  <1>10. MessageInv' /\ PolledFirst'
    BY <1>6, <1>7 DEF MessageInv, PolledFirst
  <1>11. StreamsAreSound' /\ Defs' = Defs /\ CurrentConn' = CurrentConn
    <2>1. Defs' = Defs /\ CurrentConn' = CurrentConn BY <1>1 DEF Defs, CurrentConn
    <2>2. \A k \in DOMAIN conn : StreamIsSound(conn[k], raced') BY <1>6, LaterStream DEF RelayInv
    <2> QED BY <1>1, <2>1, <2>2 DEF StreamsAreSound
  <1>12. DefinesFirst'
    <2>1. ASSUME ~conn[CurrentConn].reset PROVE Uses(message'.points, Defs \union raced')
      <3>1. CASE out' = "write"
        <4>1. 1..polled \union raced' \subseteq Defs \union raced' BY <1>4, <2>1
        <4> QED BY <1>7, <3>1, <4>1, UsesFewer
      <3>2. CASE out' = "select"
        BY <1>6, <3>2, NoMessageIsMessage, UsesNothing
      <3> QED BY <1>6, <3>1, <3>2
    <2>2. \A m : Waits(m)' <=> Waits(m) BY <1>1 DEF Waits
    <2>3. ~conn[CurrentConn].reset => \A m \in 1..heard : m \in Defs \/ Waits(m)
      BY <1>3, NoMessageIsMessage DEF RelayInv, DefinesFirst
    <2> QED BY <1>1, <1>3, <1>6, <1>11, <2>1, <2>2, <2>3 DEF DefinesFirst
  <1> QED BY <1>8, <1>9, <1>10, <1>11, <1>12 DEF RelayInv, StreamsAreSound

\* n units of the message are written to the current connection.
LEMMA WriteUnitsIsSound ==
    ASSUME RelayInv, out = "write", Writable, NEW n \in 0..MessageSize, WriteUnits(n)
    PROVE  /\ conn' \in Seq(Stream) /\ CurrentConn' = CurrentConn
           /\ \A k \in DOMAIN conn' : StreamIsSound(conn'[k], raced)
           /\ ~conn[CurrentConn].reset /\ ~conn'[CurrentConn'].reset
           /\ Defs' = Defs \union message.register
  <1> DEFINE c == conn[CurrentConn]
  <1>1. /\ conn \in Seq(Stream) /\ Len(conn) \in Nat /\ DOMAIN conn = 1..Len(conn)
        /\ message \in Message
    BY DEF RelayInv, RelayTypeOK
  <1>2. CurrentConn \in 1..Len(conn) /\ ~c.reset
    BY <1>1 DEF Writable, CurrentConn
  <1>3. c \in Stream /\ StreamIsSound(c, raced)
    BY <1>1, <1>2 DEF RelayInv
  <1>4. Uses(message.points, Defined(c, Len(c.messages)) \union raced)
    BY <1>2 DEF RelayInv, DefinesFirst, Connected, Defs
  <1>12. PICK d : d = [c EXCEPT !.messages = Append(c.messages, message), !.written = c.written + n]
    OBVIOUS
  <1>5. conn' = [conn EXCEPT ![CurrentConn] = d]
    BY <1>1, <1>2, <1>3, <1>12 DEF WriteUnits, Stream
  <1> HIDE DEF c
  <1>6. /\ d \in Stream /\ StreamIsSound(d, raced) /\ d.reset = c.reset
        /\ Defined(d, Len(d.messages)) = Defined(c, Len(c.messages)) \union message.register
    <2>1. Append(c.messages, message) \in Seq(Message) /\ c.written + n \in Nat
      BY <1>1, <1>3, AppendProperties, MessageSizeIsPositive DEF Stream
    <2>2. /\ d \in Stream /\ d.messages = Append(c.messages, message) /\ d.written = c.written + n
          /\ d.read = c.read /\ d.taken = c.taken /\ d.known = c.known /\ d.reader = c.reader
          /\ d.reset = c.reset
      BY <2>1, <1>3, <1>12 DEF Stream
    <2>3. Fits(message, c) BY <1>4 DEF Fits
    <2>4. message \in Message /\ c \in Stream /\ StreamIsSound(c, raced)
      BY <1>1, <1>3
    <2>5. StreamIsSound(d, raced)
          /\ Defined(d, Len(d.messages)) = Defined(c, Len(c.messages)) \union message.register
      BY <2>2, <2>3, <2>4, WrittenStream
    <2> QED BY <2>2, <2>5
  <1>7. /\ conn' \in Seq(Stream) /\ Len(conn') = Len(conn)
        /\ \A k \in 1..Len(conn) : conn'[k] = IF k = CurrentConn THEN d ELSE conn[k]
    BY <1>1, <1>2, <1>5, <1>6, ExceptSeq
  <1>8. CurrentConn' = CurrentConn
    BY <1>7 DEF CurrentConn
  <1>9. conn'[CurrentConn'] = d
    BY <1>2, <1>7, <1>8
  <1>10. Defs' = Defs \union message.register
    <2>1. Defs' = Defined(conn'[CurrentConn'], Len(conn'[CurrentConn'].messages))
      BY DEF Defs, Defined
    <2> QED BY <2>1, <1>6, <1>9 DEF Defs, c
  <1>11. \A k \in DOMAIN conn' : StreamIsSound(conn'[k], raced)
    BY <1>1, <1>6, <1>7 DEF RelayInv
  <1> QED BY <1>2, <1>6, <1>7, <1>8, <1>9, <1>10, <1>11 DEF c

\* The step Written keeps the invariant.
LEMMA WrittenKeepsInv == ASSUME RelayInv, Written PROVE RelayInv'
  <1>1. /\ UNCHANGED <<agent, polled, retries, delivered, faulty, raced>>
        /\ out = "write" /\ out' = "select" /\ message' = NoMessage
        /\ Writable /\ WriteUnits(MessageSize)
        /\ buffer' \in {buffer, rest} /\ rest' = <<>>
    BY DEF Written, Clear
  <1>2. MessageSize \in 0..MessageSize
    BY MessageSizeIsPositive
  <1>3. /\ conn' \in Seq(Stream) /\ CurrentConn' = CurrentConn
        /\ \A k \in DOMAIN conn' : StreamIsSound(conn'[k], raced)
        /\ ~conn[CurrentConn].reset
        /\ Defs' = Defs \union message.register
    BY <1>1, <1>2, WriteUnitsIsSound
  <1>4. RelayTypeOK' /\ MetricsOrdered'
    <2>1. <<>> \in Seq(Point) OBVIOUS
    <2> QED BY <1>1, <1>3, <2>1, NoMessageIsMessage DEF RelayInv, RelayTypeOK, MetricsOrdered, agent
  <1>5. PointsAreHeard'
    BY <1>1, UsesNothing, NoMessageIsMessage DEF RelayInv, PointsAreHeard, agent
  <1>6. MessageInv' /\ PolledFirst'
    BY <1>1, NoMessageIsMessage DEF MessageInv, PolledFirst
  <1>8. CurrentConn > 0 /\ \A m \in 1..heard : m \in Defs \/ m \in message.register \/ Waits(m)
    BY <1>1, <1>3 DEF RelayInv, DefinesFirst, Connected
  <1>9. Uses(message'.points, Defs' \union raced')
    BY <1>1, UsesNothing, NoMessageIsMessage
  <1>10. DefinesFirst'
    <2>1. \A m : Waits(m)' <=> Waits(m)
      BY <1>1 DEF Waits, agent
    <2> QED BY <1>1, <1>3, <1>8, <1>9, <2>1 DEF DefinesFirst, agent
  <1> QED BY <1>1, <1>3, <1>4, <1>5, <1>6, <1>10 DEF RelayInv

\* The step WriteError keeps the invariant.
LEMMA WriteErrorKeepsInv == ASSUME RelayInv, WriteError PROVE RelayInv'
  <1>1. /\ UNCHANGED <<agent, polled, buffer, rest, message, delivered, raced>>
        /\ out = "write" /\ faulty' \in BOOLEAN
        /\ out' \in {"write", "reconnect", "failed"}
    BY DEF WriteError
  <1>2. \/ /\ Writable /\ out' # "write"
           /\ \E n \in 1..(MessageSize - 1) : WriteUnits(n)
        \/ UNCHANGED conn
    BY DEF WriteError
  <1>3. conn' \in Seq(Stream) /\ \A k \in DOMAIN conn' : StreamIsSound(conn'[k], raced)
    <2>1. CASE UNCHANGED conn
      BY <2>1 DEF RelayInv, RelayTypeOK
    <2>2. ASSUME Writable, NEW n \in 1..(MessageSize - 1), WriteUnits(n)
          PROVE  conn' \in Seq(Stream) /\ \A k \in DOMAIN conn' : StreamIsSound(conn'[k], raced)
      <3>1. n \in 0..MessageSize BY MessageSizeIsPositive
      <3> QED BY <1>1, <2>2, <3>1, WriteUnitsIsSound
    <2> QED BY <1>2, <2>1, <2>2
  <1>4. RelayTypeOK' /\ MetricsOrdered' /\ PointsAreHeard' /\ MessageInv'
    BY <1>1, <1>3 DEF RelayInv, RelayTypeOK, MetricsOrdered, PointsAreHeard, MessageInv, agent
  <1>6. PolledFirst'
    BY <1>1 DEF PolledFirst
  <1>5. DefinesFirst'
    <2>1. CASE UNCHANGED conn
      BY <1>1, <2>1, SameSent DEF RelayInv, DefinesFirst, Connected, Waits, agent
    <2>2. CASE out' # "write"
      BY <1>1, <2>2 DEF DefinesFirst, Connected
    <2> QED BY <1>2, <2>1, <2>2
  <1> QED BY <1>1, <1>3, <1>4, <1>5, <1>6 DEF RelayInv

-------------------------------------------------------------------------------
(* The invariant: the server.                                                *)

\* A step of the server of connection k, which becomes c.
LEMMA ServerKeepsInv ==
    ASSUME RelayInv, NEW k \in DOMAIN conn, NEW c \in Stream, StreamIsSound(c, raced),
           SetConn(k, c), UNCHANGED <<agent, output, raced>>,
           delivered' \in Seq(Nat), faulty' \in BOOLEAN,
           ~c.reset => ~conn[k].reset /\ c.messages = conn[k].messages
    PROVE  RelayInv'
  <1>1. conn \in Seq(Stream) /\ Len(conn) \in Nat /\ DOMAIN conn = 1..Len(conn)
    BY DEF RelayInv, RelayTypeOK
  <1>2. /\ conn' \in Seq(Stream) /\ Len(conn') = Len(conn) /\ DOMAIN conn' = 1..Len(conn)
        /\ \A j \in 1..Len(conn) : conn'[j] = IF j = k THEN c ELSE conn[j]
    BY <1>1, ExceptSeq DEF SetConn
  <1>3. \A j \in DOMAIN conn' : StreamIsSound(conn'[j], raced)
    BY <1>1, <1>2 DEF RelayInv
  <1>4. RelayTypeOK' /\ MetricsOrdered' /\ PointsAreHeard' /\ MessageInv' /\ PolledFirst'
    BY <1>2 DEF RelayInv, RelayTypeOK, MetricsOrdered, PointsAreHeard, MessageInv, PolledFirst, agent,
                output
  <1>5. DefinesFirst'
    <2> SUFFICES ASSUME Connected'
                 PROVE /\ CurrentConn' > 0
                       /\ ~conn'[CurrentConn'].reset =>
                             /\ \A m \in 1..heard' : m \in Defs' \/ m \in message'.register \/ Waits(m)'
                             /\ out' = "poll" => 1..polled' \subseteq Defs'
                             /\ Uses(message'.points, Defs' \union raced')
      BY DEF DefinesFirst
    <2>1. Connected /\ CurrentConn' = CurrentConn /\ CurrentConn > 0 /\ CurrentConn \in 1..Len(conn)
      BY <1>1, <1>2 DEF Connected, output, CurrentConn, RelayInv, DefinesFirst
    <2>2. ASSUME ~conn'[CurrentConn'].reset
          PROVE  ~conn[CurrentConn].reset /\ Defs' = Defs
      <3>1. conn'[CurrentConn'].messages = conn[CurrentConn].messages
            /\ ~conn[CurrentConn].reset
        BY <1>2, <2>1, <2>2
      <3>2. Defs' = UNION {conn'[CurrentConn'].messages[i].register :
                              i \in 1..Len(conn'[CurrentConn'].messages)}
        BY DEF Defs, Defined
      <3>3. Defs = UNION {conn[CurrentConn].messages[i].register :
                              i \in 1..Len(conn[CurrentConn].messages)}
        BY DEF Defs, Defined
      <3> QED BY <3>1, <3>2, <3>3
    <2>3. \A m : Waits(m)' <=> Waits(m)
      BY DEF Waits, agent
    <2> QED BY <2>1, <2>2, <2>3 DEF RelayInv, DefinesFirst, agent, output
  <1> QED BY <1>3, <1>4, <1>5 DEF RelayInv

\* A read makes c of the connection; the server may then take the message that is complete.
LEMMA ReadReads ==
    ASSUME RelayInv, NEW k \in DOMAIN conn, Read(k)
    PROVE  \E c \in Stream :
           /\ c.messages = conn[k].messages /\ c.taken = conn[k].taken /\ c.reset = conn[k].reset
           /\ c.open = conn[k].open /\ Runs(conn[k]) /\ Runs(c)
           /\ StreamIsSound(c, raced)
           /\ \/ Buffered(c) >= MessageSize /\ Process(k, c)
              \/ SetConn(k, [c EXCEPT !.reader = "body"]) /\ UNCHANGED delivered
              \/ SetConn(k, c) /\ UNCHANGED delivered
  <1>1. /\ conn[k].reader \in {"header", "body"}
        /\ conn[k] \in Stream /\ StreamIsSound(conn[k], raced)
    BY DEF Read, RelayInv, RelayTypeOK
  <1>2. PICK n \in 1..Available(conn[k]) :
          LET c == [conn[k] EXCEPT !.read = @ + n,
                                   !.fresh = IF conn[k].reader = "header" THEN @ + n ELSE @]
          IN \/ /\ HeaderRead(c) /\ Buffered(c) >= MessageSize
                /\ Process(k, c)
             \/ /\ HeaderRead(c) /\ Buffered(c) < MessageSize
                /\ SetConn(k, [c EXCEPT !.reader = "body"])
                /\ UNCHANGED delivered
             \/ /\ ~HeaderRead(c)
                /\ SetConn(k, c)
                /\ UNCHANGED delivered
    BY DEF Read
  <1> DEFINE b == conn[k]
             c == [b EXCEPT !.read = @ + n, !.fresh = IF b.reader = "header" THEN @ + n ELSE @]
  <1>3. /\ c \in Stream
        /\ c.messages = b.messages /\ c.written = b.written /\ c.taken = b.taken
        /\ c.known = b.known /\ c.reader = b.reader /\ c.reset = b.reset /\ c.open = b.open
        /\ Runs(b) /\ Runs(c) /\ b.read <= c.read /\ c.read <= c.written
    <2>1. b.read \in Nat /\ b.written \in Nat /\ b.fresh \in Nat /\ n \in Nat
          /\ n <= b.written - b.read
      BY <1>1 DEF Stream, Available
    <2>2. /\ c.messages = b.messages /\ c.written = b.written /\ c.taken = b.taken
          /\ c.known = b.known /\ c.reader = b.reader /\ c.reset = b.reset /\ c.read = b.read + n
          /\ c.open = b.open
      BY <1>1 DEF Stream
    <2>3. c \in Stream
      <3>1. b.read + n \in Nat /\ b.fresh + n \in Nat BY <2>1
      <3>2. b \in Stream BY <1>1
      <3> DEFINE f == IF b.reader = "header" THEN b.fresh + n ELSE b.fresh
                 r == b.read + n
      <3>3. f \in Nat /\ r \in Nat BY <2>1, <3>1
      <3>4. c = [b EXCEPT !.read = r, !.fresh = f]
        BY <1>1 DEF Stream
      <3> HIDE DEF b, c, f, r
      <3> QED BY <3>2, <3>3, <3>4 DEF Stream
    <2> HIDE DEF b, c
    <2>4. b.reader \in {"header", "body"} BY <1>1 DEF b
    <2> QED BY <2>1, <2>2, <2>3, <2>4 DEF Runs
  <1>4. StreamIsSound(c, raced)
    <2> HIDE DEF c
    <2> QED BY <1>1, <1>3, SameStream
  <1>5. \/ Buffered(c) >= MessageSize /\ Process(k, c)
        \/ SetConn(k, [c EXCEPT !.reader = "body"]) /\ UNCHANGED delivered
        \/ SetConn(k, c) /\ UNCHANGED delivered
    BY Zenon, <1>2
  <1> HIDE DEF c
  <1> QED BY <1>3, <1>4, <1>5

\* What the server makes of a connection that holds a complete message.
LEMMA ProcessProcesses ==
    ASSUME NEW c \in Stream, StreamIsSound(c, raced), NEW k, Buffered(c) >= MessageSize, Process(k, c),
           delivered \in Seq(Nat)
    PROVE  \E d \in Stream :
             /\ d.messages = c.messages /\ d.taken = c.taken + 1 /\ d.reset = c.reset
             /\ d.open = c.open /\ SetConn(k, d) /\ StreamIsSound(d, raced)
             /\ d.taken \in 1..Len(c.messages) /\ delivered' \in Seq(Nat)
             /\ raced = {} =>
                   Runs(d) /\ delivered' = delivered \o Ranks(c.messages[c.taken + 1].points)
  <1> DEFINE m == c.messages[c.taken + 1]
             accepted == \A i \in DOMAIN m.points : m.points[i].metric \in c.known
             reader == IF accepted THEN "header" ELSE "rejected"
  <1>1. /\ c.taken + 1 \in 1..Len(c.messages) /\ Uses(m.points, c.known \union raced)
    BY TakenStream
  <1>2. m \in Message /\ m.points \in Seq(Point) /\ m.register \in SUBSET Nat
    <2>1. m \in Message BY <1>1, ElementOfSeq DEF Stream
    <2> QED BY <2>1 DEF Message
  <1>3. Ranks(m.points) \in Seq(Nat)
    BY <1>2, RanksAreNumbers
  <1>4. /\ SetConn(k, [c EXCEPT !.taken = @ + 1, !.fresh = 0, !.known = @ \union m.register,
                                !.reader = reader])
        /\ delivered' = IF accepted THEN delivered \o Ranks(m.points) ELSE delivered
    BY Zenon DEF Process
  <1> HIDE DEF m, accepted, reader
  <1>5. delivered' \in Seq(Nat)
    BY <1>3, <1>4
  <1>6. PICK d : d = [c EXCEPT !.taken = c.taken + 1, !.fresh = 0,
                               !.known = c.known \union m.register, !.reader = reader]
    OBVIOUS
  <1>7. SetConn(k, d)
    BY <1>4, <1>6
  <1>8. /\ d \in Stream /\ d.messages = c.messages /\ d.written = c.written /\ d.read = c.read
        /\ d.taken = c.taken + 1 /\ d.known = c.known \union m.register /\ d.reader = reader
        /\ d.reset = c.reset /\ d.open = c.open
    <2>1. reader \in Readers BY DEF reader, Readers
    <2>2. c.taken + 1 \in Nat /\ c.known \union m.register \in SUBSET Nat
      BY <1>2 DEF Stream
    <2> QED BY <1>6, <2>1, <2>2 DEF Stream
  <1>9. ASSUME ~accepted PROVE Refused(d, raced)
    <2>1. PICK i \in DOMAIN m.points : m.points[i].metric \notin c.known
      BY <1>9 DEF accepted
    <2>2. m.points[i].metric \in raced
      BY <1>1, <2>1 DEF Uses
    <2>3. m.register = {}
      BY <1>2, <2>1 DEF Message
    <2>4. d.messages[d.taken] = m /\ d.known = c.known /\ d.taken > 0
      BY <1>1, <1>8, <2>3 DEF m
    <2> QED BY <2>1, <2>2, <2>4 DEF Refused
  <1>10. StreamIsSound(d, raced)
    <2>1. d.reader = "rejected" => Refused(d, raced) BY <1>8, <1>9 DEF reader
    <2> QED BY <1>8, <2>1, ProcessedStream DEF m
  <1>11. raced = {} => Runs(d) /\ delivered' = delivered \o Ranks(m.points)
    <2>1. raced = {} => accepted BY <1>9 DEF Refused
    <2> QED BY <1>4, <1>8, <2>1 DEF Runs, reader
  <1> QED BY <1>1, <1>5, <1>7, <1>8, <1>10, <1>11 DEF m

\* The step Read keeps the invariant.
LEMMA ReadKeepsInv == ASSUME RelayInv, NEW k \in DOMAIN conn, Read(k) PROVE RelayInv'
  <1>1. /\ UNCHANGED <<agent, output, faulty, raced>> /\ delivered \in Seq(Nat) /\ faulty \in BOOLEAN
        /\ conn[k] \in Stream
    BY DEF Read, RelayInv, RelayTypeOK
  <1>2. PICK c \in Stream :
           /\ c.messages = conn[k].messages /\ c.taken = conn[k].taken /\ c.reset = conn[k].reset
           /\ c.open = conn[k].open /\ Runs(conn[k]) /\ Runs(c)
           /\ StreamIsSound(c, raced)
           /\ \/ Buffered(c) >= MessageSize /\ Process(k, c)
              \/ SetConn(k, [c EXCEPT !.reader = "body"]) /\ UNCHANGED delivered
              \/ SetConn(k, c) /\ UNCHANGED delivered
    BY ReadReads
  <1>3. CASE Buffered(c) >= MessageSize /\ Process(k, c)
    <2>1. PICK d \in Stream :
             /\ d.messages = c.messages /\ d.taken = c.taken + 1 /\ d.reset = c.reset
             /\ SetConn(k, d) /\ StreamIsSound(d, raced) /\ delivered' \in Seq(Nat)
      BY <1>1, <1>2, <1>3, ProcessProcesses
    <2> QED BY <1>1, <1>2, <2>1, ServerKeepsInv
  <1>4. CASE SetConn(k, [c EXCEPT !.reader = "body"]) /\ UNCHANGED delivered
    <2>1. PICK d : d = [c EXCEPT !.reader = "body"]
      OBVIOUS
    <2>2. /\ d \in Stream /\ d.messages = c.messages /\ d.written = c.written /\ d.read = c.read
          /\ d.taken = c.taken /\ d.known = c.known /\ d.reader = "body" /\ d.reset = c.reset
      BY <1>2, <2>1 DEF Stream, Readers
    <2>3. StreamIsSound(d, raced)
      <3>1. c.read <= d.read /\ d.read <= d.written BY <1>2, <2>2 DEF Stream, StreamIsSound
      <3> QED BY <1>2, <2>2, <3>1, SameStream
    <2>4. SetConn(k, d) BY <1>4, <2>1
    <2> QED BY <1>1, <1>2, <1>4, <2>2, <2>3, <2>4, ServerKeepsInv
  <1>5. CASE SetConn(k, c) /\ UNCHANGED delivered
    BY <1>1, <1>2, <1>5, ServerKeepsInv
  <1> QED BY <1>2, <1>3, <1>4, <1>5

\* The end of a stream, by the peer or an error, keeps the invariant of the relay.
LEMMA ReadEndsKeepInv ==
    ASSUME RelayInv, NEW k \in DOMAIN conn, ReadEof(k) \/ ReadError(k)
    PROVE  RelayInv'
  <1>1. /\ UNCHANGED <<agent, output, delivered, raced>> /\ faulty' \in BOOLEAN
        /\ conn[k] \in Stream /\ StreamIsSound(conn[k], raced) /\ delivered' \in Seq(Nat)
    <2>1. faulty \in BOOLEAN /\ delivered \in Seq(Nat) /\ conn \in Seq(Stream)
          /\ StreamIsSound(conn[k], raced)
      BY DEF RelayInv, RelayTypeOK
    <2>2. conn[k] \in Stream BY <2>1
    <2>3. UNCHANGED <<agent, output, delivered, raced>> /\ faulty' \in {faulty, TRUE}
      BY DEF ReadEof, ReadError
    <2> QED BY <2>1, <2>2, <2>3
  <1>2. CASE ReadEof(k)
    <2> DEFINE c == conn[k]
    <2>1. PICK r \in Readers : r # "rejected" /\ SetConn(k, [c EXCEPT !.reader = r])
      BY <1>2 DEF ReadEof, Readers
    <2>2. PICK d : d = [c EXCEPT !.reader = r]
      OBVIOUS
    <2>3. /\ d \in Stream /\ d.messages = c.messages /\ d.written = c.written /\ d.read = c.read
          /\ d.taken = c.taken /\ d.known = c.known /\ d.reader = r /\ d.reset = c.reset
      BY <1>1, <2>1, <2>2 DEF Stream
    <2>4. StreamIsSound(d, raced)
      <3>1. c.read <= d.read /\ d.read <= d.written BY <1>1, <2>3 DEF Stream, StreamIsSound
      <3> QED BY <1>1, <2>1, <2>3, <3>1, SameStream
    <2> QED BY <1>1, <2>1, <2>2, <2>3, <2>4, ServerKeepsInv
  <1>3. CASE ReadError(k)
    <2>1. PICK d : d = [Connection(NoMessage) EXCEPT !.reader = "failed", !.reset = TRUE]
      OBVIOUS
    <2>2. d \in Stream /\ StreamIsSound(d, raced) /\ d.reset = TRUE
      BY <2>1, ResetStream
    <2>3. SetConn(k, d)
      BY <1>3, <2>1 DEF ReadError
    <2> QED BY <1>1, <2>2, <2>3, ServerKeepsInv
  <1> QED BY <1>2, <1>3

\* The invariant of the relay holds in every run.
LEMMA RelayInvInvariant == RelaySpec => []RelayInv
  <1>1. RelayInv /\ [RelayNext]_relayVars => RelayInv'
    <2> SUFFICES ASSUME RelayInv, [RelayNext]_relayVars PROVE RelayInv'
      OBVIOUS
    <2>1. CASE UNCHANGED relayVars
      <3>1. /\ RelayTypeOK' /\ MetricsOrdered' /\ PointsAreHeard' /\ MessageInv'
            /\ PolledFirst' /\ raced' = raced
            /\ \A k \in DOMAIN conn' : StreamIsSound(conn'[k], raced)
        BY <2>1 DEF relayVars, agent, output, RelayInv, RelayTypeOK, MetricsOrdered, PointsAreHeard,
                    MessageInv, PolledFirst
      <3>2. DefinesFirst'
        BY <2>1, SameSent DEF relayVars, agent, output, RelayInv, DefinesFirst, Connected, Waits
      <3> QED BY <3>1, <3>2 DEF RelayInv
    <2>2. ASSUME NEW k \in DOMAIN conn, Read(k) \/ ReadEof(k) \/ ReadError(k) PROVE RelayInv'
      BY <2>2, ReadKeepsInv, ReadEndsKeepInv
    <2> QED
      BY <2>1, <2>2, AgentKeepsInv, LateMetricsKeepsInv, MeasureKeepsInv, ConnectsKeepInv,
         SendMetricsKeepsInv, ReceivePointsKeepsInv, PollsKeepInv, EndKeepsInv, WrittenKeepsInv,
         WriteErrorKeepsInv DEF RelayNext
  <1> QED BY <1>1, RelayInitInv, PTL DEF RelaySpec

\* A server refuses a message only for a measurement of a metric that was told and measured
\* between the two polls of one turn of the client.
THEOREM RelayedMetricsAreKnown == RelaySpec => []MetricsKnown
  <1>1. RelayInv => MetricsKnown
    BY DEF RelayInv, StreamIsSound, Refused, MetricsKnown
  <1> QED BY <1>1, RelayInvInvariant, PTL

\* The journey of the measurements, from the server back to the input of the output.
Journey(arrived, carried, held, next, waiting) ==
    Cat(Cat(Cat(Cat(arrived, carried), held), next), waiting)

\* What the messages that the server has not taken hold.
InFlight(c) ==
    FlattenSeq([i \in 1..(Len(c.messages) - c.taken) |-> Ranks(c.messages[c.taken + i].points)])

Carried == IF conn = <<>> THEN <<>> ELSE StillComes(Last(conn))

Counted(n) == [i \in 1..n |-> i]

-------------------------------------------------------------------------------
(* The ranks of points.                                                      *)

LEMMA RanksOfFew ==
    ASSUME NEW p \in Point
    PROVE  Ranks(<<>>) = <<>> /\ Ranks(<<p>>) = <<p.rank>>
  BY DEF Ranks

\* No point has no rank.
LEMMA RanksOfNothing == Ranks(<<>>) = <<>>
  BY DEF Ranks

\* The ranks of points with one more.
LEMMA RanksOfAppended ==
    ASSUME NEW ps \in Seq(Point), NEW p \in Point
    PROVE  Ranks(Append(ps, p)) = Cat(Ranks(ps), <<p.rank>>)
  <1> DEFINE qs == Append(ps, p)
  <1>1. /\ qs \in Seq(Point) /\ Len(qs) = Len(ps) + 1 /\ Len(ps) \in Nat
        /\ \A i \in 1..Len(ps) : qs[i] = ps[i]
        /\ qs[Len(ps) + 1] = p
    BY AppendProperties
  <1> HIDE DEF qs
  <1>2. /\ Ranks(qs) \in Seq(Nat) /\ Len(Ranks(qs)) = Len(qs)
        /\ \A i \in 1..Len(qs) : Ranks(qs)[i] = qs[i].rank
        /\ Ranks(ps) \in Seq(Nat) /\ Len(Ranks(ps)) = Len(ps)
        /\ \A i \in 1..Len(ps) : Ranks(ps)[i] = ps[i].rank
    BY <1>1, RanksAreNumbers
  <1> DEFINE rs == Append(Ranks(ps), p.rank)
  <1>3. /\ rs \in Seq(Nat) /\ Len(rs) = Len(ps) + 1
        /\ \A i \in 1..Len(ps) : rs[i] = ps[i].rank
        /\ rs[Len(ps) + 1] = p.rank
    <2>1. p.rank \in Nat BY DEF Point
    <2> QED BY <1>2, <2>1, AppendProperties
  <1> HIDE DEF rs
  <1>4. Ranks(qs) = rs
    <2>1. ASSUME NEW i \in 1..Len(qs) PROVE Ranks(qs)[i] = rs[i]
      <3>1. i \in 1..Len(ps) \/ i = Len(ps) + 1 BY <1>1
      <3>2. Ranks(qs)[i] = qs[i].rank BY <1>2
      <3>3. CASE i \in 1..Len(ps) BY <3>2, <3>3, <1>1, <1>3
      <3>4. CASE i = Len(ps) + 1 BY <3>2, <3>4, <1>1, <1>3
      <3> QED BY <3>1, <3>3, <3>4
    <2> QED BY <1>1, <1>2, <1>3, <2>1, SeqEqual
  <1>5. rs = Ranks(ps) \o <<p.rank>>
    BY <1>2, AppendIsConcat DEF rs, Point
  <1> QED BY <1>4, <1>5 DEF qs, Cat

\* The ranks of a batch are that of its first point and those of the others.
LEMMA RanksOfFirst ==
    ASSUME NEW ps \in Seq(Point), ps # <<>>
    PROVE  Ranks(ps) = Cat(Ranks(<<Head(ps)>>), Ranks(Tail(ps)))
  <1>1. /\ Head(ps) \in Point /\ Head(ps) = ps[1] /\ Tail(ps) \in Seq(Point)
        /\ Len(Tail(ps)) = Len(ps) - 1 /\ Len(ps) \in Nat \ {0}
        /\ \A i \in 1..Len(Tail(ps)) : Tail(ps)[i] = ps[i + 1]
    BY HeadTailProperties, EmptySeq
  <1>2. /\ Ranks(ps) \in Seq(Nat) /\ Len(Ranks(ps)) = Len(ps)
        /\ \A i \in 1..Len(ps) : Ranks(ps)[i] = ps[i].rank
        /\ Ranks(Tail(ps)) \in Seq(Nat) /\ Len(Ranks(Tail(ps))) = Len(Tail(ps))
        /\ \A i \in 1..Len(Tail(ps)) : Ranks(Tail(ps))[i] = Tail(ps)[i].rank
    BY <1>1, RanksAreNumbers
  <1>3. ps[1].rank \in Nat /\ Ranks(<<Head(ps)>>) = <<ps[1].rank>>
    BY <1>1, RanksOfFew DEF Point
  <1> DEFINE rs == <<ps[1].rank>> \o Ranks(Tail(ps))
  <1>4. /\ rs \in Seq(Nat) /\ Len(rs) = Len(ps) /\ rs[1] = ps[1].rank
        /\ \A i \in 1..Len(Tail(ps)) : rs[i + 1] = Ranks(Tail(ps))[i]
    <2> DEFINE a == <<ps[1].rank>>
               b == Ranks(Tail(ps))
    <2>1. a \in Seq(Nat) /\ Len(a) = 1 /\ a[1] = ps[1].rank BY <1>3
    <2>2. b \in Seq(Nat) /\ Len(b) = Len(ps) - 1 BY <1>1, <1>2
    <2> HIDE DEF a, b
    <2>3. /\ a \o b \in Seq(Nat) /\ Len(a \o b) = Len(ps)
          /\ \A i \in 1..Len(ps) : (a \o b)[i] = IF i <= 1 THEN a[i] ELSE b[i - 1]
      <3>1. /\ a \o b \in Seq(Nat) /\ Len(a \o b) = Len(a) + Len(b)
            /\ \A i \in 1..Len(a) + Len(b) :
                  (a \o b)[i] = IF i <= Len(a) THEN a[i] ELSE b[i - Len(a)]
        BY <2>1, <2>2, ConcatProperties
      <3>2. Len(a) + Len(b) = Len(ps) BY <1>1, <2>1, <2>2
      <3> QED BY <2>1, <3>1, <3>2
    <2>4. \A i \in 1..(Len(ps) - 1) : (a \o b)[i + 1] = b[i]
      BY <1>1, <2>3
    <2>5. (a \o b)[1] = ps[1].rank
      BY <1>1, <2>1, <2>3
    <2> QED BY <1>1, <2>3, <2>4, <2>5 DEF a, b
  <1> HIDE DEF rs
  <1>5. ASSUME NEW i \in 1..Len(ps) PROVE Ranks(ps)[i] = rs[i]
    <2>1. CASE i = 1 BY <2>1, <1>1, <1>2, <1>4
    <2>2. CASE i # 1
      <3>1. i - 1 \in 1..Len(Tail(ps)) /\ (i - 1) + 1 = i BY <2>2, <1>1
      <3>2. rs[(i - 1) + 1] = Tail(ps)[i - 1].rank BY <3>1, <1>2, <1>4
      <3>3. Tail(ps)[i - 1] = ps[(i - 1) + 1] BY <3>1, <1>1
      <3> QED BY <3>1, <3>2, <3>3, <1>2
    <2> QED BY <2>1, <2>2
  <1>6. Ranks(ps) = rs
    BY <1>2, <1>4, <1>5, SeqEqual
  <1> QED BY <1>3, <1>6 DEF rs, Cat

\* Counting one further.
LEMMA CountedNext ==
    ASSUME NEW n \in Nat
    PROVE  Counted(n) \in Seq(Nat) /\ Counted(n + 1) = Cat(Counted(n), <<n + 1>>)
  <1> DEFINE c == Counted(n)
             d == Counted(n + 1)
             e == c \o <<n + 1>>
  <1>1. c \in Seq(Nat) /\ Len(c) = n /\ \A i \in 1..n : c[i] = i
    BY DEF Counted
  <1>2. d \in Seq(Nat) /\ Len(d) = n + 1 /\ \A i \in 1..(n + 1) : d[i] = i
    BY DEF Counted
  <1> HIDE DEF c, d
  <1>3. /\ e \in Seq(Nat) /\ Len(e) = n + 1 /\ \A i \in 1..n : e[i] = i
        /\ e[n + 1] = n + 1
    <2>1. <<n + 1>> \in Seq(Nat) /\ Len(<<n + 1>>) = 1 OBVIOUS
    <2> QED BY <1>1, <2>1, ConcatProperties
  <1> HIDE DEF e
  <1>4. \A i \in 1..Len(d) : d[i] = e[i]
    BY <1>2, <1>3
  <1>5. d = e
    BY <1>2, <1>3, <1>4, SeqEqual
  <1> QED BY <1>1, <1>5 DEF c, d, e, Cat

-------------------------------------------------------------------------------
(* What a connection carries.                                                *)

\* The ranks of the messages that the server has not taken.
Pending(c) == [i \in 1..(Len(c.messages) - c.taken) |-> Ranks(c.messages[c.taken + i].points)]

\* What the server has taken was written.
LEMMA TakenAreWritten ==
    ASSUME NEW c \in Stream, StreamIsSound(c, raced)
    PROVE  c.taken <= Len(c.messages)
  <1> DEFINE len == Len(c.messages)
  <1>1. /\ c.taken * MessageSize <= c.read /\ c.read <= c.written
        /\ c.written <= len * MessageSize /\ c.taken \in Nat /\ c.read \in Nat /\ c.written \in Nat
        /\ len \in Nat
    BY DEF StreamIsSound, Stream
  <1> HIDE DEF len
  <1>2. c.taken * MessageSize \in Nat /\ len * MessageSize \in Nat
    BY <1>1, MessageSizeIsPositive
  <1>3. c.taken * MessageSize <= len * MessageSize
    BY <1>1, <1>2
  <1>4. c.taken <= len
    BY <1>1, <1>3, MessageSizeIsPositive
  <1> QED BY <1>4 DEF len

\* What is in flight on a stream is what its messages not yet taken hold.
LEMMA InFlightIsPending == \A c : InFlight(c) = FlattenSeq(Pending(c))
  BY Zenon DEF InFlight, Pending

\* It still comes as long as the task of the connection runs.
LEMMA StillComesIs ==
    ASSUME NEW c
    PROVE  StillComes(c) = IF Runs(c) THEN InFlight(c) ELSE <<>>
  BY Zenon DEF StillComes, InFlight, Runs

\* The messages not yet taken, as sequences of ranks.
LEMMA PendingIsSequence ==
    ASSUME NEW c \in Stream, c.taken <= Len(c.messages)
    PROVE  /\ Pending(c) \in Seq(Seq(Nat)) /\ Len(Pending(c)) = Len(c.messages) - c.taken
           /\ \A i \in 1..(Len(c.messages) - c.taken) :
                 Pending(c)[i] = Ranks(c.messages[c.taken + i].points)
           /\ Len(c.messages) \in Nat /\ c.taken \in Nat
           /\ \A j \in 1..Len(c.messages) : c.messages[j].points \in Seq(Point)
  <1>1. c.messages \in Seq(Message) /\ c.taken \in Nat /\ Len(c.messages) \in Nat
    BY DEF Stream
  <1>2. \A j \in 1..Len(c.messages) : c.messages[j] \in Message
    BY <1>1, ElementOfSeq
  <1>3. \A j \in 1..Len(c.messages) : c.messages[j].points \in Seq(Point)
    <2>1. \A m \in Message : m.points \in Seq(Point) BY DEF Message
    <2> QED BY <1>2, <2>1
  <1>4. \A j \in 1..Len(c.messages) : Ranks(c.messages[j].points) \in Seq(Nat)
    BY <1>3, RanksAreNumbers
  <1> DEFINE n == Len(c.messages) - c.taken
  <1>5. n \in Nat /\ \A i \in 1..n : c.taken + i \in 1..Len(c.messages)
    BY <1>1
  <1>6. Pending(c) = [i \in 1..n |-> Ranks(c.messages[c.taken + i].points)]
    BY DEF Pending
  <1> HIDE DEF n
  <1>7. Pending(c) \in [1..n -> Seq(Nat)]
    BY <1>4, <1>5, <1>6
  <1>8. Pending(c) \in Seq(Seq(Nat)) /\ Len(Pending(c)) = n
    BY <1>5, <1>7
  <1> QED BY <1>1, <1>3, <1>6, <1>8 DEF n

\* What is in flight is a sequence of ranks.
LEMMA InFlightIsSequence ==
    ASSUME NEW c \in Stream, c.taken <= Len(c.messages)
    PROVE  InFlight(c) \in Seq(Nat)
  <1>1. Pending(c) \in Seq(Seq(Nat)) /\ <<>> \in Seq(Nat)
    BY PendingIsSequence
  <1> QED BY <1>1, FlattenAppend, InFlightIsPending

\* A message joins what the connection carries.
LEMMA InFlightWritten ==
    ASSUME NEW c \in Stream, c.taken <= Len(c.messages), NEW m \in Message,
           NEW d \in Stream, d.messages = Append(c.messages, m), d.taken = c.taken
    PROVE  InFlight(d) = Cat(InFlight(c), Ranks(m.points))
  <1>1. /\ c.messages \in Seq(Message) /\ Len(d.messages) = Len(c.messages) + 1
        /\ \A i \in 1..Len(c.messages) : d.messages[i] = c.messages[i]
        /\ d.messages[Len(c.messages) + 1] = m
        /\ Len(c.messages) \in Nat /\ c.taken \in Nat
    BY AppendProperties DEF Stream
  <1>2. d.taken <= Len(d.messages)
    BY <1>1
  <1> DEFINE p == Pending(c)
             q == Pending(d)
             x == Ranks(m.points)
             n == Len(c.messages) - c.taken
  <1>3. n \in Nat /\ Len(d.messages) - d.taken = n + 1
    BY <1>1
  <1>4. /\ p \in Seq(Seq(Nat)) /\ Len(p) = n
        /\ \A i \in 1..n : p[i] = Ranks(c.messages[c.taken + i].points)
    BY PendingIsSequence
  <1>5. /\ q \in Seq(Seq(Nat)) /\ Len(q) = n + 1
        /\ \A i \in 1..(n + 1) : q[i] = Ranks(d.messages[d.taken + i].points)
    BY <1>2, <1>3, PendingIsSequence
  <1>6. x \in Seq(Nat)
    <2>1. m.points \in Seq(Point) BY DEF Message
    <2> QED BY <2>1, RanksAreNumbers
  <1>7. \A i \in 1..n : q[i] = p[i]
    <2> SUFFICES ASSUME NEW i \in 1..n PROVE q[i] = p[i] OBVIOUS
    <2>1. c.taken + i \in 1..Len(c.messages) /\ i \in 1..(n + 1) BY <1>1, <1>3
    <2>2. d.messages[d.taken + i] = c.messages[c.taken + i] BY <2>1, <1>1
    <2> QED BY <2>1, <2>2, <1>4, <1>5
  <1>8. q[n + 1] = x
    <2>1. d.taken + (n + 1) = Len(c.messages) + 1 BY <1>1
    <2> QED BY SMTT(30), <2>1, <1>1, <1>3, <1>5
  <1> HIDE DEF p, q, x, n
  <1>9. q = Append(p, x)
    <2> DEFINE a == Append(p, x)
    <2>1. /\ a \in Seq(Seq(Nat)) /\ Len(a) = n + 1 /\ a[n + 1] = x
          /\ \A i \in 1..n : a[i] = p[i]
      BY <1>4, <1>6, AppendProperties
    <2> HIDE DEF a
    <2>2. ASSUME NEW i \in 1..(n + 1) PROVE a[i] = q[i]
      <3>1. CASE i \in 1..n BY <3>1, <2>1, <1>7
      <3>2. CASE i = n + 1 BY <3>2, <2>1, <1>8
      <3> QED BY <3>1, <3>2, <1>3
    <2>3. a = q BY <2>1, <2>2, <1>5, SeqEqual
    <2> QED BY <2>3 DEF a
  <1>10. FlattenSeq(q) = FlattenSeq(p) \o x
    BY <1>4, <1>6, <1>9, FlattenAppend
  <1>11. FlattenSeq(q) = Cat(FlattenSeq(p), x)
    BY <1>10 DEF Cat
  <1> QED BY Zenon, <1>11, InFlightIsPending DEF p, q, x

\* The server takes the oldest message.
LEMMA InFlightTaken ==
    ASSUME NEW c \in Stream, c.taken + 1 <= Len(c.messages),
           NEW d \in Stream, d.messages = c.messages, d.taken = c.taken + 1
    PROVE  InFlight(c) = Cat(Ranks(c.messages[c.taken + 1].points), InFlight(d))
  <1>1. Len(c.messages) \in Nat /\ c.taken \in Nat
    BY DEF Stream
  <1>2. c.taken <= Len(c.messages) /\ d.taken <= Len(d.messages)
    BY <1>1
  <1> DEFINE p == Pending(c)
             q == Pending(d)
             n == Len(d.messages) - d.taken
  <1>3. n \in Nat /\ Len(c.messages) - c.taken = n + 1
    BY <1>1, <1>2
  <1>4. /\ p \in Seq(Seq(Nat)) /\ Len(p) = n + 1
        /\ \A i \in 1..(n + 1) : p[i] = Ranks(c.messages[c.taken + i].points)
    BY <1>2, <1>3, PendingIsSequence
  <1>5. /\ q \in Seq(Seq(Nat)) /\ Len(q) = n
        /\ \A i \in 1..n : q[i] = Ranks(d.messages[d.taken + i].points)
    BY <1>2, PendingIsSequence
  <1>6. \A i \in 1..n : q[i] = p[i + 1]
    <2> SUFFICES ASSUME NEW i \in 1..n PROVE q[i] = p[i + 1] OBVIOUS
    <2>1. i + 1 \in 1..(n + 1) /\ c.taken + (i + 1) = d.taken + i BY SMTT(30), <1>1, <1>3
    <2> QED BY <2>1, <1>4, <1>5
  <1>7. p[1] = Ranks(c.messages[c.taken + 1].points)
    BY <1>3, <1>4
  <1> HIDE DEF p, q, n
  <1>8. p # <<>> /\ Head(p) = p[1] /\ Tail(p) = q
    <2>1. p # <<>> BY <1>3, <1>4, EmptySeq
    <2>2. /\ Head(p) = p[1] /\ Tail(p) \in Seq(Seq(Nat)) /\ Len(Tail(p)) = n
          /\ \A i \in 1..n : Tail(p)[i] = p[i + 1]
      BY <2>1, <1>3, <1>4, HeadTailProperties
    <2>3. \A i \in 1..n : Tail(p)[i] = q[i]
      BY <2>2, <1>6
    <2> QED BY <2>1, <2>2, <2>3, <1>5, SeqEqual
  <1>9. FlattenSeq(p) = Head(p) \o FlattenSeq(Tail(p))
    BY <1>4, <1>8, FlattenFirst
  <1>10. FlattenSeq(p) = Cat(p[1], FlattenSeq(q))
    BY <1>8, <1>9 DEF Cat
  <1> QED BY Zenon, <1>7, <1>10, InFlightIsPending DEF p, q

\* What is in flight depends on the messages of the stream only.
LEMMA InFlightSame ==
    ASSUME NEW c, NEW d, d.messages = c.messages, d.taken = c.taken
    PROVE  InFlight(d) = InFlight(c)
  <1>1. Pending(d) = Pending(c) BY DEF Pending
  <1> QED BY <1>1, InFlightIsPending

\* A greeting carries no point.
LEMMA InFlightGreeting ==
    ASSUME NEW m \in Message, m.points = <<>>
    PROVE  InFlight(Connection(m)) = <<>>
  <1> DEFINE c == Connection(m)
  <1>1. c \in Stream BY NewStream
  <1>2. c.messages = <<m>> /\ c.taken = 0 BY DEF Connection
  <1> HIDE DEF c
  <1>3. c.taken <= Len(c.messages) /\ Len(c.messages) - c.taken = 1 /\ c.messages[c.taken + 1] = m
    BY <1>2
  <1>4. Pending(c) \in Seq(Seq(Nat)) /\ Len(Pending(c)) = 1 /\ Pending(c)[1] = <<>>
    <2>1. Pending(c) \in Seq(Seq(Nat)) /\ Len(Pending(c)) = 1
          /\ Pending(c)[1] = Ranks(c.messages[c.taken + 1].points)
      <3>1. /\ Pending(c) \in Seq(Seq(Nat)) /\ Len(Pending(c)) = Len(c.messages) - c.taken
            /\ \A i \in 1..(Len(c.messages) - c.taken) :
                  Pending(c)[i] = Ranks(c.messages[c.taken + i].points)
        BY <1>1, <1>3, PendingIsSequence
      <3> QED BY <1>3, <3>1
    <2> QED BY <2>1, <1>3, RanksOfNothing
  <1> DEFINE p == Pending(c)
  <1> HIDE DEF p
  <1>5. p \in Seq(Seq(Nat)) /\ Len(p) = 1 /\ p[1] = <<>> BY <1>4 DEF p
  <1>6. p # <<>> /\ Head(p) = <<>> /\ Tail(p) = <<>>
    <2>1. p # <<>> /\ Head(p) = p[1] BY <1>5, EmptySeq
    <2>2. Tail(p) \in Seq(Seq(Nat)) /\ Len(Tail(p)) = 0 BY <1>5, <2>1, HeadTailProperties
    <2> QED BY <1>5, <2>1, <2>2, EmptySeq
  <1>7. FlattenSeq(p) = Head(p) \o FlattenSeq(Tail(p))
    BY <1>5, <1>6, FlattenFirst
  <1>8. FlattenSeq(p) = <<>>
    <2>1. FlattenSeq(p) = <<>> \o FlattenSeq(<<>>) BY <1>6, <1>7
    <2>2. <<>> \o <<>> = <<>> BY ConcatEmptySeq
    <2> QED BY <2>1, <2>2, FlattenEmpty
  <1> QED BY <1>8, InFlightIsPending DEF p, c

-------------------------------------------------------------------------------
(* The journey, move by move.                                                *)

LEMMA CatWithNothing ==
    ASSUME NEW s \in Seq(Nat)
    PROVE  Cat(s, <<>>) = s /\ Cat(<<>>, s) = s /\ <<>> \in Seq(Nat)
  BY ConcatEmptySeq DEF Cat

\* Each move of points along the way from the client to the server leaves their sequence the same.
LEMMA Moves ==
    ASSUME NEW a \in Seq(Nat), NEW c \in Seq(Nat), NEW b \in Seq(Nat), NEW r \in Seq(Nat),
           NEW i \in Seq(Nat), NEW x \in Seq(Nat)
    PROVE  /\ Journey(a, c, b, r, Cat(i, x)) = Cat(Journey(a, c, b, r, i), x)
           /\ Journey(a, c, b, <<>>, Cat(x, i)) = Journey(a, c, b, x, i)
           /\ Journey(a, c, b, <<>>, Cat(x, i)) = Journey(a, c, Cat(b, x), <<>>, i)
           /\ Journey(a, c, b, r, i) = Journey(a, Cat(c, b), r, <<>>, i)
           /\ Journey(a, Cat(x, c), b, r, i) = Journey(Cat(a, x), c, b, r, i)
  <1>1. \A s, t, u \in Seq(Nat) : Cat(Cat(s, t), u) = Cat(s, Cat(t, u))
    BY CatIsAssociative
  <1>0. \A s, t \in Seq(Nat) : Cat(s, t) \in Seq(Nat)
    BY CatIsAssociative
  <1>2. \A s \in Seq(Nat) : Cat(s, <<>>) = s /\ Cat(<<>>, s) = s
    BY CatWithNothing
  <1> DEFINE ac == Cat(a, c)
             acb == Cat(ac, b)
             acbr == Cat(acb, r)
  <1>3. ac \in Seq(Nat) /\ acb \in Seq(Nat) /\ acbr \in Seq(Nat)
    BY <1>0
  <1> HIDE DEF ac, acb, acbr
  <1>4. Cat(Cat(acbr, i), x) = Cat(acbr, Cat(i, x))
    BY <1>1, <1>3
  <1>5. Cat(Cat(acb, <<>>), Cat(x, i)) = Cat(Cat(acb, x), i)
    <2>1. Cat(acb, <<>>) = acb BY Zenon, <1>2, <1>3
    <2>2. Cat(Cat(acb, x), i) = Cat(acb, Cat(x, i)) BY <1>1, <1>3
    <2> QED BY Zenon, <2>1, <2>2
  <1>6. Cat(Cat(ac, Cat(b, x)), <<>>) = Cat(acb, x)
    <2>1. Cat(b, x) \in Seq(Nat) /\ Cat(ac, Cat(b, x)) \in Seq(Nat) BY <1>0, <1>3
    <2>2. Cat(Cat(ac, b), x) = Cat(ac, Cat(b, x)) BY <1>1, <1>3
    <2> QED BY Zenon, <1>2, <2>1, <2>2 DEF acb
  <1>7. Cat(Cat(Cat(a, Cat(c, b)), r), <<>>) = acbr
    <2>1. Cat(Cat(a, c), b) = Cat(a, Cat(c, b)) BY <1>1
    <2>2. Cat(acb, r) = acbr BY DEF acbr
    <2>3. Cat(a, Cat(c, b)) = acb BY Zenon, <2>1 DEF acb, ac
    <2> QED BY Zenon, <1>2, <1>3, <2>2, <2>3
  <1>8. Cat(Cat(a, x), c) = Cat(a, Cat(x, c))
    BY <1>1
  <1>9. Journey(a, c, b, r, Cat(i, x)) = Cat(Journey(a, c, b, r, i), x)
    BY Zenon, <1>4 DEF ac, acb, acbr, Journey
  <1>10. Journey(a, c, b, <<>>, Cat(x, i)) = Journey(a, c, b, x, i)
    BY Zenon, <1>5 DEF ac, acb, Journey
  <1>11. Journey(a, c, b, <<>>, Cat(x, i)) = Journey(a, c, Cat(b, x), <<>>, i)
    BY Zenon, <1>5, <1>6 DEF ac, acb, Journey
  <1>12. Journey(a, c, b, r, i) = Journey(a, Cat(c, b), r, <<>>, i)
    BY Zenon, <1>7 DEF ac, acb, acbr, Journey
  <1>13. Journey(a, Cat(x, c), b, r, i) = Journey(Cat(a, x), c, b, r, i)
    BY Zenon, <1>8 DEF Journey
  <1> QED BY <1>9, <1>10, <1>11, <1>12, <1>13

\* What travels are sequences of ranks.
LEMMA JourneyTypes ==
    ASSUME RelayInv
    PROVE  /\ delivered \in Seq(Nat) /\ Carried \in Seq(Nat) /\ Ranks(buffer) \in Seq(Nat)
           /\ Ranks(rest) \in Seq(Nat) /\ Ranks(inPoints) \in Seq(Nat)
  <1>1. /\ delivered \in Seq(Nat) /\ buffer \in Seq(Point) /\ rest \in Seq(Point)
        /\ inPoints \in Seq(Point) /\ conn \in Seq(Stream)
    BY DEF RelayInv, RelayTypeOK
  <1>2. Ranks(buffer) \in Seq(Nat) /\ Ranks(rest) \in Seq(Nat) /\ Ranks(inPoints) \in Seq(Nat)
    BY <1>1, RanksAreNumbers
  <1>3. CASE conn = <<>>
    BY <1>1, <1>2, <1>3 DEF Carried
  <1>4. CASE conn # <<>>
    <2>1. Len(conn) \in DOMAIN conn /\ Last(conn) = conn[Len(conn)]
      BY <1>1, <1>4, EmptySeq DEF Last
    <2>2. Last(conn) \in Stream /\ StreamIsSound(Last(conn), raced)
      BY <1>1, <2>1 DEF RelayInv
    <2>3. Last(conn).taken <= Len(Last(conn).messages)
      BY <2>2, TakenAreWritten
    <2>4. InFlight(Last(conn)) \in Seq(Nat) /\ <<>> \in Seq(Nat)
      BY <2>2, <2>3, InFlightIsSequence
    <2>5. StillComes(Last(conn)) \in Seq(Nat)
      BY <2>4, StillComesIs
    <2> QED BY <1>1, <1>2, <1>4, <2>5 DEF Carried
  <1> QED BY <1>3, <1>4

-------------------------------------------------------------------------------
(* The steps.                                                                *)

\* What has arrived, and what comes after it, are the first measurements.
FirstOnes == \E n \in Nat : Cat(delivered, Carried) = Counted(n)

\* As long as no operation has failed there is one connection, the points that the output holds
\* beside its buffer follow a message that carries the buffer, and what was measured is
\* somewhere on the journey, whose first part remains when the output has ended.
Faultless ==
    /\ \/ conn = <<>> /\ out = "connect"
       \/ Len(conn) = 1 /\ out \in {"select", "poll", "write", "ended"}
    /\ rest # <<>> => out = "write" /\ SendsBuffer
    /\ out # "ended" => \A k \in DOMAIN conn : conn[k].open /\ Runs(conn[k])
    /\ out # "ended" =>
          Journey(delivered, Carried, Ranks(buffer), Ranks(rest), Ranks(inPoints)) = Counted(made)
    /\ out = "ended" => FirstOnes

\* The beginning of a sequence that counts counts as well.
LEMMA CountedBegins ==
    ASSUME NEW s \in Seq(Nat), NEW t \in Seq(Nat), NEW n \in Nat, Cat(s, t) = Counted(n)
    PROVE  \E m \in Nat : s = Counted(m)
  <1>1. /\ Len(s) \in Nat /\ Len(t) \in Nat /\ Len(Cat(s, t)) = Len(s) + Len(t)
        /\ \A i \in 1..Len(s) : Cat(s, t)[i] = s[i]
    BY ConcatProperties DEF Cat
  <1>2. Counted(n) \in Seq(Nat) /\ Len(Counted(n)) = n /\ \A i \in 1..n : Counted(n)[i] = i
    BY DEF Counted
  <1>3. Len(s) <= n
    BY <1>1, <1>2
  <1>4. \A i \in 1..Len(s) : s[i] = i
    <2> TAKE i \in 1..Len(s)
    <2>1. i \in 1..n BY <1>1, <1>3
    <2> QED BY <1>1, <1>2, <2>1
  <1>5. /\ Counted(Len(s)) \in Seq(Nat) /\ Len(Counted(Len(s))) = Len(s)
        /\ \A i \in 1..Len(s) : Counted(Len(s))[i] = i
    BY <1>1 DEF Counted
  <1>6. s = Counted(Len(s))
    BY <1>4, <1>5, SeqEqual
  <1> QED BY <1>1, <1>6

\* The first part of a journey that counts.
LEMMA JourneyBegins ==
    ASSUME NEW a \in Seq(Nat), NEW c \in Seq(Nat), NEW b \in Seq(Nat), NEW r \in Seq(Nat),
           NEW i \in Seq(Nat), NEW n \in Nat, Journey(a, c, b, r, i) = Counted(n)
    PROVE  \E m \in Nat : Cat(a, c) = Counted(m)
  <1> DEFINE ac == Cat(a, c)
             acb == Cat(ac, b)
             acbr == Cat(acb, r)
  <1>1. ac \in Seq(Nat) /\ acb \in Seq(Nat) /\ acbr \in Seq(Nat)
    BY CatIsAssociative
  <1>2. Cat(acbr, i) = Counted(n)
    BY Zenon DEF Journey
  <1> HIDE DEF ac, acb, acbr
  <1>3. PICK m3 \in Nat : acbr = Counted(m3)
    BY <1>1, <1>2, CountedBegins
  <1>4. PICK m2 \in Nat : acb = Counted(m2)
    <2>1. Cat(acb, r) = Counted(m3) BY <1>3 DEF acbr
    <2> QED BY <1>1, <2>1, CountedBegins
  <1>5. \E m \in Nat : ac = Counted(m)
    <2>1. Cat(ac, b) = Counted(m2) BY <1>4 DEF acb
    <2> QED BY <1>1, <2>1, CountedBegins
  <1> QED BY <1>5 DEF ac

\* What has arrived counts, as long as no operation has failed.
LEMMA FirstOnesArrive == ASSUME RelayInv, Faultless PROVE FirstOnes
  <1>1. CASE out = "ended"
    BY <1>1 DEF Faultless
  <1>2. CASE out # "ended"
    <2>1. Journey(delivered, Carried, Ranks(buffer), Ranks(rest), Ranks(inPoints)) = Counted(made)
      BY <1>2 DEF Faultless
    <2>2. made \in Nat BY DEF RelayInv, RelayTypeOK
    <2>3. \E m \in Nat : Cat(delivered, Carried) = Counted(m)
      BY <2>1, <2>2, JourneyTypes, JourneyBegins
    <2> QED BY <2>3 DEF FirstOnes
  <1> QED BY <1>1, <1>2

\* A step that moves no point loses none.
LEMMA FaultlessSame ==
    ASSUME Faultless, UNCHANGED <<conn, out, rest, buffer, message, delivered, inPoints, made>>
    PROVE  Faultless'
  <1>1. Carried' = Carried /\ (SendsBuffer <=> SendsBuffer')
    BY DEF Carried, SendsBuffer
  <1>2. FirstOnes' <=> FirstOnes BY <1>1 DEF FirstOnes
  <1> QED BY <1>1, <1>2 DEF Faultless

\* A new measurement enters the way at its end, and loses no point.
LEMMA MeasureLosesNothing == ASSUME RelayInv, Faultless, Measure PROVE Faultless'
  <1>1. /\ UNCHANGED <<output, conn, delivered>> /\ made' = made + 1 /\ made \in Nat
        /\ inPoints' = Append(inPoints, [rank |-> made + 1, metric |-> usable])
        /\ usable \in Nat /\ inPoints \in Seq(Point)
    BY DEF Measure, RelayInv, RelayTypeOK
  <1>2. Ranks(inPoints') = Cat(Ranks(inPoints), <<made + 1>>)
    <2>1. PICK p : p = [rank |-> made + 1, metric |-> usable] OBVIOUS
    <2>2. p \in Point /\ p.rank = made + 1 BY <1>1, <2>1 DEF Point
    <2>3. Ranks(Append(inPoints, p)) = Cat(Ranks(inPoints), <<p.rank>>)
      BY <1>1, <2>2, RanksOfAppended
    <2> QED BY <1>1, <2>1, <2>2, <2>3
  <1>3. Carried' = Carried /\ (SendsBuffer <=> SendsBuffer')
    BY <1>1 DEF Carried, SendsBuffer, output
  <1>4. <<made + 1>> \in Seq(Nat) BY <1>1
  <1>7. FirstOnes' <=> FirstOnes BY <1>1, <1>3 DEF FirstOnes
  <1>5. Journey(delivered, Carried, Ranks(buffer), Ranks(rest), Cat(Ranks(inPoints), <<made + 1>>))
        = Cat(Journey(delivered, Carried, Ranks(buffer), Ranks(rest), Ranks(inPoints)), <<made + 1>>)
    <2> DEFINE x == <<made + 1>>
    <2>1. /\ delivered \in Seq(Nat) /\ Carried \in Seq(Nat) /\ Ranks(buffer) \in Seq(Nat)
          /\ Ranks(rest) \in Seq(Nat) /\ Ranks(inPoints) \in Seq(Nat) /\ x \in Seq(Nat)
      BY <1>4, JourneyTypes
    <2> HIDE DEF x
    <2>2. Journey(delivered, Carried, Ranks(buffer), Ranks(rest), Cat(Ranks(inPoints), x))
          = Cat(Journey(delivered, Carried, Ranks(buffer), Ranks(rest), Ranks(inPoints)), x)
      BY SMTT(30), <2>1, Moves
    <2> QED BY <2>2 DEF x
  <1>6. out # "ended" =>
           Journey(delivered', Carried', Ranks(buffer'), Ranks(rest'), Ranks(inPoints')) = Counted(made')
    BY <1>1, <1>2, <1>3, <1>5, CountedNext DEF Faultless, output
  <1> QED BY <1>1, <1>3, <1>6, <1>7 DEF Faultless, output

\* A connection without fault loses no point.
LEMMA ConnectLosesNothing == ASSUME RelayInv, Faultless, Connect, ~faulty' PROVE Faultless'
  <1>1. /\ UNCHANGED <<agent, buffer, rest, message, delivered>>
        /\ out = "connect" /\ out' = "select" /\ Reconnected
    BY DEF Connect
  <1>2. conn = <<>> /\ rest = <<>>
    BY <1>1 DEF Faultless
  <1>3. conn' = <<Connection(Greeting)>>
    <2>1. conn' = Append(AllClosed, Connection(Greeting)) BY <1>1 DEF Reconnected
    <2>2. AllClosed = <<>> BY <1>2 DEF AllClosed
    <2> QED BY <2>1, <2>2
  <1>4. Greeting \in Message /\ Greeting.points = <<>>
    BY DEF Greeting, Definitions, Message, RelayInv, RelayTypeOK
  <1>5. Carried = <<>> BY <1>2 DEF Carried
  <1>6. Carried' = <<>>
    <2>1. conn' # <<>> /\ Last(conn') = Connection(Greeting)
      BY <1>3 DEF Last
    <2>2. Carried' = StillComes(Last(conn'))
      BY <2>1 DEF Carried
    <2> QED BY <2>1, <2>2, <1>4, InFlightGreeting, StillComesIs
  <1>7. /\ Len(conn') = 1
        /\ \A k \in DOMAIN conn' : conn'[k].open /\ Runs(conn'[k])
    BY <1>3 DEF Connection, Runs
  <1> QED BY <1>1, <1>2, <1>5, <1>6, <1>7 DEF Faultless, agent

\* A server whose connection is closed carries what it carried.
LEMMA ClosedCarries ==
    ASSUME NEW c \in Stream
    PROVE  StillComes(CloseOne(c)) = StillComes(c)
  <1>1. /\ CloseOne(c).messages = c.messages /\ CloseOne(c).taken = c.taken
        /\ CloseOne(c).reader = c.reader
    BY DEF CloseOne, Stream
  <1>2. InFlight(CloseOne(c)) = InFlight(c) BY <1>1, InFlightSame
  <1>3. Runs(CloseOne(c)) <=> Runs(c) BY <1>1 DEF Runs
  <1> QED BY <1>2, <1>3, StillComesIs

\* The end of the output leaves the first part of the journey.
LEMMA EndLosesNothing == ASSUME RelayInv, Faultless, EndOutput PROVE Faultless'
  <1>1. /\ UNCHANGED <<agent, buffer, rest, message, delivered>>
        /\ out = "poll" /\ out' = "ended" /\ conn' = AllClosed
    BY DEF EndOutput
  <1>2. Len(conn) = 1 /\ rest = <<>> /\ conn \in Seq(Stream)
    BY <1>1 DEF Faultless, RelayInv, RelayTypeOK
  <1>3. Len(conn') = 1 /\ conn'[1] = CloseOne(conn[1])
    BY <1>1, <1>2, AllClosedAreSound
  <1>4. Carried' = Carried
    <2>1. conn # <<>> /\ conn' # <<>> /\ Last(conn) = conn[1] /\ Last(conn') = conn'[1]
      BY <1>2, <1>3 DEF Last
    <2>2. Carried = StillComes(conn[1]) /\ Carried' = StillComes(conn'[1])
      BY <2>1 DEF Carried
    <2>3. conn[1] \in Stream BY <1>2
    <2> QED BY <1>3, <2>2, <2>3, ClosedCarries
  <1>5. FirstOnes'
    BY <1>1, <1>4, FirstOnesArrive DEF FirstOnes
  <1> QED BY <1>1, <1>2, <1>3, <1>5 DEF Faultless

\* The metrics sent before the points hold no point.
LEMMA SendMetricsLosesNothing == ASSUME Faultless, SendMetrics PROVE Faultless'
  <1>1. /\ UNCHANGED <<inPoints, made, buffer, rest, conn, delivered>>
        /\ out = "select" /\ out' = "write"
    BY DEF SendMetrics, Begin
  <1>2. rest = <<>> /\ Len(conn) = 1 BY <1>1 DEF Faultless
  <1>3. Carried' = Carried BY <1>1 DEF Carried
  <1> QED BY <1>1, <1>2, <1>3 DEF Faultless

\* A turn of the loop without any point loses none.
LEMMA PollLosesNothing == ASSUME Faultless, PollMetrics \/ NothingReady PROVE Faultless'
  <1>1. /\ UNCHANGED <<agent, buffer, rest, message, conn, delivered>>
        /\ out \in {"select", "poll"} /\ out' \in {"select", "poll"}
    BY DEF PollMetrics, NothingReady
  <1>2. rest = <<>> /\ Len(conn) = 1 BY <1>1 DEF Faultless
  <1>3. Carried' = Carried BY <1>1 DEF Carried
  <1> QED BY <1>1, <1>2, <1>3 DEF Faultless, agent

\* A buffer received by the output loses no point.
LEMMA ReceiveLosesNothing == ASSUME RelayInv, Faultless, ReceivePoints PROVE Faultless'
  <1>1. /\ UNCHANGED <<made, conn, delivered>>
        /\ out = "poll" /\ inPoints # <<>> /\ inPoints' = Tail(inPoints)
        /\ inPoints \in Seq(Point) /\ buffer \in Seq(Point)
    BY DEF ReceivePoints, RelayInv, RelayTypeOK
  <1>2. rest = <<>> /\ Len(conn) = 1 BY <1>1 DEF Faultless
  <1>3. Carried' = Carried BY <1>1 DEF Carried
  <1> DEFINE p == Head(inPoints)
  <1>4. p \in Point /\ inPoints' \in Seq(Point)
    BY <1>1, HeadTailProperties
  <1>5. /\ Ranks(inPoints) = Cat(Ranks(<<p>>), Ranks(inPoints'))
        /\ Ranks(<<p>>) = <<p.rank>> /\ Ranks(<<p>>) \in Seq(Nat) /\ Ranks(inPoints') \in Seq(Nat)
        /\ Ranks(<<>>) = <<>>
    <2>1. <<p>> \in Seq(Point) BY <1>4
    <2> QED BY <1>1, <1>4, <2>1, RanksOfFirst, RanksOfFew, RanksAreNumbers
  <1> HIDE DEF p
  <1>6. Journey(delivered, Carried, Ranks(buffer), <<>>, Cat(Ranks(<<p>>), Ranks(inPoints')))
        = Counted(made)
    <2>1. Ranks(rest) = <<>> BY <1>2, <1>5
    <2>2. Journey(delivered, Carried, Ranks(buffer), Ranks(rest), Ranks(inPoints)) = Counted(made)
      BY <1>1 DEF Faultless
    <2> QED BY <1>5, <2>1, <2>2
  <1>7. /\ Journey(delivered, Carried, Ranks(buffer), Ranks(<<p>>), Ranks(inPoints')) = Counted(made)
        /\ Journey(delivered, Carried, Cat(Ranks(buffer), Ranks(<<p>>)), <<>>, Ranks(inPoints'))
           = Counted(made)
    <2> DEFINE x == Ranks(<<p>>)
               i == Ranks(inPoints')
    <2>1. /\ delivered \in Seq(Nat) /\ Carried \in Seq(Nat) /\ Ranks(buffer) \in Seq(Nat)
          /\ i \in Seq(Nat) /\ x \in Seq(Nat)
      BY <1>5, JourneyTypes
    <2> HIDE DEF x, i
    <2>2. /\ Journey(delivered, Carried, Ranks(buffer), <<>>, Cat(x, i))
             = Journey(delivered, Carried, Ranks(buffer), x, i)
          /\ Journey(delivered, Carried, Ranks(buffer), <<>>, Cat(x, i))
             = Journey(delivered, Carried, Cat(Ranks(buffer), x), <<>>, i)
      BY <2>1, Moves
    <2> QED BY <1>6, <2>2 DEF x, i
  <1>8. \/ /\ rest' = <<p>> /\ UNCHANGED buffer /\ out' = "write"
           /\ message' = Measurements(buffer)
        \/ /\ buffer' = Append(buffer, p) /\ UNCHANGED rest /\ out' \in {"select", "write"}
    BY <1>1 DEF ReceivePoints, Begin, p
  <1>9. CASE rest' = <<p>> /\ UNCHANGED buffer /\ out' = "write" /\ message' = Measurements(buffer)
    <2>1. SendsBuffer' BY <1>9 DEF SendsBuffer, Measurements
    <2> QED BY <1>1, <1>2, <1>3, <1>7, <1>9, <2>1 DEF Faultless
  <1>10. CASE buffer' = Append(buffer, p) /\ UNCHANGED rest /\ out' \in {"select", "write"}
    <2>1. Ranks(buffer') = Cat(Ranks(buffer), Ranks(<<p>>))
      BY <1>1, <1>4, <1>5, <1>10, RanksOfAppended
    <2>2. rest' = <<>> /\ Ranks(rest') = <<>> BY <1>2, <1>5, <1>10
    <2> QED BY <1>1, <1>2, <1>3, <1>7, <1>10, <2>1, <2>2 DEF Faultless
  <1> QED BY <1>8, <1>9, <1>10

\* A message written to the stream loses no point.
LEMMA WrittenLosesNothing == ASSUME RelayInv, Faultless, Written PROVE Faultless'
  <1>1. /\ UNCHANGED <<agent, delivered>> /\ out = "write" /\ out' = "select"
        /\ WriteUnits(MessageSize) /\ rest' = <<>>
        /\ buffer' = IF SendsBuffer THEN rest ELSE buffer
    BY DEF Written, Clear
  <1>2. Len(conn) = 1 /\ CurrentConn = 1 /\ conn \in Seq(Stream) /\ message \in Message
    BY <1>1 DEF Faultless, RelayInv, RelayTypeOK, CurrentConn
  <1>3. conn[1] \in Stream /\ StreamIsSound(conn[1], raced) /\ 1 \in DOMAIN conn
    <2>1. 1 \in DOMAIN conn BY <1>2
    <2> QED BY <1>2, <2>1, ElementOfSeq DEF RelayInv
  <1> DEFINE c == conn[1]
  <1>4. PICK d : d = [c EXCEPT !.messages = Append(c.messages, message),
                               !.written = c.written + MessageSize]
    OBVIOUS
  <1>5. conn' = [conn EXCEPT ![1] = d]
    BY <1>1, <1>2, <1>3, <1>4 DEF WriteUnits, Stream
  <1> HIDE DEF c
  <1>6. /\ d \in Stream /\ d.messages = Append(c.messages, message) /\ d.taken = c.taken
        /\ d.open = c.open /\ d.reader = c.reader
        /\ c \in Stream /\ c.taken <= Len(c.messages)
    <2>1. c \in Stream /\ StreamIsSound(c, raced) BY <1>3 DEF c
    <2>2. c.taken <= Len(c.messages) BY <2>1, TakenAreWritten
    <2>3. Append(c.messages, message) \in Seq(Message) /\ c.written + MessageSize \in Nat
      BY <1>2, <2>1, AppendProperties, MessageSizeIsPositive DEF Stream
    <2> QED BY <1>4, <2>1, <2>2, <2>3 DEF Stream
  <1>7. InFlight(d) = Cat(InFlight(c), Ranks(message.points))
    BY <1>2, <1>6, InFlightWritten
  <1>8. /\ Len(conn') = 1 /\ conn'[1] = d
    <2>1. /\ conn' \in Seq(Stream) /\ Len(conn') = Len(conn)
          /\ \A i \in 1..Len(conn) : conn'[i] = IF i = 1 THEN d ELSE conn[i]
      <3>1. conn \in Seq(Stream) /\ 1 \in 1..Len(conn) /\ d \in Stream BY <1>2, <1>6
      <3> QED BY <1>5, <3>1, ExceptSeq
    <2> QED BY <1>2, <2>1
  <1>13. c.open /\ Runs(c) /\ d.open /\ Runs(d)
    <2>1. conn[1].open /\ Runs(conn[1]) BY <1>1, <1>3 DEF Faultless
    <2> QED BY <2>1, <1>6 DEF c, Runs
  <1>14. \A k \in DOMAIN conn' : conn'[k].open /\ Runs(conn'[k])
    <2>1. DOMAIN conn' = 1..1
      <3>1. conn' = [conn EXCEPT ![1] = d] /\ DOMAIN conn = 1..1 BY <1>2, <1>5
      <3> QED BY <3>1
    <2> QED BY <1>8, <1>13, <2>1
  <1>9. Carried = InFlight(c) /\ Carried' = Cat(Carried, Ranks(message.points))
    <2>1. conn # <<>> /\ conn' # <<>> /\ Last(conn) = conn[1] /\ Last(conn') = conn'[1]
      BY <1>2, <1>8 DEF Last
    <2>2. Carried = StillComes(conn[1]) /\ Carried' = StillComes(conn'[1])
      BY <2>1 DEF Carried
    <2>3. StillComes(c) = InFlight(c) /\ StillComes(d) = InFlight(d) BY <1>13, StillComesIs
    <2> QED BY <1>7, <1>8, <2>2, <2>3 DEF c
  <1>10. Ranks(<<>>) = <<>> BY RanksOfNothing
  <1>11. CASE SendsBuffer
    <2>1. message.points = buffer /\ buffer' = rest BY <1>1, <1>11 DEF SendsBuffer
    <2>2. Journey(delivered, Carried, Ranks(buffer), Ranks(rest), Ranks(inPoints))
          = Journey(delivered, Cat(Carried, Ranks(buffer)), Ranks(rest), <<>>, Ranks(inPoints))
      BY JourneyTypes, Moves
    <2> QED BY <1>1, <1>8, <1>9, <1>10, <1>14, <2>1, <2>2 DEF Faultless, agent
  <1>12. CASE ~SendsBuffer
    <2>1. message.points = <<>> /\ buffer' = buffer /\ rest = <<>>
      BY <1>1, <1>12 DEF SendsBuffer, RelayInv, MessageInv, Faultless
    <2>2. Carried' = Carried BY <1>9, <1>10, <2>1, JourneyTypes, CatWithNothing
    <2> QED BY <1>1, <1>8, <1>10, <1>14, <2>1, <2>2 DEF Faultless, agent
  <1> QED BY <1>11, <1>12

\* The last element of a sequence of one.
LEMMA OnlyOne ==
    ASSUME NEW s \in Seq(Stream), Len(s) = 1
    PROVE  s # <<>> /\ Last(s) = s[1] /\ s[1] \in Stream
  BY DEF Last

\* What arrives stays the same when the server of the connection reads or takes a message.
LEMMA ServerLosesNothing ==
    ASSUME RelayInv, Faultless, NEW k \in DOMAIN conn, NEW d \in Stream, SetConn(k, d),
           d.messages = conn[k].messages, d.open = conn[k].open, Runs(conn[k]), Runs(d),
           UNCHANGED <<agent, output>>,
           \/ d.taken = conn[k].taken /\ delivered' = delivered
           \/ /\ d.taken = conn[k].taken + 1 /\ d.taken <= Len(d.messages)
              /\ delivered' = Cat(delivered, Ranks(d.messages[d.taken].points))
    PROVE  Faultless'
  <1>1. conn \in Seq(Stream) /\ Len(conn) = 1 /\ k = 1
    <2>1. conn \in Seq(Stream) BY DEF RelayInv, RelayTypeOK
    <2>2. conn # <<>> OBVIOUS
    <2>3. Len(conn) = 1 BY <2>2 DEF Faultless
    <2> QED BY <2>1, <2>3
  <1> DEFINE c == conn[1]
  <1>2. c \in Stream /\ c.taken <= Len(c.messages)
    <2>1. 1 \in DOMAIN conn BY <1>1
    <2>2. c \in Stream BY <1>1, OnlyOne
    <2>3. StreamIsSound(c, raced) BY <2>1 DEF RelayInv
    <2> HIDE DEF c
    <2> QED BY <2>2, <2>3, TakenAreWritten
  <1>3. conn' \in Seq(Stream) /\ Len(conn') = 1 /\ conn'[1] = d /\ DOMAIN conn' = 1..1
    <2>1. conn' = [conn EXCEPT ![1] = d] BY <1>1 DEF SetConn
    <2>2. 1 \in 1..Len(conn) BY <1>1
    <2>3. /\ conn' \in Seq(Stream) /\ Len(conn') = Len(conn)
          /\ \A i \in 1..Len(conn) : conn'[i] = IF i = 1 THEN d ELSE conn[i]
      BY SMTT(30), <1>1, <2>1, <2>2, ExceptSeq
    <2>4. DOMAIN conn' = 1..1 BY <1>1, <2>3
    <2> QED BY <1>1, <2>2, <2>3, <2>4
  <1>4. Carried = InFlight(c) /\ Carried' = InFlight(d)
    <2>1. conn # <<>> /\ Last(conn) = conn[1]
      BY <1>1, OnlyOne
    <2>2. conn' # <<>> /\ Last(conn') = conn'[1]
      BY <1>3, OnlyOne
    <2>3. Carried = StillComes(c) /\ Carried' = StillComes(d)
      BY <1>3, <2>1, <2>2 DEF Carried
    <2>4. Runs(c) BY <1>1
    <2> HIDE DEF c
    <2> QED BY <2>3, <2>4, StillComesIs
  <1>5. SendsBuffer <=> SendsBuffer' BY DEF SendsBuffer, output
  <1>6. c.messages = d.messages BY <1>1
  <1>7. Cat(delivered', Carried') = Cat(delivered, Carried)
    <2>1. CASE d.taken = c.taken /\ delivered' = delivered
      <3>1. InFlight(d) = InFlight(c) BY <1>6, <2>1, InFlightSame
      <3> QED BY <1>4, <2>1, <3>1
    <2>2. CASE /\ d.taken = c.taken + 1 /\ d.taken <= Len(d.messages)
               /\ delivered' = Cat(delivered, Ranks(d.messages[d.taken].points))
      <3> DEFINE x == Ranks(d.messages[d.taken].points)
                 f == InFlight(d)
      <3>1. InFlight(c) = Cat(x, f)
        <4>1. c.taken + 1 <= Len(c.messages) BY <1>6, <2>2
        <4> HIDE DEF c
        <4>2. InFlight(c) = Cat(Ranks(c.messages[c.taken + 1].points), InFlight(d))
          BY <1>2, <1>6, <2>2, <4>1, InFlightTaken
        <4> QED BY <1>6, <2>2, <4>2
      <3>2. x \in Seq(Nat) /\ f \in Seq(Nat)
        <4>1. d.messages \in Seq(Message) /\ d.taken \in Nat /\ Len(d.messages) \in Nat BY DEF Stream
        <4>2. c.taken \in Nat BY <1>2 DEF Stream
        <4> HIDE DEF c
        <4>3. d.taken \in 1..Len(d.messages) BY <2>2, <4>1, <4>2
        <4>4. d.messages[d.taken] \in Message BY <4>1, <4>3, ElementOfSeq
        <4>5. d.messages[d.taken].points \in Seq(Point) BY <4>4 DEF Message
        <4> QED BY <2>2, <4>5, RanksAreNumbers, InFlightIsSequence
      <3> HIDE DEF x, f, c
      <3>3. delivered \in Seq(Nat) BY JourneyTypes
      <3>4. Cat(Cat(delivered, x), f) = Cat(delivered, Cat(x, f))
        BY <3>2, <3>3, CatIsAssociative
      <3>5. Carried = Cat(x, f) /\ Carried' = f /\ delivered' = Cat(delivered, x)
        BY <1>4, <2>2, <3>1 DEF f, x
      <3> QED BY <3>4, <3>5
    <2> QED BY <1>1, <2>1, <2>2
  <1>8. FirstOnes' <=> FirstOnes BY <1>7 DEF FirstOnes
  <1>9. Journey(delivered', Carried', Ranks(buffer'), Ranks(rest'), Ranks(inPoints'))
        = Journey(delivered, Carried, Ranks(buffer), Ranks(rest), Ranks(inPoints))
    BY <1>7 DEF Journey, agent, output
  <1>10. out' # "ended" => \A j \in DOMAIN conn' : conn'[j].open /\ Runs(conn'[j])
    BY <1>1, <1>3 DEF Faultless, output
  <1> QED BY <1>3, <1>5, <1>8, <1>9, <1>10 DEF Faultless, agent, output

\* A message read by the server loses no point.
LEMMA ReadLosesNothing ==
    ASSUME RelayInv, Faultless, raced = {}, NEW k \in DOMAIN conn, Read(k)
    PROVE  Faultless'
  <1>1. /\ UNCHANGED <<agent, output, faulty>> /\ conn[k] \in Stream /\ delivered \in Seq(Nat)
    BY DEF Read, RelayInv, RelayTypeOK
  <1>2. PICK c \in Stream :
           /\ c.messages = conn[k].messages /\ c.taken = conn[k].taken /\ StreamIsSound(c, raced)
           /\ c.open = conn[k].open /\ Runs(conn[k]) /\ Runs(c)
           /\ \/ Buffered(c) >= MessageSize /\ Process(k, c)
              \/ SetConn(k, [c EXCEPT !.reader = "body"]) /\ UNCHANGED delivered
              \/ SetConn(k, c) /\ UNCHANGED delivered
    BY ReadReads
  <1>3. CASE Buffered(c) >= MessageSize /\ Process(k, c)
    <2>1. PICK d \in Stream :
             /\ d.messages = c.messages /\ d.taken = c.taken + 1 /\ d.open = c.open
             /\ SetConn(k, d) /\ d.taken \in 1..Len(c.messages)
             /\ raced = {} =>
                   Runs(d) /\ delivered' = delivered \o Ranks(c.messages[c.taken + 1].points)
      BY <1>1, <1>2, <1>3, ProcessProcesses
    <2>2. delivered' = Cat(delivered, Ranks(d.messages[d.taken].points))
      BY <2>1 DEF Cat
    <2>3. /\ d.messages = conn[k].messages /\ d.open = conn[k].open /\ Runs(d)
          /\ d.taken = conn[k].taken + 1 /\ d.taken <= Len(d.messages)
      BY <1>2, <2>1
    <2> QED BY <1>1, <1>2, <2>1, <2>2, <2>3, ServerLosesNothing
  <1>4. CASE SetConn(k, [c EXCEPT !.reader = "body"]) /\ UNCHANGED delivered
    <2>1. PICK d : d = [c EXCEPT !.reader = "body"]
      OBVIOUS
    <2>2. /\ d \in Stream /\ d.messages = c.messages /\ d.taken = c.taken
          /\ d.open = c.open /\ Runs(d)
      BY <1>2, <2>1 DEF Stream, Readers, Runs
    <2>3. SetConn(k, d) BY <1>4, <2>1
    <2> QED BY <1>1, <1>2, <1>4, <2>2, <2>3, ServerLosesNothing
  <1>5. CASE SetConn(k, c) /\ UNCHANGED delivered
    BY <1>1, <1>2, <1>5, ServerLosesNothing
  <1> QED BY <1>2, <1>3, <1>4, <1>5

\* The end of a stream comes when the output has ended; what the server had read is lost.
LEMMA ReadEofLosesNothing ==
    ASSUME RelayInv, Faultless, NEW k \in DOMAIN conn, ReadEof(k)
    PROVE  Faultless'
  <1>1. /\ UNCHANGED <<agent, output, delivered>> /\ ~conn[k].open
        /\ conn \in Seq(Stream)
    BY DEF ReadEof, RelayInv, RelayTypeOK
  <1>2. out = "ended" /\ Len(conn) = 1 /\ k = 1
    <2>1. out = "ended" BY <1>1 DEF Faultless
    <2>2. Len(conn) = 1 BY <2>1 DEF Faultless
    <2> QED BY <1>1, <2>1, <2>2
  <1>3. PICK r \in {"disconnected", "failed"} : SetConn(1, [conn[1] EXCEPT !.reader = r])
    BY <1>2 DEF ReadEof
  <1>4. PICK d : d = [conn[1] EXCEPT !.reader = r]
    OBVIOUS
  <1>5. d \in Stream /\ ~Runs(d)
    <2>1. conn[1] \in Stream BY <1>1, <1>2
    <2> QED BY <1>3, <1>4, <2>1 DEF Stream, Readers, Runs
  <1>6. conn' = [conn EXCEPT ![1] = d] /\ conn' \in Seq(Stream) /\ Len(conn') = 1 /\ conn'[1] = d
    <2>1. conn' = [conn EXCEPT ![1] = d] BY <1>3, <1>4 DEF SetConn
    <2>2. 1 \in 1..Len(conn) BY <1>2
    <2>3. /\ conn' \in Seq(Stream) /\ Len(conn') = Len(conn)
          /\ \A i \in 1..Len(conn) : conn'[i] = IF i = 1 THEN d ELSE conn[i]
      BY SMTT(30), <1>1, <1>5, <2>1, <2>2, ExceptSeq
    <2> QED BY <1>2, <2>1, <2>2, <2>3
  <1>7. Carried' = <<>>
    <2>1. conn' # <<>> /\ Last(conn') = d BY <1>6, OnlyOne
    <2>2. Carried' = StillComes(d) BY <2>1 DEF Carried
    <2> QED BY <1>5, <2>2, StillComesIs
  <1>8. FirstOnes'
    <2>1. delivered \in Seq(Nat) /\ Carried \in Seq(Nat) BY JourneyTypes
    <2>2. PICK n \in Nat : Cat(delivered, Carried) = Counted(n)
      BY FirstOnesArrive DEF FirstOnes
    <2>3. PICK m \in Nat : delivered = Counted(m)
      BY <2>1, <2>2, CountedBegins
    <2>4. Cat(delivered', Carried') = Counted(m)
      BY <1>1, <1>7, <2>1, <2>3, CatWithNothing
    <2> QED BY <2>4 DEF FirstOnes
  <1>9. out' = "ended" /\ rest' = <<>>
    BY <1>1, <1>2 DEF Faultless, output
  <1> QED BY <1>6, <1>8, <1>9 DEF Faultless

\* As long as there was no fault, no point is lost.
LEMMA FaultlessInvariant == RelaySpec => [](faulty \/ raced # {} \/ Faultless)
  <1>1. RelayInit => Faultless
    <2> SUFFICES ASSUME RelayInit PROVE Faultless OBVIOUS
    <2>1. /\ conn = <<>> /\ out = "connect" /\ rest = <<>> /\ buffer = <<>> /\ inPoints = <<>>
          /\ delivered = <<>> /\ made = 0 /\ Carried = <<>>
      BY DEF RelayInit, Carried
    <2>2. <<>> \in Seq(Nat) /\ Cat(<<>>, <<>>) = <<>>
      <3>1. <<>> \in Seq(Nat) OBVIOUS
      <3> QED BY <3>1, CatWithNothing
    <2>3. Counted(0) = <<>> BY DEF Counted
    <2> QED BY <2>1, <2>2, <2>3, RanksOfNothing DEF Faultless, Journey
  <1>2. RelayInv /\ (faulty \/ raced # {} \/ Faultless) /\ [RelayNext]_relayVars
        => (faulty \/ raced # {} \/ Faultless)'
    <2> SUFFICES ASSUME RelayInv, faulty \/ raced # {} \/ Faultless, [RelayNext]_relayVars,
                        ~faulty', raced' = {}
                 PROVE  Faultless'
      OBVIOUS
    <2>1. Faultless /\ raced = {}
      <3>1. CASE UNCHANGED relayVars BY <3>1 DEF relayVars
      <3>2. CASE RelayNext
        <4>1. faulty => faulty'
          BY <3>2 DEF RelayNext, PublishMetric, LateMetricsHook, AnswerSource, Measure, StopStream,
             Connect, SendMetrics, PollMetrics, ReceivePoints, NothingReady, Lagged, EndOutput,
             Written, WriteError, Reconnect, Read, ReadEof, ReadError
        <4>2. raced \subseteq raced'
          <5>1. CASE ReceivePoints BY <5>1 DEF ReceivePoints
          <5>2. CASE ~ReceivePoints
            BY <3>2, <5>2 DEF RelayNext, PublishMetric, LateMetricsHook, AnswerSource, Measure,
               StopStream, Connect, SendMetrics, PollMetrics, NothingReady, Lagged, EndOutput,
               Written, WriteError, Reconnect, Read, ReadEof, ReadError
          <5> QED BY <5>1, <5>2
        <4> QED BY <4>1, <4>2
      <3> QED BY <3>1, <3>2
    <2>2. CASE UNCHANGED relayVars \/ PublishMetric \/ LateMetricsHook \/ AnswerSource \/ StopStream
      <3>1. UNCHANGED <<conn, out, rest, buffer, message, delivered, inPoints, made>>
        BY <2>2 DEF relayVars, agent, output, PublishMetric, LateMetricsHook, AnswerSource, StopStream
      <3> QED BY <2>1, <3>1, FaultlessSame
    <2>3. ~Lagged /\ ~WriteError /\ ~Reconnect /\ \A k \in DOMAIN conn : ~ReadError(k)
      BY <2>1 DEF Lagged, WriteError, Reconnect, ReadError, Faultless
    <2>4. ASSUME NEW k \in DOMAIN conn, Read(k) \/ ReadEof(k) PROVE Faultless'
      BY <2>1, <2>4, ReadLosesNothing, ReadEofLosesNothing
    <2> QED
      BY <2>1, <2>2, <2>3, <2>4, MeasureLosesNothing, ConnectLosesNothing, EndLosesNothing,
         SendMetricsLosesNothing, PollLosesNothing, ReceiveLosesNothing, WrittenLosesNothing
         DEF RelayNext
  <1> QED BY <1>1, <1>2, RelayInvInvariant, PTL DEF RelaySpec

\* As long as no operation of the connections has failed, the output did not lag and no metric
\* was measured in the turn in which it was told, every measurement is, once and in order, at the
\* server, on its way or at the output; those that arrive are always the first ones.
THEOREM MeasurementsAreKept == RelaySpec => []NothingLost
  <1>1. RelayInv /\ (faulty \/ raced # {} \/ Faultless) => NothingLost
    <2> SUFFICES ASSUME RelayInv, Faultless, ~faulty, raced = {} PROVE NothingLost
      BY DEF NothingLost
    <2>1. Arriving = Cat(delivered, Carried)
      BY DEF Arriving, Carried, Cat
    <2>2. ASSUME out # "ended"
          PROVE  Arriving \o Ranks(buffer) \o Ranks(rest) \o Ranks(inPoints) = Counted(made)
      <3>1. Journey(delivered, Carried, Ranks(buffer), Ranks(rest), Ranks(inPoints))
            = Arriving \o Ranks(buffer) \o Ranks(rest) \o Ranks(inPoints)
        BY <2>1 DEF Journey, Cat
      <3> QED BY <2>2, <3>1 DEF Faultless
    <2>3. PICK n \in Nat : Arriving = Counted(n)
      BY <2>1, FirstOnesArrive DEF FirstOnes
    <2>4. Len(Counted(n)) = n BY DEF Counted
    <2>5. Arriving = Counted(Len(Arriving)) BY <2>3, <2>4
    <2> QED BY <2>2, <2>5 DEF NothingLost, Counted
  <1> QED BY <1>1, RelayInvInvariant, FaultlessInvariant, PTL
===============================================================================
