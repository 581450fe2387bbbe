----------------------------- MODULE RelayFormat -----------------------------
(***************************************************************************)
(* What the messages of the relay do to the definitions of metrics and to  *)
(* the points: each agent turns units, resources, consumers and attributes *)
(* into texts, and the next one reads the texts back.  An agent that       *)
(* receives may itself relay to a third one.                               *)
(*                                                                         *)
(* An identifier is a sequence of texts: a partition of a GPU is shown as  *)
(* <<parent, "/", number>>.                                                *)
(***************************************************************************)
EXTENDS Units, Filtering, Integers

CONSTANTS
    RelayedUnits,    \* sequences of prefixed units, of metrics registered together
    RelayedPoints,   \* sequences of points: [resource, consumer, attr]
    Hops             \* bound: agents in a row

VARIABLES
    relaySent,     \* what the first agent has: [kind, items]
    relayHere,     \* the same in the agent reached: items with the index of the first one
    relayBefore,   \* and in the agent before it
    relayHop,      \* relays crossed
    relayClosed    \* a receiver has ended the connection with an error

relayFormatVars == <<relaySent, relayHere, relayBefore, relayHop, relayClosed>>

Numbers == {"0", "1"}     \* the texts that are read as numbers

ResourceKinds ==
    [LocalMachine |-> "local_machine", CpuPackage |-> "cpu_package", CpuCore |-> "cpu_core",
     Dram |-> "dram", Gpu |-> "gpu", GpuPartition |-> "gpu_partition"]

ConsumerKinds == [LocalMachine |-> "local_machine", Process |-> "process", ControlGroup |-> "cgroup"]

Resource(type, id) == [type |-> type, kind |-> ResourceKinds[type], id |-> id]
Consumer(type, id) == [type |-> type, kind |-> ConsumerKinds[type], id |-> id]
CustomOf(kind, id) == [type |-> "Custom", kind |-> kind, id |-> id]

\* id_display.
IdText(r) == IF r.type = "GpuPartition" THEN <<r.id[1], "/", r.id[2]>> ELSE r.id

Typed(type, r, readable) == IF readable THEN [r EXCEPT !.type = type] ELSE Invalid
IsNumber(id) == Len(id) = 1 /\ id[1] \in Numbers

\* Mutant of NormalizeResource: the memory and the package of a processor are one.
NormalizeResourceMixed(r) ==
    CASE r.kind \in {"cpu_package", "dram"} -> Resource("CpuPackage", r.id)
      [] OTHER -> r

\* Resource::normalize: custom resources of the kinds of the others.  A partition of a GPU
\* stays custom.
NormalizeResource(r) ==
    CASE r.kind = "local_machine" -> Typed("LocalMachine", r, r.id = <<>>)
      [] r.kind = "cpu_package" -> Typed("CpuPackage", r, IsNumber(r.id))
      [] r.kind = "cpu_core" -> Typed("CpuCore", r, IsNumber(r.id))
      [] r.kind = "dram" -> Typed("Dram", r, IsNumber(r.id))
      [] r.kind = "gpu" -> Typed("Gpu", r, TRUE)
      [] OTHER -> r

\* ResourceConsumer::normalize: the local machine stays custom.
NormalizeConsumer(c) ==
    CASE c.kind = "process" -> Typed("Process", c, IsNumber(c.id))
      [] c.kind = "cgroup" -> Typed("ControlGroup", c, TRUE)
      [] OTHER -> c

\* Mutant of TypedValue: a boolean becomes a number.
TypedValueNumber(attr) ==
    CASE attr \in {"Str", "String"} -> "Str" [] attr = "Bool" -> "U64" [] OTHER -> attr

\* Both kinds of strings become borrowed ones, and are owned after that.
TypedValue(attr) == IF attr \in {"Str", "String"} THEN "Str" ELSE attr

AttributeOf(value) == IF value = "Str" THEN "String" ELSE value

IsResource(r) ==
    /\ r = [type |-> r.type, kind |-> r.kind, id |-> r.id]
    /\ \/ r.type = "Custom"
       \/ /\ r.type \in DOMAIN ResourceKinds /\ r.kind = ResourceKinds[r.type]
          /\ r.type = "LocalMachine" => r.id = <<>>
          /\ r.type \in {"CpuPackage", "CpuCore", "Dram"} => IsNumber(r.id)

IsConsumer(c) ==
    /\ c = [type |-> c.type, kind |-> c.kind, id |-> c.id]
    /\ \/ c.type = "Custom"
       \/ /\ c.type \in DOMAIN ConsumerKinds /\ c.kind = ConsumerKinds[c.type]
          /\ c.type = "LocalMachine" => c.id = <<>>
          /\ c.type = "Process" => IsNumber(c.id)

\* The name of a custom unit is, as that of the others, the one of the UCUM: it is not the
\* name of a standard unit.
IsUnit(p) ==
    /\ p = WithPrefix(p.base, p.prefix) /\ p.prefix \in DOMAIN PrefixNames
    /\ \/ p.base \in {StandardUnit(u) : u \in DOMAIN UnitNames}
       \/ /\ p.base = CustomUnit(p.base.unique, p.base.display)
          /\ \A u \in DOMAIN UnitNames : UnitNames[u][1] # p.base.unique

IsPoint(p) ==
    /\ p = [resource |-> p.resource, consumer |-> p.consumer, attr |-> p.attr]
    /\ IsResource(p.resource) /\ IsConsumer(p.consumer)

ASSUME FormatAssumption ==
    /\ Hops \in Nat
    /\ \A units \in RelayedUnits :
          units \in Seq(Range(units)) /\ \A i \in DOMAIN units : IsUnit(units[i])
    /\ \A points \in RelayedPoints :
          points \in Seq(Range(points)) /\ \A i \in DOMAIN points : IsPoint(points[i])

\* A point that is written in a message and read from it, or Invalid.
ReadPoint(p) ==
    LET resource == NormalizeResource(CustomOf(p.resource.kind, IdText(p.resource)))
        consumer == NormalizeConsumer(CustomOf(p.consumer.kind, IdText(p.consumer)))
    IN IF Invalid \in {resource, consumer} THEN Invalid
       ELSE [resource |-> resource, consumer |-> consumer, attr |-> AttributeOf(TypedValue(p.attr))]

\* Mutant of ReadUnit: the prefix is forgotten.
ReadUnitPlain(p) ==
    IF ParseUnit(p.base.unique) = Invalid THEN Invalid ELSE WithPrefix(ParseUnit(p.base.unique), "Plain")

\* The unit of a metric, whose base and prefix are two texts of the message.
ReadUnit(p) ==
    LET base == ParseUnit(p.base.unique)
        prefix == ParsePrefix(PrefixNames[p.prefix][1])
    IN IF base = Invalid THEN Invalid ELSE WithPrefix(base, prefix)

RelayFormatInit ==
    /\ relaySent \in [kind : {"metrics"}, items : RelayedUnits] \union [kind : {"points"}, items : RelayedPoints]
    /\ relayHere = [i \in DOMAIN relaySent.items |-> [from |-> i, item |-> relaySent.items[i]]]
    /\ relayBefore = <<>> /\ relayHop = 0 /\ relayClosed = FALSE

ReadItem(x) == IF relaySent.kind = "metrics" THEN ReadUnit(x) ELSE ReadPoint(x)

\* What is received, once it was read.
Reread == [i \in DOMAIN relayHere |-> [from |-> relayHere[i].from, item |-> ReadItem(relayHere[i].item)]]

CrossRelay ==
    /\ ~relayClosed /\ relayHop < Hops
    /\ relayHop' = relayHop + 1
    /\ relayBefore' = relayHere
    /\ UNCHANGED relaySent

\* process_message: one unit that cannot be read ends the connection, and nothing of the
\* message is registered.
RelayMetrics ==
    LET read == Reread
        fails == \E i \in DOMAIN read : read[i].item = Invalid
    IN /\ relaySent.kind = "metrics"
       /\ CrossRelay
       /\ relayClosed' = fails
       /\ relayHere' = IF fails THEN <<>> ELSE read

\* visit_seq: a point that cannot be read is left out, the others are kept.
RelayPoints ==
    /\ relaySent.kind = "points"
    /\ CrossRelay
    /\ relayHere' = Only(Reread, {p \in Range(Reread) : p.item # Invalid})
    /\ UNCHANGED relayClosed

RelayFormatNext == RelayMetrics \/ RelayPoints

RelayFormatSpec == RelayFormatInit /\ [][RelayFormatNext]_relayFormatVars

\* What the outputs of an agent write of a unit or of a point.
ToldAs(x) ==
    IF relaySent.kind = "metrics" THEN <<UniqueName(x), DisplayName(x)>>
    ELSE <<x.resource.kind, IdText(x.resource), x.consumer.kind, IdText(x.consumer),
           IF x.attr \in {"Str", "String"} THEN "text" ELSE x.attr>>

(* The outputs of the agents after the relay tell the same units, resources,         *)
(* consumers and attributes as those of the first agent; what is lost on the way are *)
(* custom units, with the metrics of the same message, and custom resources or       *)
(* consumers that take the kind of another one; and nothing more changes after the   *)
(* first relay.                                                                      *)
RelayKeepsMeanings ==
    LET items == relaySent.items
        here == {p.from : p \in Range(relayHere)}
    IN /\ \A p \in Range(relayHere) : ToldAs(p.item) = ToldAs(items[p.from])
       /\ relayClosed => \E i \in DOMAIN items : items[i].base.type = "Custom"
       /\ relaySent.kind = "points" => \A i \in DOMAIN items \ here :
            \E x \in {items[i].resource, items[i].consumer} :
                x.type = "Custom" /\ x.kind \in Range(ResourceKinds) \union Range(ConsumerKinds)
       /\ relayHop > 1 => relayHere = relayBefore

===============================================================================
