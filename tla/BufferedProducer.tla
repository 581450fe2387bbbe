--------------------------- MODULE BufferedProducer ---------------------------
(***************************************************************************)
(* What a measurement source promises to the rest of the pipeline,         *)
(* whatever its triggers, its pauses and its flush commands: measurements  *)
(* leave it in the order in which they were produced, each one once, a     *)
(* flush hands over everything produced so far, and a source that ends     *)
(* normally has handed over everything.  Only a failure loses              *)
(* measurements, and only those of the last, unflushed buffer.             *)
(***************************************************************************)
EXTENDS Naturals, Sequences

VARIABLES
    produced,   \* every measurement pushed by the source, in order
    accepted,   \* every measurement accepted by the pipeline's channel
    phase       \* "running", "done" or "failed"

vars == <<produced, accepted, phase>>

Produce(seq) == Append(seq, Len(seq) + 1)

Init ==
    /\ produced = <<>>
    /\ accepted = <<>>
    /\ phase = "running"

Poll ==
    /\ phase = "running"
    /\ produced' = Produce(produced)
    /\ UNCHANGED <<accepted, phase>>

Flush ==
    /\ phase = "running"
    /\ accepted' = produced
    /\ phase' \in {"running", "done"}
    /\ UNCHANGED produced

Finish ==
    /\ phase = "running"
    /\ accepted = produced
    /\ phase' = "done"
    /\ UNCHANGED <<produced, accepted>>

\* A fatal polling error may come after the source has pushed a measurement.
Fail ==
    /\ phase = "running"
    /\ phase' = "failed"
    /\ produced' \in {produced, Produce(produced)}
    /\ UNCHANGED accepted

Next == Poll \/ Flush \/ Finish \/ Fail

Spec == Init /\ [][Next]_vars
===============================================================================
