----------------------------- MODULE MCSourceTask -----------------------------
(* Small instances of SourceTask for TLC. *)
EXTENDS SourceTask

\* [flush_rounds, update_rounds, interruptible, periodic, manual]
T(f, u, int, per, man) ==
    [flush_rounds |-> f, update_rounds |-> u, interruptible |-> int,
     periodic |-> per, manual |-> man]

\* A fast timer that is not interruptible, with rounds that do not divide the
\* counter, and an interruptible trigger that can be fired by hand and whose next
\* tick is too far away to be waited for.  Both of them can hear a Stop.
MCTriggers == { T(2, 3, FALSE, TRUE, FALSE), T(1, 1, TRUE, FALSE, TRUE) }
===============================================================================
