--------------------------------- MODULE Filtering ---------------------------------
(***************************************************************************)
(* A sequence without some of its elements, for the modules that filter    *)
(* points.  The standard SelectSeq takes an operator, of which the provers *)
(* cannot use the definition; here the elements to keep are those of a     *)
(* set, and the sequence is a recursive function of the place reached.     *)
(***************************************************************************)
EXTENDS Naturals, Sequences

\* The elements of s that are in S, in their order.
Only(s, S) ==
    LET only[i \in 0..Len(s)] ==
            IF i = 0 THEN <<>>
            ELSE IF s[i] \in S THEN Append(only[i - 1], s[i]) ELSE only[i - 1]
    IN only[Len(s)]
================================================================================
