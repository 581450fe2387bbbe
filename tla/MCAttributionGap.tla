--------------------------- MODULE MCAttributionGap ---------------------------
(* One consumer with two metrics, the points of one being rarer.           *)
EXTENDS Attribution

GapSetups ==
    {[consumers |-> {"c"}, metrics |-> {"load", "memory"}, retention |-> 9, max |-> 4,
      points |-> 2, failing |-> {}]}
===============================================================================
