--------------------------- MODULE MCForwardRunner ---------------------------
(***************************************************************************)
(* Values for ForwardRunner.  A day is 4 units of the clock and a month 30 *)
(* days; time 16 is a Friday.  A and B hold for 2 and 4 units at most.     *)
(***************************************************************************)
EXTENDS ForwardRunner

HoldTimes == [s \in Strategies |-> IF s = "A" THEN 2 ELSE 4]

\* Thresholds that one losing close breaks, or two, or none.
Loss4   == -4
Loss9   == -9
Loss20  == -20
NoLimit == -1000
=============================================================================
