--------------------------- MODULE MCBacktestEngine ---------------------------
(***************************************************************************)
(* Values for BacktestEngine that a configuration cannot write down: the   *)
(* thresholds are losses, hence negative.  A day is 4 units of the clock,  *)
(* the weekend gap (12 hours) 2 of them; a month is 30 days.  Time 16 is a *)
(* Friday, and 12 later is the Monday after it.  Projector is evaluated      *)
(* before each run.                                                        *)
(***************************************************************************)
EXTENDS BacktestEngine, Projector

\* Thresholds one losing close of 8 units breaks, or two, or none.
Loss4   == -4
Loss9   == -9
Loss20  == -20
NoLimit == -1000
=============================================================================
