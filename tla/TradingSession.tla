---------------------------- MODULE TradingSession ----------------------------
(***************************************************************************)
(* What a trading session promises, whatever its prices, orders and gates: *)
(* a strategy enters from flat and leaves whole, it learns from exactly the *)
(* position it holds, and once a hard limit has stopped the session nobody  *)
(* enters until the period of that limit is over.                          *)
(***************************************************************************)
EXTENDS PeriodicLimits

VARIABLES now,       \* the time of the last tick
          halt,      \* the hard limit that stopped the session, or NoHalt
          holding,   \* strategies with a position
          learning   \* strategies with an episode

vars == <<now, halt, holding, learning>>

Init ==
  /\ now = 0 /\ halt = NoHalt
  /\ holding = {} /\ learning = {}

\* Time passes, and a halt whose period is over is lifted.
Tick ==
  /\ now' \in Nat /\ now' > now
  /\ halt' = IF HaltActive(halt, now') THEN halt ELSE NoHalt
  /\ UNCHANGED <<holding, learning>>

Enter(s) ==
  /\ halt = NoHalt
  /\ s \in Strategies \ holding
  /\ holding' = holding \cup {s}
  /\ learning' = learning \cup {s}
  /\ UNCHANGED <<now, halt>>

Leave(S) ==
  /\ holding' = holding \ S
  /\ learning' = learning \ S
  /\ UNCHANGED <<now, halt>>

\* A hard limit closes what it can, and stops the session for its period.
Stop(S) ==
  /\ halt = NoHalt
  /\ \E p \in Periods : halt' = [period |-> p, key |-> PeriodKey(p, now)]
  /\ holding' = holding \ S
  /\ learning' = learning \ S
  /\ UNCHANGED now

Next ==
  \/ Tick
  \/ \E s \in Strategies : Enter(s)
  \/ \E S \in SUBSET Strategies : Leave(S) \/ Stop(S)

Spec == Init /\ [][Next]_vars
=============================================================================
