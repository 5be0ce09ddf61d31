---------------------------- MODULE MCKillSwitch ----------------------------
(* KillSwitch on small instances. *)
EXTENDS KillSwitch

\* Every call that sets or lifts the mask comes from one thread, as those of the
\* engine and of the forward runner do; another reads and resets the statistics.
OneRunner == [t \in {"runner", "monitor"} |->
  IF t = "runner" THEN {"record_tick", "validate_order", "trigger", "reset"}
                  ELSE {"stats", "reset_stats"}]

\* kill_switch_signal_handler, or an operator, triggers the switch from its task.
WithOperator == [t \in {"runner", "operator"} |->
  IF t = "runner" THEN {"record_tick", "validate_order"} ELSE {"trigger"}]
=============================================================================
