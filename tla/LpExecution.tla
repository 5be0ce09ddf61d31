----------------------------- MODULE LpExecution -----------------------------
(***************************************************************************)
(* The choice of a liquidity provider (LP) in ExecutionGateway (execution/ *)
(* gateway.rs): LpRiskMonitor (lp_monitor.rs) judges the active LP by its  *)
(* fills and rejections and switches to the next one, and                  *)
(* LpRecalibrationManager (lp_recalibration.rs) then watches the new LP in  *)
(* safe mode until enough executions have been reported.  LPs are their    *)
(* places in known_lps.  A simulated order is executed, recorded and       *)
(* judged in one call; reports of real orders come one by one, also late,  *)
(* and the judgement is asked for apart from them.                         *)
(***************************************************************************)
EXTENDS Naturals

CONSTANTS N,                \* number of LPs
          Scale,            \* a fill rate of one
          Weight,           \* 1 / ema_alpha
          InitialRate,      \* fill_rate_ema of an LP nothing is known of
          AdversarialRate,  \* adversarial_threshold
          RecoveryRate,     \* recovery_threshold
          MinObservations,  \* min_observations of the monitor
          MaxRejections,    \* max_consecutive_rejections
          MinRecalibration, \* min_recalibration_observations
          MaxDuration       \* max_recalibration_duration_ns

ASSUME LpAssumption ==
  /\ N \in Nat \ {0} /\ Weight \in Nat \ {0}
  /\ Scale \in Nat /\ InitialRate \in 0 .. Scale
  /\ AdversarialRate \in Nat /\ RecoveryRate \in Nat
  /\ MinObservations \in Nat /\ MaxRejections \in Nat
  /\ MinRecalibration \in Nat \ {0} /\ MaxDuration \in Nat

VARIABLES
  active,   \* active_lp_index
  lp,       \* lp_states
  recal,    \* LpRecalibrationManager
  reports   \* history: reported executions of the active LP since the last switch

lpVars == <<active, lp, recal, reports>>

LPs   == 0 .. N - 1
Rates == 0 .. Scale
NoLp  == N

\* Counters are only ever compared with a bound: they stop there.
Counted(n, bound) == IF n < bound THEN n + 1 ELSE n

State == [requests : 0 .. MinObservations, rejections : 0 .. MaxRejections,
          fillRate : Rates, adversarial : BOOLEAN]

Unknown == [requests |-> 0, rejections |-> 0, fillRate |-> InitialRate, adversarial |-> FALSE]

\* Slippage and fill rate enter only the two errors of compute_*_error, which are
\* infinite without a fill; time is what has passed since the first observation.
\* "Completed" lasts no longer than check_recalibration.
Recalibration == [status : {"Idle", "SafeMode"}, target : LPs \cup {NoLp},
                  observations : 0 .. MinRecalibration, filled : BOOLEAN,
                  elapsed : 0 .. MaxDuration]

Idle == [status |-> "Idle", target |-> NoLp, observations |-> 0, filled |-> FALSE, elapsed |-> 0]

LpInit ==
  /\ active = 0
  /\ lp = [p \in LPs |-> Unknown]
  /\ recal = Idle
  /\ reports = 0

-----------------------------------------------------------------------------
(* LpRiskMonitor *)

\* The exponential average in steps of 1 / Scale, rounded up
Risen(rate)  == rate + (Scale - rate + Weight - 1) \div Weight
Fallen(rate) == rate - rate \div Weight

\* Fault: a fill acquits the LP at once.
FilledAcquitted(s) ==
  [requests |-> Counted(s.requests, MinObservations), rejections |-> 0,
   fillRate |-> Risen(s.fillRate), adversarial |-> FALSE]

\* record_fill and record_rejection
Filled(s) ==
  [requests |-> Counted(s.requests, MinObservations), rejections |-> 0,
   fillRate |-> Risen(s.fillRate), adversarial |-> s.adversarial]

Rejected(s) ==
  [requests |-> Counted(s.requests, MinObservations),
   rejections |-> Counted(s.rejections, MaxRejections),
   fillRate |-> Fallen(s.fillRate), adversarial |-> s.adversarial]

Recorded(p, filled) == [lp EXCEPT ![p] = IF filled THEN Filled(@) ELSE Rejected(@)]

\* The state of the active LP once it has been judged (check_adversarial)
Judged(s) ==
  IF s.requests < MinObservations THEN s
  ELSE IF ~s.adversarial
       THEN [s EXCEPT !.adversarial = \/ s.fillRate < AdversarialRate
                                      \/ s.rejections >= MaxRejections]
       ELSE [s EXCEPT !.adversarial = s.fillRate < RecoveryRate]

\* The LPs switch_lp tries, in the order in which it does
Nth(i) == (active + i) % N

\* Fault: an LP nothing is known of is not trusted.
CandidatesKnown(book) ==
  {i \in 1 .. N - 1 : book[Nth(i)].requests > 0 /\ ~book[Nth(i)].adversarial}

Candidates(book) == {i \in 1 .. N - 1 : ~book[Nth(i)].adversarial}

Nearest(S) == CHOOSE i \in S : \A j \in S : i <= j

-----------------------------------------------------------------------------
(* LpRecalibrationManager *)

\* Fault: what was observed of another LP is kept.
EnterSafeModeUncleared(p) == [recal EXCEPT !.status = "SafeMode", !.target = p]

\* Fault: a recalibration in progress goes on.
EnterSafeModeOnce(p) ==
  IF recal.status = "SafeMode" THEN recal
  ELSE [status |-> "SafeMode", target |-> p, observations |-> 0, filled |-> FALSE, elapsed |-> 0]

EnterSafeMode(p) ==
  [status |-> "SafeMode", target |-> p, observations |-> 0, filled |-> FALSE, elapsed |-> 0]

\* record_fill and record_rejection: only of the target, only in safe mode
Observed(p, filled) ==
  IF recal.status = "SafeMode" /\ recal.target = p
  THEN [recal EXCEPT !.observations = Counted(@, MinRecalibration),
                     !.filled = IF filled THEN TRUE ELSE @]
  ELSE recal

\* check_completion: fits says that both errors are below their thresholds
Completes(fits) ==
  /\ recal.status = "SafeMode"
  /\ recal.observations >= MinRecalibration
  /\ recal.elapsed >= MaxDuration \/ (fits /\ recal.filled)

-----------------------------------------------------------------------------
(* ExecutionGateway *)

\* check_lp_switch, when the monitor has come to hold book: the active LP is judged, and
\* one that has just become adversarial is left for the next that is not, if there is one.
SwitchFrom(book) ==
  LET judged  == [book EXCEPT ![active] = Judged(@)]
      convict == judged[active].adversarial /\ ~book[active].adversarial
      others  == Candidates(judged)
  IN  /\ lp' = judged
      /\ IF convict /\ others # {}
         THEN /\ active' = Nth(Nearest(others))
              /\ recal' = EnterSafeMode(Nth(Nearest(others)))
              /\ reports' = 0
         ELSE UNCHANGED <<active, recal, reports>>

\* simulate_execution of an order of at least one lot: the active LP fills or rejects
\* it, process_fill or process_rejection records that, and the LP is judged.
SimulateExecution(filled) == SwitchFrom(Recorded(active, filled))

\* A report can only come from an LP that orders were sent to.
Reports(p) == p = active \/ lp[p].requests > 0

\* process_fill and process_rejection
Process(p, filled) ==
  /\ Reports(p)
  /\ lp' = Recorded(p, filled)
  /\ UNCHANGED <<active, recal, reports>>

\* process_fill_with_prediction and process_rejection_with_timestamp
ProcessWithTimestamp(p, filled) ==
  /\ Reports(p)
  /\ lp' = Recorded(p, filled)
  /\ recal' = Observed(p, filled)
  /\ reports' = IF p = active THEN Counted(reports, MinRecalibration) ELSE reports
  /\ UNCHANGED active

CheckLpSwitch == SwitchFrom(lp)

\* check_recalibration: a completed recalibration is reset.
CheckRecalibration(fits) ==
  /\ Completes(fits)
  /\ recal' = Idle
  /\ UNCHANGED <<active, lp, reports>>

\* The timestamps of the caller move on; the duration counts from the first observation.
Pass ==
  /\ recal.observations > 0 /\ recal.elapsed < MaxDuration
  /\ recal' = [recal EXCEPT !.elapsed = @ + 1]
  /\ UNCHANGED <<active, lp, reports>>

LpNext ==
  \/ \E filled \in BOOLEAN : SimulateExecution(filled)
  \/ \E p \in LPs, filled \in BOOLEAN : Process(p, filled) \/ ProcessWithTimestamp(p, filled)
  \/ CheckLpSwitch
  \/ \E fits \in BOOLEAN : CheckRecalibration(fits)
  \/ Pass

LpSpec == LpInit /\ [][LpNext]_lpVars

-----------------------------------------------------------------------------
(* Properties *)

\* All counters stay within what they are compared with, and rates between none and all.
LpTypeOK ==
  /\ active \in LPs
  /\ lp \in [LPs -> State]
  /\ recal \in Recalibration
  /\ reports \in 0 .. MinRecalibration

\* Whatever is switched during a recalibration, safe mode is about the LP that orders
\* go to: the monitor's index and the manager's target never part (gateway.rs:351-370).
SafeModeIsOfActive == recal.status = "SafeMode" => recal.target = active

\* Orders go to an LP known to be adversarial only when every other is adversarial too
\* (switch_lp, lp_monitor.rs:149-175, has then nobody left to switch to).
AdversarialOnlyAsLastResort ==
  lp[active].adversarial => \A p \in LPs : lp[p].adversarial

\* Only the active LP is judged (lp_monitor.rs:105, 111): one that was left as
\* adversarial stays so whatever its reports say, and never becomes active again.
LeftForGood ==
  [][\A p \in LPs : (lp[p].adversarial /\ p # active) => (lp'[p].adversarial /\ p # active')]_lpVars

\* Safe mode ends by a switch, which begins it again, or after enough reports of the LP
\* in use, made since it came into use: neither what was seen of its predecessor nor the
\* predecessor's late reports count (lp_recalibration.rs:136-144, 169-171, 188-190).
CompletionEarned ==
  [][recal.status = "SafeMode" /\ recal'.status # "SafeMode" => reports >= MinRecalibration]_lpVars
=============================================================================
