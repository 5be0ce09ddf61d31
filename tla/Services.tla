------------------------------ MODULE Services ------------------------------
(***************************************************************************)
(* The parts around the two engines that share no state with each other:   *)
(* the FIX session, the feeds of a forward test, its tracker and its alerts, *)
(* the decision records and the metrics of a run, the regime and its         *)
(* features, the models of the market, the event tiers and the commands.   *)
(* A behaviour is one of one part; the others stay as they begin.            *)
(***************************************************************************)
EXTENDS FixSession, ForwardFeed, Telemetry, Regime, ExecutionModels, CommandLine

VARIABLE part

partVars == <<part, fixVars, feedVars, trackingVars, alertingVars, telemetryVars, regimeVars,
              executionVars, tierVars, commandVars>>

Parts == {"fix", "feed", "tracking", "alerting", "telemetry", "regime", "execution", "tiers",
          "command"}

Of(p) == part = p

\* Where a part may begin in several ways, the part of the behaviour does.
Among(S, p) == IF Of(p) THEN S ELSE {CHOOSE x \in S : TRUE}

Init ==
  /\ part \in Parts
  /\ FixInit /\ TrackingInit /\ AlertingInit /\ TelemetryInit
  /\ FeedInit(Among(Files, "feed"), Among(Periods, "feed"))
  /\ RegimeInit(Among(Hosts, "regime"), Among(Found, "regime"))
  /\ ExecutionInit /\ TierInit /\ CommandInit

Next ==
  /\ UNCHANGED part
  /\ IF Of("fix")       THEN FixNext       ELSE UNCHANGED fixVars
  /\ IF Of("feed")      THEN FeedNext      ELSE UNCHANGED feedVars
  /\ IF Of("tracking")  THEN TrackingNext  ELSE UNCHANGED trackingVars
  /\ IF Of("alerting")  THEN AlertingNext  ELSE UNCHANGED alertingVars
  /\ IF Of("telemetry") THEN TelemetryNext ELSE UNCHANGED telemetryVars
  /\ IF Of("regime")    THEN RegimeNext    ELSE UNCHANGED regimeVars
  /\ IF Of("execution") THEN ExecutionNext ELSE UNCHANGED executionVars
  /\ IF Of("tiers")     THEN TierNext      ELSE UNCHANGED tierVars
  /\ IF Of("command")   THEN CommandNext   ELSE UNCHANGED commandVars

\* The steps of a FIX call are not put off for ever (see FixSession).
Spec == Init /\ [][Next]_partVars
          /\ \A t \in Tasks : WF_fixVars(Of("fix") /\ Advances(t))
=============================================================================
