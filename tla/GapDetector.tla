----------------------------- MODULE GapDetector -----------------------------
(***************************************************************************)
(* GapDetector's verdict on the distance between two market events         *)
(* (events/gap_detector.rs).  The statistics of the intervals are an input: *)
(* once there are enough of them, any interval may stand out.              *)
(***************************************************************************)
EXTENDS Naturals

CONSTANTS MinorTicks,   \* minor_tick_threshold
          SevereTicks   \* severe_tick_threshold

ASSUME DetectorAssumption ==
  MinorTicks \in Nat \ {0} /\ SevereTicks \in Nat /\ MinorTicks <= SevereTicks

GapLevel == {"none", "minor", "severe"}

\* Numbers between two events; none when the second is not above the first
MissedTicks(last, seq) == IF seq > last + 1 THEN seq - last - 1 ELSE 0

\* Fault: the threshold itself is not severe.
GapLevelsLate(missed, warm) ==
  CASE missed > SevereTicks -> {"severe"}
    [] missed <= SevereTicks /\ missed >= MinorTicks -> {"minor"}
    [] missed < MinorTicks -> IF warm THEN {"none", "minor"} ELSE {"none"}

\* What detect_gap may answer when so many are missing and the time has advanced
GapLevels(missed, warm) ==
  CASE missed >= SevereTicks -> {"severe"}
    [] missed < SevereTicks /\ missed >= MinorTicks -> {"minor"}
    [] missed < MinorTicks -> IF warm THEN {"none", "minor"} ELSE {"none"}
=============================================================================
