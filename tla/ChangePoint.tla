----------------------------- MODULE ChangePoint -----------------------------
(***************************************************************************)
(* ChangePointDetector (strategy/change_point.rs): one adaptive window for  *)
(* each feature, the search for the best split, the grace period after a    *)
(* change, and the response of the Q-function.  Where the code compares a   *)
(* difference with the root of a Hoeffding bound, the squares are compared. *)
(***************************************************************************)
EXTENDS QFunction

CONSTANTS NFeatures,             \* n_features
          MinWindow, MaxWindow,  \* min_window_size, max_window_size
          GracePeriod,           \* grace_period
          LogCuts,               \* for a number of cuts c, ln(4 c / delta)
          MajorThreshold,        \* major_threshold
          MinorInflation, MajorInflation, MajorFullReset,
          RetrainThreshold       \* retraining_trigger_threshold

ASSUME DetectorAssumption ==
  /\ NFeatures \in Nat \ {0} /\ MinWindow \in Nat \ {0} /\ MaxWindow \in Nat
  /\ MinWindow <= MaxWindow /\ GracePeriod \in Nat /\ RetrainThreshold \in Nat
  /\ MajorFullReset \in BOOLEAN
  /\ One \preceq MinorInflation /\ One \preceq MajorInflation

Features == 1 .. NFeatures

NewAdwin == [window |-> <<>>, since |-> 0, inGrace |-> FALSE, grace |-> 0, consecutive |-> 0]

NewDetector == [adwin |-> [i \in Features |-> NewAdwin], history |-> <<>>, total |-> 0,
                retraining |-> FALSE, recent |-> 0, last |-> 0]

-----------------------------------------------------------------------------
(* SubWindow and FeatureAdwin *)

\* The window keeps the newest MaxWindow values.
Slide(window, value) ==
  LET w == Append(window, value)
  IN IF Len(w) > MaxWindow THEN Tail(w) ELSE w

\* Fault: the grace period is over one observation early.
PushEarly(a, value) ==
  LET over == a.inGrace /\ a.grace + 2 >= GracePeriod
  IN [a EXCEPT !.since = @ + 1, !.window = Slide(@, value),
               !.inGrace = @ /\ ~over,
               !.grace = IF ~a.inGrace THEN @ ELSE IF over THEN 0 ELSE @ + 1]

\* push: the grace period counts observations, the one that ends it included.
Push(a, value) ==
  LET over == a.inGrace /\ a.grace + 1 >= GracePeriod
  IN [a EXCEPT !.since = @ + 1, !.window = Slide(@, value),
               !.inGrace = @ /\ ~over,
               !.grace = IF ~a.inGrace THEN @ ELSE IF over THEN 0 ELSE @ + 1]

-----------------------------------------------------------------------------
(* find_best_split *)

Square(a) == a ** a

\* The values the running sum on the left has taken in when the split is tested: it starts
\* with the one before the first split, so the first MinWindow - 1 are in the window's sum but
\* never in the sum on the left.
LeftSum(w, split)  == SumFrac(SubSeq(w, MinWindow, split))
RightSum(w, split) == SumFrac(w) -- LeftSum(w, split)

MeanDiff(w, split) ==
  AbsFrac((LeftSum(w, split) // Whole(split)) -- (RightSum(w, split) // Whole(Len(w) - split)))

\* epsilon squared, corrected for the number of splits tested
Epsilon2(w, split) ==
  LET m == IF split < Len(w) - split THEN split ELSE Len(w) - split
  IN LogCuts[Len(w) - 2 * MinWindow + 1] // Whole(2 * m)

Ratio2(w, split) == Square(MeanDiff(w, split)) // Epsilon2(w, split)

Exceeds(w, split) == One \prec Ratio2(w, split)

\* The split kept: the first that exceeds the bound, until the ratio of a later one exceeds the
\* difference of means of the one kept
BestSplit(w) ==
  FoldLeft(LAMBDA best, split :
             IF ~Exceeds(w, split) THEN best
             ELSE IF best = 0 \/ Square(MeanDiff(w, best)) \prec Ratio2(w, split) THEN split
             ELSE best,
           0, [i \in 1 .. Len(w) - 2 * MinWindow + 1 |-> MinWindow + i - 1])

\* check_feature_adwin: nothing in the grace period, nor before there is enough to split
Detects(a) ==
  /\ ~a.inGrace
  /\ a.since >= MinWindow
  /\ Len(a.window) >= 2 * MinWindow
  /\ BestSplit(a.window) # 0

\* The severity, again from the square of the ratio
Severity(a) ==
  IF Square(MajorThreshold) \preceq Ratio2(a.window, BestSplit(a.window)) THEN "Major" ELSE "Minor"

-----------------------------------------------------------------------------
(* observe *)

\* What a detection does to the feature
Marked(a) == [a EXCEPT !.inGrace = TRUE, !.grace = 0, !.consecutive = @ + 1]

\* Every feature is pushed in turn up to the one that detects: the later ones miss the value.
UpTo(first, adwin, pushed) ==
  [i \in Features |-> CASE i < first -> pushed[i]
                      [] i = first -> Marked(pushed[i])
                      [] i > first -> adwin[i]]

PushedInTurn(adwin, pushed) ==
  LET first[i \in Nat] == IF i > NFeatures THEN 0 ELSE IF Detects(pushed[i]) THEN i ELSE first[i + 1]
      at(i) == IF i = 0 THEN [adwin |-> pushed, at |-> 0]
               ELSE [adwin |-> UpTo(i, adwin, pushed), at |-> i]
  IN at(first[1])

\* Without per_feature_monitoring every window takes the mean absolute value; the first looks.
PushedTogether(pushed) ==
  IF Detects(pushed[1])
    THEN [adwin |-> [pushed EXCEPT ![1] = Marked(@)], at |-> 1]
    ELSE [adwin |-> pushed, at |-> 0]

PushedAll(adwin, values) == [i \in Features |-> Push(adwin[i], values[i])]

Pushed(adwin, values, perFeature) ==
  IF perFeature
    THEN PushedInTurn(adwin, PushedAll(adwin, values))
    ELSE LET mean == MeanFrac([i \in Features |-> AbsFrac(values[i])])
         IN PushedTogether(PushedAll(adwin, [i \in Features |-> mean]))

\* A change is recorded, and with enough of them retraining is wanted.
Reported(d, change) ==
  [d EXCEPT !.recent = @ + 1, !.history = Append(@, change),
            !.retraining = @ \/ d.recent + 1 >= RetrainThreshold]

Noted(d, pushed, now) ==
  IF pushed.at = 0 THEN [detector |-> [d EXCEPT !.adwin = pushed.adwin], change |-> {}]
  ELSE LET change == [feature |-> pushed.at, severity |-> Severity(pushed.adwin[pushed.at]),
                      at |-> now]
       IN [detector |-> Reported([d EXCEPT !.adwin = pushed.adwin], change), change |-> {change}]

\* The detector after a vector of features, and the change it found: nothing is pushed until
\* MinWindow observations have been seen.
Observe(d, values, perFeature, now) ==
  LET seen == [d EXCEPT !.total = @ + 1, !.last = now]
  IN IF seen.total < MinWindow THEN [detector |-> seen, change |-> {}]
     ELSE Noted(seen, Pushed(d.adwin, values, perFeature), now)

\* apply_change_response
Responded(q, change) ==
  CASE change.severity = "Minor" -> InflatedQ(q, MinorInflation)
    [] change.severity = "Major" /\ MajorFullReset -> ResetAllFull(q)
    [] change.severity = "Major" /\ ~MajorFullReset -> InflatedQ(q, MajorInflation)

\* observe_and_respond
RespondedTo(q, changes) == IF changes = {} THEN q ELSE Responded(q, CHOOSE c \in changes : TRUE)

-----------------------------------------------------------------------------
(* The other operations *)

ClearRetraining(d) == [d EXCEPT !.retraining = FALSE, !.recent = 0]

\* Fault: the flag outlives the changes that raised it.
DecayedKeepingFlag(d) == IF d.recent = 0 THEN d ELSE [d EXCEPT !.recent = @ - 1]

\* decay_recent_changes
Decayed(d) ==
  IF d.recent = 0 THEN d
  ELSE [d EXCEPT !.recent = @ - 1, !.retraining = @ /\ d.recent # 1]

ResetFeature(d, i) ==
  [d EXCEPT !.adwin[i] = [@ EXCEPT !.inGrace = FALSE, !.grace = 0, !.consecutive = 0]]

\* reset_all: the history of changes stays
ResetDetector(d) ==
  [d EXCEPT !.adwin = [i \in Features |-> NewAdwin], !.total = 0, !.recent = 0,
            !.retraining = FALSE]
=============================================================================
