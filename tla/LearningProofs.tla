--------------------------- MODULE LearningProofs ---------------------------
(***************************************************************************)
(* How the policies learn, for any features, windows, thresholds, sizes and *)
(* dimensions, and any number of episodes.                                 *)
(***************************************************************************)
EXTENDS Learning, FractionProofs, TLAPS, FiniteSetTheorems, SequenceTheorems

-----------------------------------------------------------------------------
(* The detector: the retraining flag *)

IsDetector(d) ==
  d \in [adwin : {d.adwin}, history : {d.history}, total : {d.total},
         retraining : {d.retraining}, recent : {d.recent}, last : {d.last}]

\* What a detection, or none, does to the detector
LEMMA NotedMeans ==
  ASSUME NEW d, IsDetector(d), NEW p, NEW at,
         NEW n, n = Noted(d, p, at)
  PROVE  /\ IsDetector(n.detector) /\ n.detector.adwin = p.adwin
         /\ \/ /\ p.at = 0 /\ n.change = {}
               /\ n.detector.recent = d.recent /\ n.detector.retraining = d.retraining
            \/ /\ p.at # 0 /\ \E c : n.change = {c} /\ c.feature = p.at
               /\ n.detector.recent = d.recent + 1
               /\ n.detector.retraining = (d.retraining \/ d.recent + 1 >= RetrainThreshold)
<1>1. CASE p.at = 0
  BY <1>1 DEF Noted, IsDetector
<1>2. CASE p.at # 0
  <2> DEFINE change == [feature |-> p.at, severity |-> Severity(p.adwin[p.at]), at |-> at]
             e == [d EXCEPT !.adwin = p.adwin]
  <2>1. n = [detector |-> Reported(e, change), change |-> {change}]
    BY <1>2 DEF Noted
  <2>2. change.feature = p.at
    OBVIOUS
  <2>3. IsDetector(e) /\ e.adwin = p.adwin /\ e.recent = d.recent /\ e.retraining = d.retraining
    BY DEF IsDetector
  <2> HIDE DEF change, e
  <2>4. /\ IsDetector(Reported(e, change)) /\ Reported(e, change).adwin = e.adwin
        /\ Reported(e, change).recent = e.recent + 1
        /\ Reported(e, change).retraining = (e.retraining \/ e.recent + 1 >= RetrainThreshold)
    BY <2>3 DEF Reported, IsDetector
  <2> QED BY <1>2, <2>1, <2>2, <2>3, <2>4
<1> QED BY <1>1, <1>2

\* What an observation does to it
LEMMA ObserveMeans ==
  ASSUME NEW d, IsDetector(d), NEW values, NEW each, NEW at,
         NEW s, s = Observe(d, values, each, at)
  PROVE  /\ IsDetector(s.detector)
         /\ \/ /\ s.change = {} /\ s.detector.adwin = d.adwin
               /\ s.detector.recent = d.recent /\ s.detector.retraining = d.retraining
            \/ LET p == Pushed(d.adwin, values, each)
               IN /\ s.detector.adwin = p.adwin
                  /\ \/ /\ p.at = 0 /\ s.change = {}
                        /\ s.detector.recent = d.recent
                        /\ s.detector.retraining = d.retraining
                     \/ /\ p.at # 0 /\ \E c : s.change = {c} /\ c.feature = p.at
                        /\ s.detector.recent = d.recent + 1
                        /\ s.detector.retraining =
                             (d.retraining \/ d.recent + 1 >= RetrainThreshold)
<1> DEFINE seen == [d EXCEPT !.total = @ + 1, !.last = at]
           p == Pushed(d.adwin, values, each)
<1>1. /\ IsDetector(seen) /\ seen.adwin = d.adwin /\ seen.recent = d.recent
      /\ seen.retraining = d.retraining
  BY DEF IsDetector
<1>2. s = IF seen.total < MinWindow THEN [detector |-> seen, change |-> {}] ELSE Noted(seen, p, at)
  BY DEF Observe
<1> HIDE DEF seen, p
<1>3. CASE seen.total < MinWindow
  BY <1>1, <1>2, <1>3
<1>4. CASE ~(seen.total < MinWindow)
  <2>1. s = Noted(seen, p, at)
    BY <1>2, <1>4
  <2> QED BY <1>1, <2>1, NotedMeans DEF p
<1> QED BY <1>3, <1>4

\* The changes that have not decayed are some of those since the flag was cleared, and the flag
\* needs both.
RetrainInv ==
  /\ IsDetector(detector)
  /\ detector.recent \in Nat /\ changes \in Nat /\ detector.recent <= changes
  /\ detector.retraining \in BOOLEAN
  /\ detector.retraining => detector.recent > 0 /\ changes >= RetrainThreshold

LEMMA RetrainInit == Init => RetrainInv
BY DetectorAssumption DEF Init, NewDetector, RetrainInv, IsDetector

LEMMA RetrainObserve ==
  ASSUME RetrainInv, ObserveStep
  PROVE  RetrainInv'
<1>1. \E values \in [Features -> FeatureValues] :
        \E s \in {Observe(detector, values, perFeature, now)} :
          detector' = s.detector /\ changes' = changes + Cardinality(s.change)
  BY DEF ObserveStep
<1>2. PICK values, s : /\ s = Observe(detector, values, perFeature, now)
                       /\ detector' = s.detector /\ changes' = changes + Cardinality(s.change)
  BY <1>1
<1>3. \/ /\ s.change = {} /\ s.detector.recent = detector.recent
         /\ s.detector.retraining = detector.retraining
      \/ /\ \E c : s.change = {c}
         /\ s.detector.recent = detector.recent + 1
         /\ s.detector.retraining =
              (detector.retraining \/ detector.recent + 1 >= RetrainThreshold)
  <2>1. PICK d, at : d = detector /\ at = now
    OBVIOUS
  <2>2. IsDetector(d) /\ s = Observe(d, values, perFeature, at)
    BY <1>2, <2>1 DEF RetrainInv
  <2> DEFINE p == Pushed(d.adwin, values, perFeature)
  <2>3. \/ /\ s.change = {} /\ s.detector.adwin = d.adwin
           /\ s.detector.recent = d.recent /\ s.detector.retraining = d.retraining
        \/ /\ s.detector.adwin = p.adwin
           /\ \/ /\ p.at = 0 /\ s.change = {}
                 /\ s.detector.recent = d.recent
                 /\ s.detector.retraining = d.retraining
              \/ /\ p.at # 0 /\ \E c : s.change = {c} /\ c.feature = p.at
                 /\ s.detector.recent = d.recent + 1
                 /\ s.detector.retraining =
                      (d.retraining \/ d.recent + 1 >= RetrainThreshold)
    BY <2>2, ObserveMeans
  <2> HIDE DEF p
  <2> QED BY <2>1, <2>3
<1>4. IsDetector(s.detector)
  BY <1>2, ObserveMeans DEF RetrainInv
<1>5. CASE /\ s.change = {} /\ s.detector.recent = detector.recent
           /\ s.detector.retraining = detector.retraining
  <2>1. Cardinality(s.change) = 0
    BY <1>5, FS_EmptySet
  <2> QED BY <1>2, <1>4, <1>5, <2>1 DEF RetrainInv
<1>6. CASE /\ \E c : s.change = {c}
           /\ s.detector.recent = detector.recent + 1
           /\ s.detector.retraining =
                (detector.retraining \/ detector.recent + 1 >= RetrainThreshold)
  <2>1. Cardinality(s.change) = 1
    BY <1>6, FS_Singleton
  <2>2. detector'.recent = detector.recent + 1 /\ changes' = changes + 1 /\ IsDetector(detector')
    BY <1>2, <1>4, <1>6, <2>1
  <2>3. (detector.retraining \/ detector.recent + 1 >= RetrainThreshold) \in BOOLEAN
    OBVIOUS
  <2>4. /\ detector'.retraining \in BOOLEAN
        /\ detector'.retraining <=> (detector.retraining \/ detector.recent + 1 >= RetrainThreshold)
    BY <1>2, <1>6, <2>3
  <2> QED BY <2>2, <2>4, DetectorAssumption DEF RetrainInv
<1> QED BY <1>3, <1>5, <1>6

LEMMA RetrainStep == RetrainInv /\ [Next]_vars => RetrainInv'
<1> SUFFICES ASSUME RetrainInv, [Next]_vars PROVE RetrainInv'
  OBVIOUS
<1>1. CASE UNCHANGED <<detector, changes>>
  BY <1>1 DEF RetrainInv
<1>2. CASE ObserveStep
  BY <1>2, RetrainObserve
<1>3. CASE ClearStep
  <2>1. /\ IsDetector(detector') /\ detector'.recent = 0 /\ detector'.retraining = FALSE
        /\ changes' = 0
    BY <1>3 DEF ClearStep, ClearRetraining, RetrainInv, IsDetector
  <2>2. detector'.retraining \in BOOLEAN /\ ~detector'.retraining
    BY <2>1
  <2> QED BY <2>1, <2>2 DEF RetrainInv
<1>4. CASE DecayStep
  <2>1. detector' = Decayed(detector) /\ changes' = changes
    BY <1>4 DEF DecayStep
  <2>2. CASE detector.recent = 0
    BY <2>1, <2>2 DEF Decayed, RetrainInv
  <2>3. CASE detector.recent # 0
    <3>1. (detector.retraining /\ detector.recent # 1) \in BOOLEAN
      OBVIOUS
    <3>2. /\ IsDetector(detector') /\ detector'.recent = detector.recent - 1
          /\ detector'.retraining = (detector.retraining /\ detector.recent # 1)
      BY <2>1, <2>3 DEF Decayed, RetrainInv, IsDetector
    <3>3. /\ detector'.retraining \in BOOLEAN
          /\ detector'.retraining <=> (detector.retraining /\ detector.recent # 1)
      BY <3>1, <3>2
    <3> QED BY <2>1, <2>3, <3>2, <3>3 DEF RetrainInv
  <2> QED BY <2>2, <2>3
<1>5. CASE ResetFeatureStep
  <2>1. PICK i \in Features : detector' = ResetFeature(detector, i)
    BY <1>5 DEF ResetFeatureStep
  <2>2. changes' = changes
    BY <1>5 DEF ResetFeatureStep
  <2>3. /\ IsDetector(detector') /\ detector'.recent = detector.recent
        /\ detector'.retraining = detector.retraining
    BY <2>1 DEF ResetFeature, RetrainInv, IsDetector
  <2> QED BY <2>2, <2>3 DEF RetrainInv
<1>6. CASE ResetDetectorStep
  <2>1. /\ IsDetector(detector') /\ detector'.recent = 0 /\ detector'.retraining = FALSE
        /\ changes' = 0
    BY <1>6 DEF ResetDetectorStep, ResetDetector, RetrainInv, IsDetector
  <2>2. detector'.retraining \in BOOLEAN /\ ~detector'.retraining
    BY <2>1
  <2> QED BY <2>1, <2>2 DEF RetrainInv
<1> QED
  BY <1>1, <1>2, <1>3, <1>4, <1>5, <1>6
     DEF Next, vars, detectorVars, StartEpisodeStep, RecordStep, EndEpisodeStep, DecideStep,
         ResetTrackerStep, TickStep, UpdateStep, ExportStep, TamperStep, ImportStep

\* The retraining flag is up only after as many changes as it takes since it was last cleared, and
\* while they have not all decayed, for any features, windows and threshold (change_point.rs
\* observe, decay_recent_changes).
THEOREM RetrainingIsJustified == Spec => []RetrainingJustified
<1>1. RetrainInv => RetrainingJustified
  BY DEF RetrainInv, RetrainingJustified
<1> QED BY <1>1, RetrainInit, RetrainStep, PTL DEF Spec

-----------------------------------------------------------------------------
(* The detector: the grace period *)

IsAdwin(a) ==
  a \in [window : {a.window}, since : Nat, inGrace : BOOLEAN, grace : Nat, consecutive : Nat]

LEMMA PushMeans ==
  ASSUME NEW a, IsAdwin(a), NEW v, NEW b, b = Push(a, v)
  PROVE  /\ IsAdwin(b) /\ b.since = a.since + 1 /\ b.consecutive = a.consecutive
         /\ b.inGrace <=> (a.inGrace /\ a.grace + 1 < GracePeriod)
         /\ b.inGrace => b.grace = a.grace + 1
<1> DEFINE over == a.inGrace /\ a.grace + 1 >= GracePeriod
           c == [a EXCEPT !.since = @ + 1, !.window = Slide(@, v), !.inGrace = @ /\ ~over,
                          !.grace = IF ~a.inGrace THEN @ ELSE IF over THEN 0 ELSE @ + 1]
<1>1. b = c
  BY DEF Push
<1>2. a.since \in Nat /\ a.inGrace \in BOOLEAN /\ a.grace \in Nat /\ a.consecutive \in Nat
  BY DEF IsAdwin
<1>3. over \in BOOLEAN /\ (over <=> a.inGrace /\ ~(a.grace + 1 < GracePeriod))
  BY <1>2, DetectorAssumption
<1> HIDE DEF over
<1>4. (a.inGrace /\ ~over) \in BOOLEAN
  OBVIOUS
<1>5. /\ c.since = a.since + 1 /\ c.window = Slide(a.window, v)
      /\ c.inGrace = (a.inGrace /\ ~over)
      /\ c.grace = IF ~a.inGrace THEN a.grace ELSE IF over THEN 0 ELSE a.grace + 1
      /\ c.consecutive = a.consecutive
  BY DEF IsAdwin
<1>6. c \in [window : {c.window}, since : {c.since}, inGrace : {c.inGrace}, grace : {c.grace},
             consecutive : {c.consecutive}]
  BY DEF IsAdwin
<1> HIDE DEF c
<1>7. c.since \in Nat /\ c.inGrace \in BOOLEAN /\ c.grace \in Nat /\ c.consecutive \in Nat
  BY <1>2, <1>4, <1>5
<1>8. IsAdwin(c)
  BY <1>6, <1>7 DEF IsAdwin
<1>9. c.inGrace <=> (a.inGrace /\ a.grace + 1 < GracePeriod)
  BY <1>2, <1>3, <1>4, <1>5
<1>10. c.inGrace => c.grace = a.grace + 1
  BY <1>2, <1>3, <1>4, <1>5
<1> QED BY <1>1, <1>5, <1>8, <1>9, <1>10

LEMMA MarkedMeans ==
  ASSUME NEW a, IsAdwin(a), NEW b, b = Marked(a)
  PROVE  /\ IsAdwin(b) /\ b.since = a.since /\ b.consecutive = a.consecutive + 1
         /\ b.inGrace /\ b.grace = 0
<1>1. /\ b \in [window : {b.window}, since : {b.since}, inGrace : {b.inGrace}, grace : {b.grace},
                consecutive : {b.consecutive}]
      /\ b.since = a.since /\ b.inGrace = TRUE /\ b.grace = 0
      /\ b.consecutive = a.consecutive + 1
  BY DEF Marked, IsAdwin
<1>2. a.since \in Nat /\ a.consecutive \in Nat
  BY DEF IsAdwin
<1>3. b.since \in Nat /\ b.grace \in Nat /\ b.consecutive \in Nat
  BY <1>1, <1>2
<1>4. b.inGrace \in BOOLEAN /\ b.inGrace
  BY <1>1
<1> QED BY <1>1, <1>3, <1>4 DEF IsAdwin

\* What the recursion of PushedInTurn defines
IsFirst(f, pushed) ==
  f = [i \in Nat |-> IF i > NFeatures THEN 0 ELSE IF Detects(pushed[i]) THEN i ELSE f[i + 1]]

LEMMA FirstExists ==
  ASSUME NEW pushed
  PROVE  \E f : IsFirst(f, pushed)
<1> DEFINE From(i) == {j \in 0 .. NFeatures : j >= i /\ Detects(pushed[j])}
           Least(S) == CHOOSE j \in S : \A k \in S : j <= k
           f == [i \in Nat |-> IF From(i) = {} THEN 0 ELSE Least(From(i))]
<1>1. NFeatures \in Nat
  BY DetectorAssumption
<1>2. ASSUME NEW i \in Nat
      PROVE  f[i] = IF i > NFeatures THEN 0 ELSE IF Detects(pushed[i]) THEN i ELSE f[i + 1]
  <2>1. CASE i > NFeatures
    <3>1. From(i) = {}
      BY <1>1, <2>1
    <3> QED BY <2>1, <3>1
  <2>2. CASE ~(i > NFeatures) /\ Detects(pushed[i])
    <3>1. i \in From(i) /\ \A j \in From(i) : i <= j
      BY <1>1, <2>2
    <3>2. From(i) \subseteq Nat
      OBVIOUS
    <3>3. Least(From(i)) = i
      <4> HIDE DEF From
      <4>1. \E j \in From(i) : \A k \in From(i) : j <= k
        BY <3>1
      <4>2. Least(From(i)) \in From(i) /\ \A k \in From(i) : Least(From(i)) <= k
        BY <4>1
      <4> QED BY <3>1, <3>2, <4>2
    <3>4. f[i] = Least(From(i))
      BY <3>1
    <3> QED BY <2>2, <3>3, <3>4
  <2>3. CASE ~(i > NFeatures) /\ ~Detects(pushed[i])
    <3>1. From(i) = From(i + 1)
      <4>1. ASSUME NEW j \in 0 .. NFeatures, Detects(pushed[j])
            PROVE  j >= i <=> j >= i + 1
        <5>1. j # i
          BY <2>3, <4>1
        <5> QED BY <5>1
      <4> QED BY <4>1
    <3>2. i + 1 \in Nat
      OBVIOUS
    <3>3. f[i] = f[i + 1]
      <4> HIDE DEF From, Least
      <4> QED BY <3>1, <3>2
    <3> QED BY <2>3, <3>3
  <2> QED BY <2>1, <2>2, <2>3
<1>3. f = [i \in Nat |-> f[i]]
  OBVIOUS
<1>4. IsFirst(f, pushed)
  <2> HIDE DEF f
  <2> QED BY <1>2, <1>3 DEF IsFirst
<1> QED BY <1>4

\* It finds a feature that detects, or none.
LEMMA FirstDetects ==
  ASSUME NEW pushed, NEW f, IsFirst(f, pushed)
  PROVE  f[1] = 0 \/ (f[1] \in Features /\ Detects(pushed[f[1]]))
<1> DEFINE Good == {0} \cup {j \in Features : Detects(pushed[j])}
           S == {n \in Int : f[NFeatures + 1 - n] \in Good}
<1>1. NFeatures \in Nat
  BY DetectorAssumption
<1>2. \A i \in Nat : f[i] = IF i > NFeatures THEN 0
                            ELSE IF Detects(pushed[i]) THEN i ELSE f[i + 1]
  BY DEF IsFirst
<1>3. 0 \in S
  <2>1. NFeatures + 1 - 0 \in Nat /\ NFeatures + 1 - 0 > NFeatures
    BY <1>1
  <2> QED BY <1>2, <2>1
<1>4. ASSUME NEW n \in 0 .. NFeatures - 1, n \in S
      PROVE  n + 1 \in S
  <2> DEFINE i == NFeatures + 1 - (n + 1)
  <2>1. i \in Nat /\ i \in Features /\ ~(i > NFeatures) /\ i + 1 = NFeatures + 1 - n
    BY <1>1 DEF Features
  <2>2. f[i] = IF Detects(pushed[i]) THEN i ELSE f[NFeatures + 1 - n]
    BY <1>2, <2>1
  <2>3. f[NFeatures + 1 - n] \in Good
    BY <1>4
  <2>4. f[i] \in Good
    BY <2>1, <2>2, <2>3
  <2>5. n + 1 \in Int
    OBVIOUS
  <2> QED BY <2>4, <2>5
<1>5. 0 .. NFeatures \subseteq S
  <2> HIDE DEF S
  <2> QED BY <1>1, <1>3, <1>4, IntervalInduction
<1>6. NFeatures \in S /\ NFeatures + 1 - NFeatures = 1
  BY <1>1, <1>5
<1> QED BY <1>6

\* What was pushed, for one feature
IsPushed(x, a) == \E v : x = Push(a, v)

LEMMA PushedMeans ==
  ASSUME NEW adwin, NEW values, NEW each,
         NEW p, p = Pushed(adwin, values, each)
  PROVE  /\ p.adwin = [i \in Features |-> p.adwin[i]]
         /\ p.at = 0 \/ p.at \in Features
         /\ \A i \in Features :
              IF i = p.at
                THEN \E x : IsPushed(x, adwin[i]) /\ Detects(x) /\ p.adwin[i] = Marked(x)
                ELSE IsPushed(p.adwin[i], adwin[i]) \/ p.adwin[i] = adwin[i]
<1>1. NFeatures \in Nat \ {0}
  BY DetectorAssumption
<1>2. ASSUME NEW inputs
      PROVE  /\ PushedAll(adwin, inputs) = [i \in Features |-> PushedAll(adwin, inputs)[i]]
             /\ \A i \in Features : IsPushed(PushedAll(adwin, inputs)[i], adwin[i])
  BY DEF PushedAll, IsPushed
<1>3. CASE each
  <2>1. PICK pushed : pushed = PushedAll(adwin, values)
    OBVIOUS
  <2>2. p = PushedInTurn(adwin, pushed)
    BY <1>3, <2>1 DEF Pushed
  <2> DEFINE at(i) == IF i = 0 THEN [adwin |-> pushed, at |-> 0]
                      ELSE [adwin |-> UpTo(i, adwin, pushed), at |-> i]
  <2>3. PICK f : IsFirst(f, pushed) /\ p = at(f[1])
    <3> DEFINE g == CHOOSE f : IsFirst(f, pushed)
    <3>1. p = at(g[1])
      BY <2>2 DEF PushedInTurn, IsFirst
    <3>2. IsFirst(g, pushed)
      BY FirstExists
    <3> HIDE DEF g
    <3> QED BY <3>1, <3>2
  <2>4. f[1] = 0 \/ (f[1] \in Features /\ Detects(pushed[f[1]]))
    BY <2>3, FirstDetects
  <2>5. CASE f[1] = 0
    <3>1. p.adwin = pushed /\ p.at = 0
      BY <2>3, <2>5
    <3>2. 0 \notin Features
      BY DEF Features
    <3> QED BY <1>2, <2>1, <3>1, <3>2
  <2>6. CASE f[1] # 0
    <3>1. p.adwin = UpTo(f[1], adwin, pushed) /\ p.at = f[1]
      BY <2>3, <2>6
    <3>2. f[1] \in Features /\ Detects(pushed[f[1]])
      BY <2>4, <2>6
    <3>3. p.adwin = [i \in Features |-> p.adwin[i]]
      BY <3>1 DEF UpTo
    <3>4. ASSUME NEW i \in Features
          PROVE  p.adwin[i] = IF i < f[1] THEN pushed[i] ELSE IF i = f[1] THEN Marked(pushed[i])
                              ELSE adwin[i]
      <4>1. i \in Int /\ f[1] \in Int
        BY <1>1, <3>2 DEF Features
      <4> QED BY <3>1, <4>1 DEF UpTo
    <3>5. ASSUME NEW i \in Features
          PROVE  IF i = p.at
                   THEN \E x : IsPushed(x, adwin[i]) /\ Detects(x) /\ p.adwin[i] = Marked(x)
                   ELSE IsPushed(p.adwin[i], adwin[i]) \/ p.adwin[i] = adwin[i]
      <4>1. IsPushed(pushed[i], adwin[i])
        BY <1>2, <2>1
      <4>2. CASE i = f[1]
        <5>1. p.adwin[i] = Marked(pushed[i])
          BY <3>4, <4>2, <1>1 DEF Features
        <5> QED BY <3>1, <3>2, <4>1, <4>2, <5>1
      <4>3. CASE i # f[1]
        BY <3>1, <3>4, <4>1, <4>3
      <4> QED BY <4>2, <4>3
    <3> QED BY <3>1, <3>2, <3>3, <3>5
  <2> QED BY <2>5, <2>6
<1>4. CASE ~each
  <2>1. PICK inputs : p = PushedTogether(PushedAll(adwin, inputs))
    <3> DEFINE mean == MeanFrac([i \in Features |-> AbsFrac(values[i])])
    <3>1. p = PushedTogether(PushedAll(adwin, [i \in Features |-> mean]))
      BY <1>4 DEF Pushed
    <3> QED BY <3>1
  <2>2. PICK pushed : pushed = PushedAll(adwin, inputs)
    OBVIOUS
  <2>3. 1 \in Features /\ 0 \notin Features
    BY <1>1 DEF Features
  <2>4. CASE Detects(pushed[1])
    <3>1. p.adwin = [pushed EXCEPT ![1] = Marked(@)] /\ p.at = 1
      BY <2>1, <2>2, <2>4 DEF PushedTogether
    <3>2. pushed = [i \in Features |-> pushed[i]]
      BY <1>2, <2>2
    <3>3. /\ p.adwin = [i \in Features |-> p.adwin[i]]
          /\ p.adwin[1] = Marked(pushed[1])
          /\ \A i \in Features : i # 1 => p.adwin[i] = pushed[i]
      BY <2>3, <3>1, <3>2
    <3> QED BY <1>2, <2>2, <2>3, <2>4, <3>1, <3>3
  <2>5. CASE ~Detects(pushed[1])
    <3>1. p.adwin = pushed /\ p.at = 0
      BY <2>1, <2>2, <2>5 DEF PushedTogether
    <3> QED BY <1>2, <2>2, <2>3, <3>1
  <2> QED BY <2>4, <2>5
<1> QED BY <1>3, <1>4

\* While a feature is in its grace period, the detector counts what the observer does, and
\* otherwise at least a grace period is over.
GraceInv ==
  /\ IsDetector(detector)
  /\ detector.adwin = [i \in Features |-> detector.adwin[i]]
  /\ \A i \in Features : IsAdwin(detector.adwin[i])
  /\ quiet \in [Features -> Nat]
  /\ \A i \in Features :
       IF detector.adwin[i].inGrace THEN detector.adwin[i].grace = quiet[i]
                                    ELSE quiet[i] >= GracePeriod

\* What the observations of one step are to one feature
Steady(i, old, new, q, r) ==
  /\ IsAdwin(new[i]) /\ r[i] \in Nat
  /\ IF new[i].inGrace THEN new[i].grace = r[i] ELSE r[i] >= GracePeriod
  /\ new[i].consecutive > old[i].consecutive => q[i] + 1 >= GracePeriod

LEMMA GraceInit == Init => GraceInv
<1> SUFFICES ASSUME Init PROVE GraceInv
  OBVIOUS
<1>1. GracePeriod \in Nat
  BY DetectorAssumption
<1>2. IsDetector(detector) /\ detector.adwin = [i \in Features |-> NewAdwin]
  BY DEF Init, NewDetector, IsDetector
<1>3. IsAdwin(NewAdwin) /\ NewAdwin.inGrace \in BOOLEAN /\ ~NewAdwin.inGrace
  BY DEF NewAdwin, IsAdwin
<1>4. quiet = [i \in Features |-> GracePeriod]
  BY DEF Init
<1> QED BY <1>1, <1>2, <1>3, <1>4 DEF GraceInv

LEMMA GraceObserve ==
  ASSUME GraceInv, ObserveStep
  PROVE  /\ IsDetector(detector') /\ detector'.adwin = [i \in Features |-> detector'.adwin[i]]
         /\ quiet' = [i \in Features |-> quiet'[i]]
         /\ \A i \in Features : Steady(i, detector.adwin, detector'.adwin, quiet, quiet')
<1>1. \E values \in [Features -> FeatureValues] :
        \E s \in {Observe(detector, values, perFeature, now)} :
          /\ detector' = s.detector
          /\ quiet' = [i \in Features |->
               CASE \E c \in s.change : c.feature = i -> 0
                 [] s.detector.adwin[i].since = detector.adwin[i].since -> quiet[i]
                 [] OTHER -> quiet[i] + 1]
  BY DEF ObserveStep
<1>2. PICK values, s, d, at, q, r :
        /\ d = detector /\ at = now /\ q = quiet /\ r = quiet'
        /\ s = Observe(d, values, perFeature, at)
        /\ detector' = s.detector
        /\ r = [i \in Features |-> CASE \E c \in s.change : c.feature = i -> 0
                                     [] s.detector.adwin[i].since = d.adwin[i].since -> q[i]
                                     [] OTHER -> q[i] + 1]
  BY <1>1
<1> DEFINE p == Pushed(d.adwin, values, perFeature)
<1>3. /\ IsDetector(d) /\ d.adwin = [i \in Features |-> d.adwin[i]]
      /\ \A i \in Features : IsAdwin(d.adwin[i])
      /\ q \in [Features -> Nat]
      /\ \A i \in Features : IF d.adwin[i].inGrace THEN d.adwin[i].grace = q[i]
                                                  ELSE q[i] >= GracePeriod
  BY <1>2 DEF GraceInv
<1>4. /\ IsDetector(s.detector)
      /\ \/ s.change = {} /\ s.detector.adwin = d.adwin
         \/ /\ s.detector.adwin = p.adwin
            /\ \/ p.at = 0 /\ s.change = {}
               \/ p.at # 0 /\ \E c : s.change = {c} /\ c.feature = p.at
  <2>1. IsDetector(d) /\ s = Observe(d, values, perFeature, at)
    BY <1>2, <1>3
  <2>2. IsDetector(s.detector)
    BY <2>1, ObserveMeans
  <2>3. \/ /\ s.change = {} /\ s.detector.adwin = d.adwin
           /\ s.detector.recent = d.recent /\ s.detector.retraining = d.retraining
        \/ /\ s.detector.adwin = p.adwin
           /\ \/ /\ p.at = 0 /\ s.change = {}
                 /\ s.detector.recent = d.recent
                 /\ s.detector.retraining = d.retraining
              \/ /\ p.at # 0 /\ \E c : s.change = {c} /\ c.feature = p.at
                 /\ s.detector.recent = d.recent + 1
                 /\ s.detector.retraining =
                      (d.retraining \/ d.recent + 1 >= RetrainThreshold)
    BY <2>1, ObserveMeans
  <2> HIDE DEF p
  <2> QED BY <2>2, <2>3
<1>5. GracePeriod \in Nat /\ NFeatures \in Nat /\ 0 \notin Features
  BY DetectorAssumption DEF Features
<1>6. ASSUME s.change = {} /\ s.detector.adwin = d.adwin
      PROVE  /\ s.detector.adwin = [i \in Features |-> s.detector.adwin[i]]
             /\ \A i \in Features : Steady(i, d.adwin, s.detector.adwin, q, r)
  <2>1. ASSUME NEW i \in Features
        PROVE  Steady(i, d.adwin, s.detector.adwin, q, r)
    <3>1. r[i] = q[i]
      BY <1>2, <1>6
    <3>2. IsAdwin(d.adwin[i]) /\ d.adwin[i].consecutive \in Nat /\ q[i] \in Nat
      BY <1>3 DEF IsAdwin
    <3> QED BY <1>3, <1>6, <3>1, <3>2 DEF Steady
  <2> QED BY <1>3, <1>6, <2>1
<1>7. ASSUME s.detector.adwin = p.adwin,
             \/ p.at = 0 /\ s.change = {}
             \/ p.at # 0 /\ \E c : s.change = {c} /\ c.feature = p.at
      PROVE  /\ s.detector.adwin = [i \in Features |-> s.detector.adwin[i]]
             /\ \A i \in Features : Steady(i, d.adwin, s.detector.adwin, q, r)
  <2>1. /\ p.adwin = [i \in Features |-> p.adwin[i]]
        /\ \A i \in Features :
             IF i = p.at
               THEN \E x : IsPushed(x, d.adwin[i]) /\ Detects(x) /\ p.adwin[i] = Marked(x)
               ELSE IsPushed(p.adwin[i], d.adwin[i]) \/ p.adwin[i] = d.adwin[i]
    BY PushedMeans
  <2> HIDE DEF p
  <2>2. ASSUME NEW i \in Features
        PROVE  Steady(i, d.adwin, s.detector.adwin, q, r)
    <3>1. PICK a, b, m, n : a = d.adwin[i] /\ b = p.adwin[i] /\ m = q[i] /\ n = r[i]
      OBVIOUS
    <3>2. /\ IsAdwin(a) /\ a.since \in Nat /\ a.inGrace \in BOOLEAN /\ a.grace \in Nat
          /\ a.consecutive \in Nat /\ m \in Nat
          /\ IF a.inGrace THEN a.grace = m ELSE m >= GracePeriod
      BY <1>3, <3>1 DEF IsAdwin
    <3>3. n = CASE \E c \in s.change : c.feature = i -> 0
                [] b.since = a.since -> m
                [] OTHER -> m + 1
      BY <1>2, <1>7, <3>1
    <3>4. (\E c \in s.change : c.feature = i) <=> i = p.at
      BY <1>5, <1>7
    <3>5. CASE i = p.at
      <4>1. PICK v, x : x = Push(a, v) /\ Detects(x) /\ b = Marked(x)
        BY <2>1, <3>1, <3>5 DEF IsPushed
      <4>2. /\ IsAdwin(x) /\ x.since = a.since + 1 /\ x.consecutive = a.consecutive
            /\ x.inGrace <=> (a.inGrace /\ a.grace + 1 < GracePeriod)
        BY <3>2, <4>1, PushMeans
      <4>3. /\ IsAdwin(b) /\ b.since = x.since /\ b.consecutive = x.consecutive + 1
            /\ b.inGrace /\ b.grace = 0
        BY <4>1, <4>2, MarkedMeans
      <4>4. ~x.inGrace
        BY <4>1 DEF Detects
      <4>5. n = 0
        BY <3>2, <3>3, <3>4, <3>5, <4>2, <4>3
      <4>6. m + 1 >= GracePeriod
        BY <1>5, <3>2, <4>2, <4>4
      <4> QED BY <1>7, <3>1, <4>3, <4>5, <4>6 DEF Steady
    <3>6. CASE i # p.at /\ b = a
      <4>1. n = m
        BY <3>3, <3>4, <3>6
      <4> QED BY <1>7, <3>1, <3>2, <3>6, <4>1 DEF Steady
    <3>7. CASE i # p.at /\ b # a
      <4>1. PICK v : b = Push(a, v)
        BY <2>1, <3>1, <3>7 DEF IsPushed
      <4>2. /\ IsAdwin(b) /\ b.since = a.since + 1 /\ b.consecutive = a.consecutive
            /\ b.inGrace <=> (a.inGrace /\ a.grace + 1 < GracePeriod)
            /\ b.inGrace => b.grace = a.grace + 1
        BY <3>2, <4>1, PushMeans
      <4>3. n = m + 1
        BY <3>2, <3>3, <3>4, <3>7, <4>2
      <4>4. IF b.inGrace THEN b.grace = n ELSE n >= GracePeriod
        BY <1>5, <3>2, <4>2, <4>3
      <4>5. ~(b.consecutive > a.consecutive) /\ n \in Nat
        BY <3>2, <4>2, <4>3
      <4> QED BY <1>7, <3>1, <4>2, <4>4, <4>5 DEF Steady
    <3> QED BY <3>5, <3>6, <3>7
  <2> QED BY <1>7, <2>1, <2>2
<1>8. /\ s.detector.adwin = [i \in Features |-> s.detector.adwin[i]]
      /\ \A i \in Features : Steady(i, d.adwin, s.detector.adwin, q, r)
  BY <1>4, <1>6, <1>7
<1>9. r = [i \in Features |-> r[i]]
  BY <1>2
<1> QED BY <1>2, <1>4, <1>8, <1>9

LEMMA GraceStep ==
  ASSUME GraceInv, [Next]_vars
  PROVE  /\ GraceInv'
         /\ \A i \in Features :
              detector'.adwin[i].consecutive > detector.adwin[i].consecutive
                => quiet[i] + 1 >= GracePeriod
<1>1. CASE UNCHANGED <<detector.adwin, quiet>> /\ IsDetector(detector')
  <2>1. \A i \in Features : detector.adwin[i].consecutive \in Nat
    BY DEF GraceInv, IsAdwin
  <2> QED BY <1>1, <2>1 DEF GraceInv
<1>2. CASE ObserveStep
  <2>1. /\ IsDetector(detector') /\ detector'.adwin = [i \in Features |-> detector'.adwin[i]]
        /\ quiet' = [i \in Features |-> quiet'[i]]
        /\ \A i \in Features : Steady(i, detector.adwin, detector'.adwin, quiet, quiet')
    BY <1>2, GraceObserve
  <2> QED BY <2>1 DEF Steady, GraceInv
<1>3. CASE ClearStep
  <2>1. IsDetector(detector') /\ detector'.adwin = detector.adwin /\ quiet' = quiet
    BY <1>3 DEF ClearStep, ClearRetraining, GraceInv, IsDetector
  <2> QED BY <1>1, <2>1
<1>4. CASE DecayStep
  <2>1. IsDetector(detector') /\ detector'.adwin = detector.adwin /\ quiet' = quiet
    <3>1. detector' = Decayed(detector) /\ quiet' = quiet
      BY <1>4 DEF DecayStep
    <3>2. CASE detector.recent = 0
      BY <3>1, <3>2 DEF Decayed, GraceInv
    <3>3. CASE detector.recent # 0
      BY <3>1, <3>3 DEF Decayed, GraceInv, IsDetector
    <3> QED BY <3>2, <3>3
  <2> QED BY <1>1, <2>1
<1>5. CASE ResetFeatureStep
  <2>1. PICK j \in Features : /\ detector' = ResetFeature(detector, j)
                              /\ quiet' = [quiet EXCEPT ![j] = GracePeriod]
    BY <1>5 DEF ResetFeatureStep
  <2> DEFINE fresh(a) == [a EXCEPT !.inGrace = FALSE, !.grace = 0, !.consecutive = 0]
  <2>2. /\ IsDetector(detector')
        /\ detector'.adwin = [detector.adwin EXCEPT ![j] = fresh(@)]
    BY <2>1 DEF ResetFeature, GraceInv, IsDetector
  <2>3. ASSUME NEW a, IsAdwin(a)
        PROVE  /\ IsAdwin(fresh(a)) /\ fresh(a).inGrace \in BOOLEAN /\ ~fresh(a).inGrace
               /\ fresh(a).consecutive = 0
    BY <2>3 DEF IsAdwin
  <2> HIDE DEF fresh
  <2>4. /\ detector'.adwin = [i \in Features |-> detector'.adwin[i]]
        /\ detector'.adwin[j] = fresh(detector.adwin[j])
        /\ \A i \in Features : i # j => detector'.adwin[i] = detector.adwin[i]
    BY <2>2 DEF GraceInv
  <2>5. /\ quiet' \in [Features -> Nat] /\ quiet'[j] = GracePeriod
        /\ \A i \in Features : i # j => quiet'[i] = quiet[i]
    BY <2>1, DetectorAssumption DEF GraceInv
  <2>6. ASSUME NEW i \in Features
        PROVE  /\ IsAdwin(detector'.adwin[i])
               /\ IF detector'.adwin[i].inGrace THEN detector'.adwin[i].grace = quiet'[i]
                                                ELSE quiet'[i] >= GracePeriod
               /\ ~(detector'.adwin[i].consecutive > detector.adwin[i].consecutive)
    <3>1. IsAdwin(detector.adwin[i]) /\ detector.adwin[i].consecutive \in Nat
      BY DEF GraceInv, IsAdwin
    <3>2. CASE i = j
      BY <2>3, <2>4, <2>5, <3>1, <3>2, DetectorAssumption
    <3>3. CASE i # j
      BY <2>4, <2>5, <3>1, <3>3 DEF GraceInv
    <3> QED BY <3>2, <3>3
  <2> QED BY <2>2, <2>4, <2>5, <2>6 DEF GraceInv
<1>6. CASE ResetDetectorStep
  <2>1. /\ IsDetector(detector') /\ detector'.adwin = [i \in Features |-> NewAdwin]
        /\ quiet' = [i \in Features |-> GracePeriod]
    BY <1>6 DEF ResetDetectorStep, ResetDetector, GraceInv, IsDetector
  <2>2. /\ IsAdwin(NewAdwin) /\ NewAdwin.inGrace \in BOOLEAN /\ ~NewAdwin.inGrace
        /\ NewAdwin.consecutive = 0
    BY DEF NewAdwin, IsAdwin
  <2>3. \A i \in Features : detector.adwin[i].consecutive \in Nat
    BY DEF GraceInv, IsAdwin
  <2> QED BY <2>1, <2>2, <2>3, DetectorAssumption DEF GraceInv
<1> QED
  <2>1. ASSUME UNCHANGED <<detector, quiet>>
        PROVE  UNCHANGED <<detector.adwin, quiet>> /\ IsDetector(detector')
    BY <2>1 DEF GraceInv
  <2> QED
    BY <1>1, <1>2, <1>3, <1>4, <1>5, <1>6, <2>1
       DEF Next, vars, detectorVars, StartEpisodeStep, RecordStep, EndEpisodeStep, DecideStep,
           ResetTrackerStep, TickStep, UpdateStep, ExportStep, TamperStep, ImportStep

\* Two changes of a feature are a grace period of its observations apart, whatever other features
\* do in between, for any features, windows, sizes and data (change_point.rs push and observe).
THEOREM GraceIsKept == Spec => GraceKept
<1>1. GraceInv /\ [Next]_vars => GraceInv'
  BY GraceStep
<1>2. GraceInv /\ [Next]_vars =>
        [\A i \in Features :
           detector'.adwin[i].consecutive > detector.adwin[i].consecutive
             => quiet[i] + 1 >= GracePeriod]_vars
  BY GraceStep
<1> QED BY <1>1, <1>2, GraceInit, PTL DEF Spec, GraceKept

-----------------------------------------------------------------------------
(* Strategies B and C: their episodes *)

IsStrategy(s) ==
  s \in [episode : {s.episode}, q : {s.q}, history : {s.history}, decisions : {s.decisions},
         inflation : {s.inflation}]

\* An episode of a position, or of an entry made now, that is not out of time
Tracked(s, held, t, maxHold) ==
  \A entry \in s.episode : /\ entry \in Int /\ t - entry < maxHold
                           /\ entry = t \/ held # 0

\* Counting a decision, recording a trade and watching the level leave the episode alone.
LEMMA CountedKeeps ==
  ASSUME NEW s, IsStrategy(s)
  PROVE  IsStrategy(Counted(s)) /\ Counted(s).episode = s.episode
BY DEF Counted, IsStrategy

LEMMA WatchedKeeps ==
  ASSUME NEW s, IsStrategy(s)
  PROVE  IsStrategy(Watched(s)) /\ Watched(s).episode = s.episode
<1>1. CASE HoldDegenerate(s)
  <2> DEFINE q == InflatedQ(s.q, InflationTarget // s.inflation)
  <2>1. Watched(s) = s \/ Watched(s) = [s EXCEPT !.q = q, !.inflation = InflationTarget]
    BY <1>1 DEF Watched
  <2> HIDE DEF q
  <2> QED BY <2>1 DEF IsStrategy
<1>2. CASE ~HoldDegenerate(s)
  <2> DEFINE sunk  == One ++ ((s.inflation -- One) ** InflationDecay)
             level == IF sunk \prec InflationFloor THEN One ELSE sunk
  <2>1. Watched(s) = s \/ Watched(s) = [s EXCEPT !.inflation = level]
    BY <1>2 DEF Watched
  <2> HIDE DEF level
  <2> QED BY <2>1 DEF IsStrategy
<1> QED BY <1>1, <1>2

LEMMA AfterOrderKeeps ==
  ASSUME NEW s, IsStrategy(s), NEW order
  PROVE  IsStrategy(AfterOrder(s, order)) /\ AfterOrder(s, order).episode = s.episode
<1> DEFINE t == [s EXCEPT !.history = RecordTrade(@, order.action # "Hold")]
<1>1. IsStrategy(t) /\ t.episode = s.episode
  BY DEF IsStrategy
<1>2. AfterOrder(s, order) = Watched(t)
  BY DEF AfterOrder
<1> HIDE DEF t
<1> QED BY <1>1, <1>2, WatchedKeeps

\* A strategy that settles on an order keeps its episode, or begins one now.
LEMMA SettledTracks ==
  ASSUME NEW s, IsStrategy(s), NEW order, NEW triggered, NEW held, NEW t \in Int,
         NEW maxHold \in Nat \ {0}, Tracked(s, held, t, maxHold),
         NEW r, r = Settled(s, order, triggered, held, t).strategy
  PROVE  IsStrategy(r) /\ Tracked(r, held, t, maxHold)
<1> DEFINE e == IF s.episode = {} /\ order.action # "Hold" THEN StartEpisode(s, t) ELSE s
<1>1. r = AfterOrder(e, order)
  BY DEF Settled
<1>2. IsStrategy(e) /\ (e.episode = s.episode \/ e.episode = {t})
  BY DEF StartEpisode, IsStrategy
<1> HIDE DEF e
<1>3. IsStrategy(r) /\ r.episode = e.episode
  BY <1>1, <1>2, AfterOrderKeeps
<1>4. t - t < maxHold
  OBVIOUS
<1> QED BY <1>2, <1>3, <1>4 DEF Tracked

\* What steps 1 to 3 leave of an episode: nothing out of time, or without a position
LEMMA SyncedTracks ==
  ASSUME NEW s, IsStrategy(s), NEW held, NEW t \in Int, NEW maxHold \in Nat \ {0},
         \A entry \in s.episode : entry \in Int, ~ShouldEnd(s, t, maxHold)
  PROVE  LET e == SyncedWith(Counted(s), held)
         IN IsStrategy(e) /\ Tracked(e, held, t, maxHold)
<1>1. IsStrategy(Counted(s)) /\ Counted(s).episode = s.episode
  BY CountedKeeps
<1>2. \A entry \in s.episode : entry \in Int /\ t - entry < maxHold
  BY DEF ShouldEnd
<1>3. CASE held = 0
  BY <1>1, <1>3 DEF SyncedWith, EndEpisode, IsStrategy, Tracked
<1>4. CASE held # 0
  BY <1>1, <1>2, <1>4 DEF SyncedWith, Tracked
<1> QED BY <1>3, <1>4

LEMMA IdleTracks ==
  ASSUME NEW s, IsStrategy(s), NEW held, NEW t, NEW maxHold
  PROVE  /\ IsStrategy(TimedOut(Counted(s), held).strategy)
         /\ Tracked(TimedOut(Counted(s), held).strategy, held, t, maxHold)
         /\ s.episode = {} => /\ IsStrategy(Skipped(s).strategy)
                              /\ Tracked(Skipped(s).strategy, held, t, maxHold)
<1>1. IsStrategy(Counted(s))
  BY CountedKeeps
<1>2. TimedOut(Counted(s), held).strategy = [Counted(s) EXCEPT !.episode = {}]
  BY DEF TimedOut, EndEpisode
<1>3. /\ IsStrategy(TimedOut(Counted(s), held).strategy)
      /\ TimedOut(Counted(s), held).strategy.episode = {}
  BY <1>1, <1>2 DEF IsStrategy
<1>4. Skipped(s).strategy = [s EXCEPT !.history = RecordTrade(@, FALSE)]
  BY DEF Skipped
<1>5. IsStrategy(Skipped(s).strategy) /\ Skipped(s).strategy.episode = s.episode
  BY <1>4 DEF IsStrategy
<1> QED BY <1>3, <1>5 DEF Tracked

LEMMA DecideTracksB ==
  ASSUME NEW s, IsStrategy(s), NEW f, NEW kl, NEW raw, NEW sigma, NEW latency, NEW state,
         NEW held, NEW t \in Int, MaxHoldB \in Nat \ {0},
         \A entry \in s.episode : entry \in Int,
         NEW r, r = DecideB(s, f, kl, raw, sigma, latency, state, held, t).strategy
  PROVE  IsStrategy(r) /\ Tracked(r, held, t, MaxHoldB)
<1> DEFINE early  == EnteredB(s, f, kl, held, t)
           synced == SyncedWith(Counted(s), held)
<1>1. CASE ShouldEndB(s, t)
  <2>1. r = TimedOut(Counted(s), held).strategy
    BY <1>1 DEF DecideB, SamplesB, EnteredB
  <2> QED BY <2>1, IdleTracks
<1>2. CASE ~ShouldEndB(s, t)
  <2>1. IsStrategy(synced) /\ Tracked(synced, held, t, MaxHoldB)
    BY <1>2, SyncedTracks DEF ShouldEndB
  <2>2. Counted(s).episode = s.episode
    BY CountedKeeps
  <2>3. synced.episode = {} <=> (s.episode = {} \/ held = 0)
    BY <2>2, CountedKeeps DEF SyncedWith, EndEpisode, IsStrategy
  <2>4. CASE SamplesB(s, f, kl, held, t)
    <3>1. ~(synced.episode = {} /\ ~IsTriggeredB(f, kl))
      BY <2>3, <2>4 DEF SamplesB
    <3>2. early.strategy = synced
      BY <1>2, <3>1 DEF EnteredB
    <3>3. \E order, triggered : r = Settled(synced, order, triggered, held, t).strategy
      BY <2>4, <3>2 DEF DecideB
    <3> HIDE DEF synced
    <3> QED BY <2>1, <3>3, SettledTracks
  <2>5. CASE ~SamplesB(s, f, kl, held, t)
    <3>1. synced.episode = {} /\ ~IsTriggeredB(f, kl)
      BY <1>2, <2>3, <2>5 DEF SamplesB
    <3>2. r = Skipped(synced).strategy
      BY <1>2, <2>5, <3>1 DEF DecideB, EnteredB
    <3> HIDE DEF synced
    <3> QED BY <2>1, <3>1, <3>2, IdleTracks
  <2> QED BY <2>4, <2>5
<1> QED BY <1>1, <1>2

LEMMA DecideTracksC ==
  ASSUME NEW s, IsStrategy(s), NEW f, NEW kl, NEW raw, NEW sigma, NEW latency, NEW state,
         NEW held, NEW t \in Int, MaxHoldC \in Nat \ {0},
         \A entry \in s.episode : entry \in Int,
         NEW r, r = DecideC(s, f, kl, raw, sigma, latency, state, held, t).strategy
  PROVE  IsStrategy(r) /\ Tracked(r, held, t, MaxHoldC)
<1> DEFINE early  == EnteredC(s, f, kl, held, t)
           synced == SyncedWith(Counted(s), held)
<1>1. CASE ShouldEndC(s, t)
  <2>1. r = TimedOut(Counted(s), held).strategy
    BY <1>1 DEF DecideC, SamplesC, EnteredC
  <2> QED BY <2>1, IdleTracks
<1>2. CASE ~ShouldEndC(s, t)
  <2>1. IsStrategy(synced) /\ Tracked(synced, held, t, MaxHoldC)
    BY <1>2, SyncedTracks DEF ShouldEndC
  <2>2. Counted(s).episode = s.episode
    BY CountedKeeps
  <2>3. synced.episode = {} <=> (s.episode = {} \/ held = 0)
    BY <2>2, CountedKeeps DEF SyncedWith, EndEpisode, IsStrategy
  <2>4. CASE SamplesC(s, f, kl, held, t)
    <3>1. ~(synced.episode = {} /\ ~IsTriggeredC(f, kl))
      BY <2>3, <2>4 DEF SamplesC
    <3>2. early.strategy = synced
      BY <1>2, <3>1 DEF EnteredC
    <3>3. \E order, triggered : r = Settled(synced, order, triggered, held, t).strategy
      BY <2>4, <3>2 DEF DecideC
    <3> HIDE DEF synced
    <3> QED BY <2>1, <3>3, SettledTracks
  <2>5. CASE ~SamplesC(s, f, kl, held, t)
    <3>1. synced.episode = {} /\ ~IsTriggeredC(f, kl)
      BY <1>2, <2>3, <2>5 DEF SamplesC
    <3>2. r = Skipped(synced).strategy
      BY <1>2, <2>5, <3>1 DEF DecideC, EnteredC
    <3> HIDE DEF synced
    <3> QED BY <2>1, <3>1, <3>2, IdleTracks
  <2> QED BY <2>4, <2>5
<1> QED BY <1>1, <1>2

\* Both strategies, in a scenario of their own, whose time only they see
EpisodeInv ==
  /\ now \in Int
  /\ \A s \in {"B", "C"} :
       /\ IsStrategy(strategies[s])
       /\ Tracked(strategies[s], size[s], now, IF s = "B" THEN MaxHoldB ELSE MaxHoldC)
       /\ scenario # "strategies" => strategies[s].episode = {}

LEMMA EpisodeInit == Init => EpisodeInv
<1>1. IsStrategy(NewStrategyB) /\ NewStrategyB.episode = {}
  BY DEF NewStrategyB, NewStrategy, IsStrategy
<1>2. IsStrategy(NewStrategyC) /\ NewStrategyC.episode = {}
  BY DEF NewStrategyC, NewStrategy, IsStrategy
<1> QED BY <1>1, <1>2 DEF Init, EpisodeInv, Tracked

LEMMA EpisodeTick ==
  ASSUME EpisodeInv, TickStep, MaxHoldB \in Nat \ {0}, MaxHoldC \in Nat \ {0}
  PROVE  EpisodeInv'
<1>1. scenario = "strategies" /\ scenario' = scenario /\ now' \in Int
  BY DEF TickStep, EpisodeInv
<1>2. PICK b, c, kl, raw, state, held :
        /\ size' = held
        /\ strategies' =
             [s \in {"B", "C"} |->
                IF s = "B"
                  THEN DecideB(strategies["B"], b, kl, raw, One, Zero, state, held["B"], now').strategy
                  ELSE DecideC(strategies["C"], c, kl, raw, One, Zero, state, held["C"], now').strategy]
  BY DEF TickStep
<1>3. PICK sb, sc, t, rb, rc :
        /\ sb = strategies["B"] /\ sc = strategies["C"] /\ t = now'
        /\ rb = DecideB(sb, b, kl, raw, One, Zero, state, held["B"], t).strategy
        /\ rc = DecideC(sc, c, kl, raw, One, Zero, state, held["C"], t).strategy
  OBVIOUS
<1>4. strategies'["B"] = rb /\ strategies'["C"] = rc
  BY <1>2, <1>3
<1>5. /\ IsStrategy(sb) /\ \A entry \in sb.episode : entry \in Int
      /\ IsStrategy(sc) /\ \A entry \in sc.episode : entry \in Int
      /\ t \in Int
  BY <1>1, <1>3 DEF EpisodeInv, Tracked
<1>6. IsStrategy(rb) /\ Tracked(rb, held["B"], t, MaxHoldB)
  BY <1>3, <1>5, DecideTracksB
<1>7. IsStrategy(rc) /\ Tracked(rc, held["C"], t, MaxHoldC)
  BY <1>3, <1>5, DecideTracksC
<1> QED BY <1>1, <1>2, <1>3, <1>4, <1>6, <1>7 DEF EpisodeInv

LEMMA EpisodeStep ==
  ASSUME EpisodeInv, [Next]_vars, MaxHoldB \in Nat \ {0}, MaxHoldC \in Nat \ {0}
  PROVE  EpisodeInv'
<1>1. CASE UNCHANGED <<strategies, size, now, scenario>>
  BY <1>1 DEF EpisodeInv, Tracked
<1>2. CASE TickStep
  BY <1>2, EpisodeTick
<1>3. CASE ObserveStep
  <2>1. scenario = "detector" /\ scenario' = scenario /\ now' = now + 1
        /\ strategies' = strategies
    BY <1>3 DEF ObserveStep
  <2> QED BY <2>1 DEF EpisodeInv, Tracked
<1> QED
  BY <1>1, <1>2, <1>3
     DEF Next, vars, strategyVars, StartEpisodeStep, RecordStep, EndEpisodeStep, DecideStep,
         ResetTrackerStep, ClearStep, DecayStep, ResetFeatureStep, ResetDetectorStep,
         UpdateStep, ExportStep, TamperStep, ImportStep

\* After a decision a strategy has an episode only of a position, or of the entry it decided just
\* now, and one that is not out of time, whatever it sees and whatever its orders come to, where
\* positions may be held for some time at all (strategy_b.rs and strategy_c.rs decide).
THEOREM EpisodesAreTracked ==
  ASSUME MaxHoldB \in Nat \ {0}, MaxHoldC \in Nat \ {0}
  PROVE  Spec => []EpisodesTracked
<1>1. EpisodeInv /\ [Next]_vars => EpisodeInv'
  BY EpisodeStep
<1>2. EpisodeInv => EpisodesTracked
  BY DEF EpisodeInv, EpisodesTracked, Tracked
<1> QED BY <1>1, <1>2, EpisodeInit, PTL DEF Spec

-----------------------------------------------------------------------------
(* Vectors and scalar products *)

LEMMA ListedIs ==
  ASSUME NEW T, NEW f \in [Coords -> T], NEW i \in Coords
  PROVE  Listed(f)[i] = f[i]
BY QAssumption DEF Listed, Coords

\* A vector as a tuple is the vector.
LEMMA ListedSame ==
  ASSUME NEW T, NEW f \in [Coords -> T]
  PROVE  Listed(f) = f
BY QAssumption DEF Listed, Coords

\* What the recursion of Dot defines, up to a coordinate
IsDot(f, x, y, n) == f = [k \in 0 .. n |-> IF k = 0 THEN Zero ELSE f[k - 1] ++ (x[k] ** y[k])]
LEMMA DotExists ==
  ASSUME NEW x, NEW y
  PROVE  \A n \in Nat : \E f : IsDot(f, x, y, n)
<1> DEFINE S == {n \in Int : \E f : IsDot(f, x, y, n)}
<1>1. 0 \in S
  <2> DEFINE f == [k \in 0 .. 0 |-> Zero]
  <2>1. IsDot(f, x, y, 0)
    BY DEF IsDot
  <2> QED BY <2>1
<1>2. ASSUME NEW n \in Nat, n \in S
      PROVE  n + 1 \in S
  <2>1. PICK f : IsDot(f, x, y, n)
    BY <1>2
  <2> DEFINE g == [k \in 0 .. n + 1 |-> IF k <= n THEN f[k] ELSE f[n] ++ (x[k] ** y[k])]
  <2>2. ASSUME NEW k \in 0 .. n + 1
        PROVE  g[k] = IF k = 0 THEN Zero ELSE g[k - 1] ++ (x[k] ** y[k])
    <3>1. CASE k = 0
      BY <2>1, <3>1 DEF IsDot
    <3>2. CASE k # 0
      <4>1. k - 1 \in 0 .. n + 1 /\ k - 1 <= n
        BY <3>2
      <4>2. g[k - 1] = f[k - 1]
        BY <4>1
      <4>3. CASE k <= n
        <5>1. k \in 0 .. n
          BY <4>3
        <5>2. f[k] = f[k - 1] ++ (x[k] ** y[k])
          BY <2>1, <3>2, <5>1 DEF IsDot
        <5> QED BY <3>2, <4>2, <4>3, <5>2
      <4>4. CASE k = n + 1
        <5>1. g[k] = f[n] ++ (x[k] ** y[k]) /\ k - 1 = n
          BY <4>4
        <5> QED BY <3>2, <4>2, <5>1
      <4> QED BY <4>3, <4>4
    <3> QED BY <3>1, <3>2
  <2>3. IsDot(g, x, y, n + 1)
    <3>1. g = [k \in 0 .. n + 1 |-> g[k]]
      OBVIOUS
    <3> HIDE DEF g
    <3> QED BY <2>2, <3>1 DEF IsDot
  <2> QED BY <2>3
<1>3. \A n \in Nat : n \in S
  <2>1. ASSUME NEW n \in Nat PROVE n \in S
    <3>1. \A m \in 0 .. n - 1 : m \in S => m + 1 \in S
      BY <1>2
    <3>2. 0 .. n \subseteq S
      <4> HIDE DEF S
      <4> QED BY <1>1, <3>1, IntervalInduction
    <3> QED BY <3>2
  <2> QED BY <2>1
<1> QED BY <1>3

\* The sum of a scalar product, one term more
LEMMA DotIs ==
  ASSUME NEW x, NEW y
  PROVE  \E f : /\ Dot(x, y) = f[Dim] /\ f[0] = Zero
                /\ \A k \in 1 .. Dim : f[k] = f[k - 1] ++ (x[k] ** y[k])
<1> DEFINE f == CHOOSE g : IsDot(g, x, y, Dim)
<1>1. Dim \in Nat \ {0}
  BY QAssumption
<1>2. IsDot(f, x, y, Dim)
  BY <1>1, DotExists
<1>3. Dot(x, y) = f[Dim]
  BY DEF Dot, IsDot
<1> HIDE DEF f
<1>4. f[0] = Zero /\ \A k \in 1 .. Dim : f[k] = f[k - 1] ++ (x[k] ** y[k])
  BY <1>1, <1>2 DEF IsDot
<1> QED BY <1>3, <1>4

\* A scalar product is a fraction, whatever is multiplied.
LEMMA DotFinite ==
  ASSUME NEW x, NEW y
  PROVE  Dot(x, y) # NotFinite
<1>1. PICK f : Dot(x, y) = f[Dim] /\ \A k \in 1 .. Dim : f[k] = f[k - 1] ++ (x[k] ** y[k])
  BY DotIs
<1>2. Dim \in 1 .. Dim
  BY QAssumption
<1>3. Dot(x, y) = f[Dim - 1] ++ (x[Dim] ** y[Dim])
  BY <1>1, <1>2
<1>4. \E p, q : Dot(x, y) = <<p, q>>
  BY <1>3 DEF ++, Frac
<1> QED BY <1>4 DEF NotFinite

LEMMA TimesZero ==
  ASSUME NEW x, IsFrac(x)
  PROVE  x ** Zero = Zero
<1>1. PICK n \in Int, d \in Nat \ {0} : x = <<n, d>>
  BY DEF IsFrac
<1>2. x ** Zero = Frac(0, d)
  <2>1. n * 0 = 0 /\ d * 1 = d
    OBVIOUS
  <2> QED BY <1>1, <2>1 DEF **, Zero, Whole
<1>3. Gcd[<<0, d>>] = d
  <2>1. 0 % d = 0
    OBVIOUS
  <2>2. Gcd[<<0, d>>] = Gcd[<<d, 0>>]
    BY <2>1, GcdStep
  <2>3. Gcd[<<d, 0>>] = d
    BY GcdStep
  <2> QED BY <2>2, <2>3
<1>4. 0 \div d = 0 /\ d \div d = 1
  OBVIOUS
<1>5. Frac(0, d) = <<1 * 0, 1 * 1>>
  BY <1>3, <1>4 DEF Frac, IntAbs
<1> QED BY <1>2, <1>5 DEF Zero, Whole

LEMMA DotZero ==
  ASSUME NEW x, NEW y, \A k \in Coords : IsFrac(x[k]) /\ y[k] = Zero
  PROVE  Dot(x, y) = Zero
<1>1. PICK f : /\ Dot(x, y) = f[Dim] /\ f[0] = Zero
               /\ \A k \in 1 .. Dim : f[k] = f[k - 1] ++ (x[k] ** y[k])
  BY DotIs
<1> DEFINE S == {n \in Int : f[n] = Zero}
<1>2. Zero ++ Zero = Zero
  <2>1. Zero ++ Zero = Zero ** Zero
    BY DEF ++, **, Zero, Whole
  <2>2. IsFrac(Zero)
    BY DEF IsFrac, Zero, Whole
  <2> QED BY <2>1, <2>2, TimesZero
<1>3. 0 \in S
  BY <1>1
<1>4. ASSUME NEW n \in 0 .. Dim - 1, n \in S
      PROVE  n + 1 \in S
  <2>1. n + 1 \in Coords /\ (n + 1) - 1 = n
    BY QAssumption DEF Coords
  <2>2. f[n + 1] = f[n] ++ (x[n + 1] ** y[n + 1])
    BY <1>1, <2>1 DEF Coords
  <2>3. x[n + 1] ** y[n + 1] = Zero
    BY <2>1, TimesZero
  <2> QED BY <1>2, <1>4, <2>2, <2>3
<1>5. 0 .. Dim \subseteq S
  <2> HIDE DEF S
  <2> QED BY <1>3, <1>4, IntervalInduction, QAssumption
<1>6. Dim \in S
  BY <1>5, QAssumption
<1> QED BY <1>1, <1>6

-----------------------------------------------------------------------------
(* Learned models *)

IsModel(m) ==
  m \in [aInv : {m.aInv}, b : {m.b}, w : {m.w}, sigma2 : {m.sigma2}, ema : {m.ema},
         prevNorm2 : {m.prevNorm2}, n : {m.n}]

\* b and the matrix are a vector and a vector of rows.
Shaped(m) ==
  /\ m.b = [i \in Coords |-> m.b[i]]
  /\ m.aInv = [i \in Coords |-> [j \in Coords |-> m.aInv[i][j]]]

\* A model as learning leaves it: while all its numbers are finite its weights solve its own
\* equation, and its noise is above the floor.
Learnt(m) ==
  /\ IsModel(m) /\ Shaped(m)
  /\ FiniteModel(m) => m.w = Apply(m.aInv, m.b) /\ MaxFrac(m.sigma2, SigmaFloor) = m.sigma2

LEMMA ListedRows ==
  ASSUME NEW T, NEW f \in [Coords -> [Coords -> T]]
  PROVE  Listed([i \in Coords |-> Listed(f[i])]) = f
<1>1. \A i \in Coords : Listed(f[i]) = f[i]
  BY ListedSame
<1>2. [i \in Coords |-> Listed(f[i])] = f
  BY <1>1
<1> QED BY <1>2, ListedSame

LEMMA VectorShaped ==
  ASSUME NEW T, NEW f \in [Coords -> T], NEW v, v = Listed(f)
  PROVE  v = [i \in Coords |-> v[i]]
<1>1. v = f
  BY ListedSame
<1> QED BY <1>1

LEMMA ShermanMorrisonShaped ==
  ASSUME NEW aInv, NEW x, NEW m, m = ShermanMorrison(aInv, x)
  PROVE  m = [i \in Coords |-> [j \in Coords |-> m[i][j]]]
<1> DEFINE ax == Apply(aInv, x)
           new(i, j) == aInv[i][j] -- ((ax[i] ** ax[j]) // (One ++ Dot(x, ax)))
           f == [i \in Coords |-> [j \in Coords |-> new(i, j)]]
           T == UNION {{new(i, j) : j \in Coords} : i \in Coords}
<1>1. m = Listed([i \in Coords |-> Listed([j \in Coords |-> new(i, j)])])
  BY DEF ShermanMorrison, Mat
<1> HIDE DEF new
<1>2. f \in [Coords -> [Coords -> T]]
  OBVIOUS
<1>3. m = Listed([i \in Coords |-> Listed(f[i])])
  BY <1>1
<1>4. PICK u, g : u = T /\ g = f
  OBVIOUS
<1> HIDE DEF f, T
<1>5. g \in [Coords -> [Coords -> u]] /\ m = Listed([i \in Coords |-> Listed(g[i])])
  BY <1>2, <1>3, <1>4
<1>6. m = g
  BY ONLY <1>5, ListedRows
<1> QED BY ONLY <1>5, <1>6

\* What a file holds of a vector and of a matrix
LEMMA VectorIs ==
  ASSUME NEW v
  PROVE  Vector(v).data = [i \in Coords |-> SanitizedF(v[i])]
<1> DEFINE f == [i \in Coords |-> SanitizedF(v[i])]
<1>1. f \in [Coords -> {SanitizedF(v[i]) : i \in Coords}]
  OBVIOUS
<1>2. Vector(v).data = Listed(f)
  BY DEF Vector, Vec
<1> HIDE DEF f
<1>3. Listed(f) = f
  BY <1>1, ListedSame
<1> QED BY <1>2, <1>3 DEF f

LEMMA MatrixIs ==
  ASSUME NEW m
  PROVE  Matrix(m).data = [i \in Coords |-> [j \in Coords |-> SanitizedF(m[i][j])]]
<1> DEFINE f == [i \in Coords |-> [j \in Coords |-> SanitizedF(m[i][j])]]
           T == UNION {{SanitizedF(m[i][j]) : j \in Coords} : i \in Coords}
<1>1. f \in [Coords -> [Coords -> T]]
  OBVIOUS
<1>2. Matrix(m).data = Listed([i \in Coords |-> Listed([j \in Coords |-> SanitizedF(m[i][j])])])
  BY DEF Matrix, Mat
<1>3. [i \in Coords |-> Listed([j \in Coords |-> SanitizedF(m[i][j])])] = [i \in Coords |-> Listed(f[i])]
  OBVIOUS
<1> HIDE DEF f, T
<1>4. Listed([i \in Coords |-> Listed(f[i])]) = f
  BY <1>1, ListedRows
<1> QED BY <1>2, <1>3, <1>4 DEF f

LEMMA FloorFinite == SigmaFloor # NotFinite /\ ~(SigmaFloor \prec SigmaFloor)
<1>1. PICK n \in Int, d \in Nat \ {0} : SigmaFloor = <<n, d>>
  BY QAssumption DEF IsFrac
<1> QED BY <1>1 DEF NotFinite, \prec

LEMMA FloorTwice ==
  ASSUME NEW v, v # NotFinite
  PROVE  /\ MaxFrac(v, SigmaFloor) # NotFinite
         /\ MaxFrac(MaxFrac(v, SigmaFloor), SigmaFloor) = MaxFrac(v, SigmaFloor)
BY FloorFinite DEF MaxFrac

LEMMA NewLearnt ==
  ASSUME SigmaFloor \preceq InitialSigma2
  PROVE  Learnt(NewModel) /\ Learnt(Biased(NewModel))
<1> DEFINE zeros == Vec(LAMBDA i : Zero)
           aInv  == Mat(LAMBDA i, j : IF i = j THEN One // LambdaReg ELSE Zero)
<1>1. Zero # NotFinite /\ InitialSigma2 # NotFinite /\ ~(InitialSigma2 \prec SigmaFloor)
  <2>1. PICK n \in Int, d \in Nat \ {0} : InitialSigma2 = <<n, d>>
    BY QAssumption DEF IsFrac
  <2>2. PICK p \in Int, q \in Nat \ {0} : SigmaFloor = <<p, q>>
    BY QAssumption DEF IsFrac
  <2>3. p * d <= n * q
    BY <2>1, <2>2 DEF \preceq
  <2>4. p * d \in Int /\ n * q \in Int
    OBVIOUS
  <2>5. ~(n * q < p * d)
    BY <2>3, <2>4
  <2> QED BY <2>1, <2>2, <2>5 DEF NotFinite, Zero, Whole, \prec
<1>2. IsFrac(Zero) /\ IsFrac(One // LambdaReg)
  <2>1. PICK n \in Int, d \in Nat \ {0} : LambdaReg = <<n, d>> /\ 0 * d < n * 1
    BY QAssumption DEF IsFrac, Zero, Whole, \prec
  <2>2. n \in Nat \ {0} /\ 1 * d \in Int /\ 1 * n = n
    BY <2>1
  <2>3. One // LambdaReg = Frac(1 * d, n)
    BY <2>1, <2>2 DEF //, One, Whole
  <2>4. IsFrac(Frac(1 * d, n))
    <3>1. PICK e \in Int : e = 1 * d
      BY <2>2
    <3>2. IsFrac(Frac(e, n))
      BY <2>2, FracIs
    <3> QED BY <3>1, <3>2
  <2>5. IsFrac(Zero)
    BY DEF IsFrac, Zero, Whole
  <2> QED BY <2>3, <2>4, <2>5
<1>3. \A i \in Coords : zeros[i] = Zero
  <2>1. [i \in Coords |-> Zero] \in [Coords -> {Zero}]
    OBVIOUS
  <2> QED BY <2>1, ListedIs DEF Vec
<1>4. \A i, j \in Coords : IsFrac(aInv[i][j])
  <2> DEFINE row(i) == [j \in Coords |-> IF i = j THEN One // LambdaReg ELSE Zero]
  <2>1. \A i \in Coords : aInv[i] = Listed(row(i))
    <3>1. [i \in Coords |-> Listed(row(i))] \in [Coords -> {Listed(row(i)) : i \in Coords}]
      OBVIOUS
    <3>2. aInv = Listed([i \in Coords |-> Listed(row(i))])
      BY DEF Mat
    <3> HIDE DEF row, aInv
    <3> QED BY <3>1, <3>2, ListedIs
  <2>2. ASSUME NEW i \in Coords, NEW j \in Coords
        PROVE  Listed(row(i))[j] = IF i = j THEN One // LambdaReg ELSE Zero
    <3>1. row(i) \in [Coords -> {One // LambdaReg, Zero}]
      OBVIOUS
    <3>2. row(i)[j] = IF i = j THEN One // LambdaReg ELSE Zero
      OBVIOUS
    <3> HIDE DEF row
    <3> QED BY <3>1, <3>2, ListedIs
  <2> HIDE DEF row, aInv
  <2> QED BY <1>2, <2>1, <2>2
<1>5. Apply(aInv, zeros) = zeros
  <2>1. \A i \in Coords : Dot(aInv[i], zeros) = Zero
    <3> HIDE DEF aInv, zeros
    <3> QED BY <1>3, <1>4, DotZero
  <2>2. [i \in Coords |-> Dot(aInv[i], zeros)] = [i \in Coords |-> Zero]
    <3> HIDE DEF aInv, zeros
    <3> QED BY <2>1
  <2>3. Apply(aInv, zeros) = Listed([i \in Coords |-> Dot(aInv[i], zeros)])
    BY DEF Apply, Vec
  <2>4. zeros = Listed([i \in Coords |-> Zero])
    BY DEF Vec
  <2> HIDE DEF aInv, zeros
  <2> QED BY <2>2, <2>3, <2>4
<1>6. NewModel = [aInv |-> aInv, b |-> zeros, w |-> zeros, sigma2 |-> InitialSigma2,
                  ema |-> InitialSigma2, prevNorm2 |-> Zero, n |-> 0]
  BY DEF NewModel
<1> HIDE DEF aInv, zeros
<1>7. MaxFrac(InitialSigma2, SigmaFloor) = InitialSigma2
  BY <1>1 DEF MaxFrac
<1>10. aInv = [i \in Coords |-> [j \in Coords |-> aInv[i][j]]] /\ zeros = [i \in Coords |-> zeros[i]]
  <2>1. zeros = [i \in Coords |-> zeros[i]]
    <3> DEFINE z == [i \in Coords |-> Zero]
    <3>1. z \in [Coords -> {Zero}]
      OBVIOUS
    <3>2. zeros = Listed(z)
      BY DEF zeros, Vec
    <3> HIDE DEF z
    <3> QED BY <3>1, <3>2, ListedSame
  <2> DEFINE f == [i \in Coords |-> [j \in Coords |-> IF i = j THEN One // LambdaReg ELSE Zero]]
  <2>2. f \in [Coords -> [Coords -> {One // LambdaReg, Zero}]]
    OBVIOUS
  <2>3. aInv = Listed([i \in Coords |-> Listed(f[i])])
    BY DEF aInv, Mat
  <2>4. PICK u, g, k : u = {One // LambdaReg, Zero} /\ g = f /\ k = aInv
    OBVIOUS
  <2> HIDE DEF f
  <2>5. g \in [Coords -> [Coords -> u]] /\ k = Listed([i \in Coords |-> Listed(g[i])])
    BY <2>2, <2>3, <2>4
  <2>6. k = [i \in Coords |-> [j \in Coords |-> k[i][j]]]
    <3>1. k = g
      BY ONLY <2>5, ListedRows
    <3> QED BY ONLY <2>5, <3>1
  <2> HIDE DEF aInv, zeros
  <2> QED BY <2>1, <2>4, <2>6
<1>8. Learnt(NewModel)
  BY <1>5, <1>6, <1>7, <1>10 DEF Learnt, IsModel, Shaped
<1>9. Learnt(Biased(NewModel))
  <2> DEFINE b == Vec(LAMBDA i : NewModel.b[i] ++ (LambdaReg ** OptimisticBias))
  <2>1. Biased(NewModel) = [NewModel EXCEPT !.b = b, !.w = Apply(NewModel.aInv, b)]
    BY DEF Biased
  <2> HIDE DEF b
  <2>2. Biased(NewModel) = [aInv |-> aInv, b |-> b, w |-> Apply(aInv, b),
                            sigma2 |-> InitialSigma2, ema |-> InitialSigma2, prevNorm2 |-> Zero,
                            n |-> 0]
    BY <1>6, <2>1
  <2>3. b = [i \in Coords |-> b[i]]
    <3> DEFINE f == [i \in Coords |-> NewModel.b[i] ++ (LambdaReg ** OptimisticBias)]
               T == {NewModel.b[i] ++ (LambdaReg ** OptimisticBias) : i \in Coords}
    <3>1. f \in [Coords -> T]
      OBVIOUS
    <3>2. b = Listed(f)
      BY DEF b, Vec
    <3> HIDE DEF f, T
    <3> QED BY <3>1, <3>2, VectorShaped
  <2> QED BY <1>7, <1>10, <2>2, <2>3 DEF Learnt, IsModel, Shaped
<1> QED BY <1>8, <1>9

LEMMA UpdatedLearnt ==
  ASSUME NEW m, NEW phi, NEW y
  PROVE  Learnt(Updated(m, phi, y))
<1> DEFINE residual == y -- Predict(m, phi)
           first  == EmaAlpha ** (residual ** residual)
           second == (One -- EmaAlpha) ** m.ema
           ema    == first ++ second
           aInv   == ShermanMorrison(m.aInv, phi)
           f      == [i \in Coords |-> m.b[i] ++ (phi[i] ** y)]
           b      == Vec(LAMBDA i : m.b[i] ++ (phi[i] ** y))
<1>1. Updated(m, phi, y) =
        [aInv |-> aInv, b |-> b, w |-> Apply(aInv, b), sigma2 |-> MaxFrac(ema, SigmaFloor),
         ema |-> ema, prevNorm2 |-> Dot(m.w, m.w), n |-> m.n + 1]
  BY DEF Updated
<1>2. ema # NotFinite
  <2> HIDE DEF first, second
  <2>1. \E p, q : ema = <<p, q>>
    BY DEF ++, Frac
  <2> HIDE DEF ema
  <2> QED BY <2>1 DEF NotFinite
<1>3. aInv = [i \in Coords |-> [j \in Coords |-> aInv[i][j]]]
  <2> HIDE DEF residual, first, second, ema, f, b
  <2> QED BY ShermanMorrisonShaped
<1>4. b = [i \in Coords |-> b[i]]
  <2>1. f \in [Coords -> {m.b[i] ++ (phi[i] ** y) : i \in Coords}]
    OBVIOUS
  <2>2. b = Listed(f)
    BY DEF Vec
  <2> HIDE DEF f, b
  <2> QED BY <2>1, <2>2, VectorShaped
<1> HIDE DEF ema, aInv, b
<1> QED BY <1>1, <1>2, <1>3, <1>4, FloorTwice DEF Learnt, IsModel, Shaped

\* Whatever the numbers are, an update leaves a learned model.
LEMMA UpdatesLearnt ==
  ASSUME NEW m, NEW phi, NEW y, NEW new \in UpdatesOf(m, phi, y)
  PROVE  Learnt(new)
<1>1. CASE new = Updated(m, phi, y)
  BY <1>1, UpdatedLearnt
<1>2. CASE new \in UpdatesLost(m, phi, y)
  <2> DEFINE aLost == \E i \in Coords : phi[i] = NotFinite \/ \E j \in Coords : m.aInv[i][j] = NotFinite
             none  == Mat(LAMBDA i, j : NotFinite)
             aInv  == IF aLost THEN none ELSE ShermanMorrison(m.aInv, phi)
             bOf(i) == IF NotFinite \in {m.b[i], phi[i], y} THEN NotFinite ELSE m.b[i] ++ (phi[i] ** y)
             f     == [i \in Coords |-> bOf(i)]
             b     == Vec(bOf)
             norm2 == IF \E i \in Coords : m.w[i] = NotFinite THEN NotFinite ELSE Dot(m.w, m.w)
             w     == Vec(LAMBDA i : NotFinite)
  <2>1. PICK sigma2 \in {NotFinite, SigmaFloor} :
          new = [aInv |-> aInv, b |-> b, w |-> w, sigma2 |-> sigma2, ema |-> NotFinite,
                 prevNorm2 |-> norm2, n |-> m.n + 1]
    BY <1>2 DEF UpdatesLost
  <2>2. aInv = [i \in Coords |-> [j \in Coords |-> aInv[i][j]]]
    <3>1. none = [i \in Coords |-> [j \in Coords |-> none[i][j]]]
      <4> DEFINE g == [i \in Coords |-> [j \in Coords |-> NotFinite]]
      <4>1. g \in [Coords -> [Coords -> {NotFinite}]]
        OBVIOUS
      <4>2. none = Listed([i \in Coords |-> Listed(g[i])])
        BY DEF Mat
      <4>3. PICK u, h, k : u = {NotFinite} /\ h = g /\ k = none
        OBVIOUS
      <4> HIDE DEF g, none
      <4>4. h \in [Coords -> [Coords -> u]] /\ k = Listed([i \in Coords |-> Listed(h[i])])
        BY <4>1, <4>2, <4>3
      <4>5. k = [i \in Coords |-> [j \in Coords |-> k[i][j]]]
        <5>1. k = h
          BY ONLY <4>4, ListedRows
        <5> QED BY ONLY <4>4, <5>1
      <4> QED BY <4>3, <4>5
    <3>2. PICK sm : sm = ShermanMorrison(m.aInv, phi)
      OBVIOUS
    <3>3. sm = [i \in Coords |-> [j \in Coords |-> sm[i][j]]]
      BY <3>2, ShermanMorrisonShaped
    <3>4. aInv = none \/ aInv = sm
      BY <3>2
    <3> HIDE DEF none, aInv
    <3> QED BY <3>1, <3>3, <3>4
  <2>3. b = [i \in Coords |-> b[i]]
    <3>1. b = Listed(f)
      BY DEF Vec
    <3> HIDE DEF bOf
    <3>2. f \in [Coords -> {bOf(i) : i \in Coords}]
      OBVIOUS
    <3> HIDE DEF f, b
    <3> QED BY <3>1, <3>2, VectorShaped
  <2> HIDE DEF aInv, b, w, norm2
  <2> QED BY <2>1, <2>2, <2>3 DEF Learnt, IsModel, Shaped, FiniteModel
<1> QED BY <1>1, <1>2 DEF UpdatesOf

-----------------------------------------------------------------------------
(* Files *)

LEMMA SanitizedIs ==
  ASSUME NEW v
  PROVE  /\ SanitizedF(v) # NotFinite
         /\ SanitizedF(v) = (IF v = NotFinite THEN Zero ELSE v)
<1>1. Zero # NotFinite
  BY DEF Zero, Whole, NotFinite
<1> QED BY <1>1 DEF SanitizedF

\* The file's model of a learned one, and what comes back
LEMMA RestoredModel ==
  ASSUME NEW m, Learnt(m)
  PROVE  /\ BroughtBack(m, Restored(SanitizedModel(Snapshot(m))))
         /\ Learnt(Restored(SanitizedModel(Snapshot(m))))
<1> DEFINE s == SanitizedModel(Snapshot(m))
           b == [i \in Coords |-> SanitizedF(m.b[i])]
           aInv == [i \in Coords |-> [j \in Coords |-> SanitizedF(m.aInv[i][j])]]
           floor(v) == MaxFrac(SanitizedF(v), SigmaFloor)
           r == [aInv |-> aInv, b |-> b, w |-> Apply(aInv, b), sigma2 |-> floor(m.sigma2),
                 ema |-> floor(m.ema), prevNorm2 |-> SanitizedF(m.prevNorm2), n |-> m.n]
<1>1. /\ s.precisionInverse.data = aInv /\ s.b.data = b /\ s.n = m.n
      /\ s.sigma2 = floor(m.sigma2) /\ s.ema = floor(m.ema)
      /\ s.prevNorm2 = SanitizedF(m.prevNorm2)
  <2>1. /\ s.precisionInverse = Matrix(m.aInv) /\ s.b = Vector(m.b) /\ s.n = m.n
        /\ s.sigma2 = floor(m.sigma2) /\ s.ema = floor(m.ema)
        /\ s.prevNorm2 = SanitizedF(m.prevNorm2)
    BY DEF SanitizedModel, Snapshot
  <2>2. Matrix(m.aInv).data = aInv /\ Vector(m.b).data = b
    BY VectorIs, MatrixIs
  <2> HIDE DEF s
  <2> QED BY <2>1, <2>2
<1>2. Restored(s) = r
  <2> HIDE DEF s, b, aInv, floor
  <2> QED BY <1>1 DEF Restored
<1>3. \A v : floor(v) # NotFinite /\ MaxFrac(floor(v), SigmaFloor) = floor(v)
  BY SanitizedIs, FloorTwice
<1>4. \A i \in Coords : /\ b[i] = SanitizedF(m.b[i])
                        /\ \A j \in Coords : aInv[i][j] = SanitizedF(m.aInv[i][j])
  OBVIOUS
<1>5. b = [i \in Coords |-> b[i]] /\ aInv = [i \in Coords |-> [j \in Coords |-> aInv[i][j]]]
  OBVIOUS
<1>6. FiniteModel(m) => b = m.b /\ aInv = m.aInv
  <2> SUFFICES ASSUME FiniteModel(m) PROVE b = m.b /\ aInv = m.aInv
    OBVIOUS
  <2>1. \A i \in Coords : /\ SanitizedF(m.b[i]) = m.b[i]
                          /\ \A j \in Coords : SanitizedF(m.aInv[i][j]) = m.aInv[i][j]
    BY DEF FiniteModel, SanitizedF
  <2>2. b = [i \in Coords |-> m.b[i]] /\ aInv = [i \in Coords |-> [j \in Coords |-> m.aInv[i][j]]]
    BY <2>1
  <2> HIDE DEF b, aInv
  <2> QED BY <2>2 DEF Learnt, Shaped
<1>7. \A i \in Coords : Apply(aInv, b)[i] # NotFinite
  <2> DEFINE f == [i \in Coords |-> Dot(aInv[i], b)]
  <2> HIDE DEF b, aInv
  <2>1. f \in [Coords -> {Dot(aInv[i], b) : i \in Coords}]
    OBVIOUS
  <2>2. Apply(aInv, b) = Listed(f)
    BY DEF Apply, Vec
  <2>3. \A i \in Coords : f[i] # NotFinite
    BY DotFinite
  <2> HIDE DEF f
  <2> QED BY <2>1, <2>2, <2>3, ListedIs
<1> HIDE DEF b, aInv, floor, s
<1>8. FiniteModel(r)
  <2>1. \A i \in Coords : b[i] # NotFinite /\ \A j \in Coords : aInv[i][j] # NotFinite
    BY <1>4, SanitizedIs
  <2>2. SanitizedF(m.prevNorm2) # NotFinite
    BY SanitizedIs
  <2> QED BY <1>3, <1>7, <2>1, <2>2 DEF FiniteModel
<1>9. FiniteModel(m) => r = [m EXCEPT !.ema = MaxFrac(@, SigmaFloor)]
  <2> SUFFICES ASSUME FiniteModel(m) PROVE r = [m EXCEPT !.ema = MaxFrac(@, SigmaFloor)]
    OBVIOUS
  <2>1. m \in [aInv : {m.aInv}, b : {m.b}, w : {m.w}, sigma2 : {m.sigma2}, ema : {m.ema},
               prevNorm2 : {m.prevNorm2}, n : {m.n}] /\ m.w = Apply(m.aInv, m.b)
    BY DEF Learnt, IsModel
  <2>2. /\ SanitizedF(m.prevNorm2) = m.prevNorm2 /\ floor(m.ema) = MaxFrac(m.ema, SigmaFloor)
        /\ floor(m.sigma2) = m.sigma2
    BY DEF FiniteModel, SanitizedF, Learnt, floor
  <2> QED BY <1>6, <2>1, <2>2
<1>10. BroughtBack(m, r)
  <2>1. \A i \in Coords :
          /\ r.b[i] = (IF m.b[i] = NotFinite THEN Zero ELSE m.b[i])
          /\ \A j \in Coords : r.aInv[i][j] = (IF m.aInv[i][j] = NotFinite THEN Zero ELSE m.aInv[i][j])
    BY <1>4, SanitizedIs
  <2> QED BY <1>8, <1>9, <2>1 DEF BroughtBack
<1>11. Learnt(r)
  BY <1>3, <1>5 DEF Learnt, IsModel, Shaped
<1> QED BY <1>2, <1>10, <1>11 DEF s

Ids == <<"A", "B", "C">>

LEMMA Keys ==
  /\ \A i \in 1 .. 3 : Ids[i] \in StrategyId /\ SortKey(Ids[i]) = i
  /\ \A sid \in StrategyId : SortKey(sid) \in 1 .. 3 /\ Ids[SortKey(sid)] = sid
<1>1. \A i, j \in 1 .. 3 : Ids[i] = Ids[j] => i = j
  BY DEF Ids
<1>2. \A sid \in StrategyId : \E i \in 1 .. 3 : Ids[i] = sid
  <2>1. Ids[1] = "A" /\ Ids[2] = "B" /\ Ids[3] = "C"
    BY DEF Ids
  <2> QED BY <2>1 DEF StrategyId
<1>3. \A sid : SortKey(sid) = CHOOSE i \in 1 .. 3 : Ids[i] = sid
  BY DEF SortKey, Ids
<1>4. \A i \in 1 .. 3 : Ids[i] \in StrategyId
  BY DEF Ids, StrategyId
<1>5. \A sid \in StrategyId : SortKey(sid) \in 1 .. 3 /\ Ids[SortKey(sid)] = sid
  BY <1>2, <1>3
<1> QED BY <1>1, <1>4, <1>5

\* A list in order stays as it is.
LEMMA Sorted ==
  ASSUME NEW list, DOMAIN list = 1 .. 3, \A i \in 1 .. 3 : list[i].id = Ids[i]
  PROVE  SortedByKey(list) = [i \in 1 .. 3 |-> list[i]]
<1> DEFINE Before(i, j) == \/ SortKey(list[i].id) < SortKey(list[j].id)
                           \/ SortKey(list[i].id) = SortKey(list[j].id) /\ i < j
           Orders(p) == \A i, j \in DOMAIN list : i < j => Before(p[i], p[j])
           place == CHOOSE p \in [DOMAIN list -> DOMAIN list] : Orders(p)
<1>1. \A i, j \in 1 .. 3 : Before(i, j) <=> i < j
  BY Keys
<1>2. SortedByKey(list) = [i \in DOMAIN list |-> list[place[i]]]
  BY DEF SortedByKey
<1> HIDE DEF Before
<1>3. \E p \in [DOMAIN list -> DOMAIN list] : Orders(p)
  <2> DEFINE id == [i \in 1 .. 3 |-> i]
  <2>1. id \in [DOMAIN list -> DOMAIN list]
    OBVIOUS
  <2>2. Orders(id)
    BY <1>1
  <2> QED BY <2>1, <2>2
<1>4. place \in [DOMAIN list -> DOMAIN list] /\ Orders(place)
  <2> HIDE DEF Orders
  <2> QED BY <1>3
<1> HIDE DEF place
<1>5. \A i, j \in 1 .. 3 : i < j => place[i] < place[j]
  <2>1. \A i \in 1 .. 3 : place[i] \in 1 .. 3
    BY <1>4
  <2> QED BY <1>1, <1>4, <2>1
<1>6. \A i \in 1 .. 3 : place[i] = i
  <2>1. place[1] \in 1 .. 3 /\ place[2] \in 1 .. 3 /\ place[3] \in 1 .. 3
    BY <1>4
  <2>2. place[1] < place[2] /\ place[2] < place[3]
    BY <1>5
  <2>3. place[1] = 1 /\ place[2] = 2 /\ place[3] = 3
    BY <2>1, <2>2
  <2> QED BY <2>3
<1> QED BY <1>2, <1>6

\* The file's form of a Q-function
StoredActions(q) == {[action |-> a, model |-> SanitizedModel(Snapshot(q[a]))] : a \in QAction}

StoredEntry(qs_, i) ==
  [id |-> Ids[i], q |-> [dim |-> Dim, sigma2 |-> InitialSigma2, bias |-> OptimisticBias,
                         actions |-> StoredActions(qs_[Ids[i]])]]

Stored(qs_) ==
  [version |-> SchemaVersion, features |-> "v1_38", strategies |-> [i \in 1 .. 3 |-> StoredEntry(qs_, i)]]

LEMMA StrategyIsStored ==
  ASSUME NEW sid, NEW q
  PROVE  SanitizedStrategy([id |-> sid, q |-> SnapshotQ(q)]) =
           [id |-> sid, q |-> [dim |-> Dim, sigma2 |-> InitialSigma2, bias |-> OptimisticBias,
                               actions |-> StoredActions(q)]]
<1> DEFINE entry(a) == [action |-> a, model |-> Snapshot(q[a])]
           acts  == {entry(a) : a \in QAction}
           Clean(e) == [e EXCEPT !.model = SanitizedModel(@)]
           clean == {Clean(e) : e \in acts}
           stored(a) == [action |-> a, model |-> SanitizedModel(Snapshot(q[a]))]
           s == [id |-> sid, q |-> SnapshotQ(q)]
<1>1. clean = StoredActions(q)
  <2>1. \A a \in QAction : Clean(entry(a)) = stored(a)
    OBVIOUS
  <2>2. StoredActions(q) = {stored(a) : a \in QAction}
    BY DEF StoredActions
  <2> HIDE DEF entry, stored, Clean
  <2> QED BY <2>1, <2>2
<1>2. SanitizedStrategy(s) = [s EXCEPT !.q.actions = clean]
  <2>1. s.q.actions = acts
    BY DEF SnapshotQ
  <2>2. SanitizedStrategy(s) = [s EXCEPT !.q.actions = {Clean(e) : e \in s.q.actions}]
    BY DEF SanitizedStrategy
  <2> HIDE DEF acts, Clean, s
  <2> QED BY <2>1, <2>2
<1> HIDE DEF clean
<1> QED BY <1>1, <1>2 DEF SnapshotQ

LEMMA ExportIsStored ==
  ASSUME NEW q
  PROVE  SanitizedSet(ExportedQ(q)) = Stored(q)
<1> DEFINE entry(i) == [id |-> Ids[i], q |-> SnapshotQ(q[Ids[i]])]
           list == [i \in 1 .. 3 |-> entry(i)]
           set  == [version |-> SchemaVersion, features |-> "v1_38", strategies |-> list]
           cleaned == [i \in DOMAIN list |-> SanitizedStrategy(list[i])]
<1>1. ExportedQ(q) = SnapshotSet(list)
  BY DEF ExportedQ, Ids
<1>2. SortedByKey(list) = list
  <2>1. DOMAIN list = 1 .. 3 /\ \A i \in 1 .. 3 : list[i].id = Ids[i]
    OBVIOUS
  <2>2. list = [i \in 1 .. 3 |-> list[i]]
    OBVIOUS
  <2> HIDE DEF list
  <2> QED BY <2>1, <2>2, Sorted
<1>3. ExportedQ(q) = set
  BY <1>1, <1>2 DEF SnapshotSet
<1>4. \A i \in 1 .. 3 : SanitizedStrategy(entry(i)) = StoredEntry(q, i)
  BY StrategyIsStored DEF StoredEntry
<1>5. cleaned = [i \in 1 .. 3 |-> StoredEntry(q, i)]
  <2>1. DOMAIN list = 1 .. 3 /\ \A i \in 1 .. 3 : list[i] = entry(i)
    OBVIOUS
  <2> HIDE DEF list, entry
  <2> QED BY <1>4, <2>1
<1>6. SanitizedSet(set) = [set EXCEPT !.strategies = cleaned]
  <2>1. SanitizedSet(set) =
          [set EXCEPT !.strategies =
             [i \in DOMAIN set.strategies |-> SanitizedStrategy(set.strategies[i])]]
    BY DEF SanitizedSet
  <2>2. set.strategies = list
    OBVIOUS
  <2> HIDE DEF list, set
  <2> QED BY <2>1, <2>2
<1> HIDE DEF cleaned, list
<1> QED BY <1>3, <1>5, <1>6 DEF Stored

\* Q-functions that hold learned models only
LearntQs(q) ==
  /\ DOMAIN q = StrategyId
  /\ \A sid \in StrategyId : DOMAIN q[sid] = QAction /\ \A a \in QAction : Learnt(q[sid][a])

\* A set of which all that is restored is learned
GoodSet(set) ==
  /\ DOMAIN set.strategies \subseteq Nat
  /\ \A i \in DOMAIN set.strategies : \A e \in set.strategies[i].q.actions : Learnt(Restored(e.model))

\* A model in the file is the one of an action.
LEMMA StoredModels ==
  ASSUME NEW q, LearntQs(q), NEW i \in 1 .. 3
  PROVE  /\ \A e \in StoredEntry(q, i).q.actions : Learnt(Restored(e.model))
         /\ \A a \in QAction : \A e \in StoredEntry(q, i).q.actions :
              e.action = a => BroughtBack(q[Ids[i]][a], Restored(e.model))
         /\ \A a \in QAction : \E e \in StoredEntry(q, i).q.actions : e.action = a
<1>1. Ids[i] \in StrategyId
  BY Keys
<1> DEFINE p == q[Ids[i]]
           entry(a) == [action |-> a, model |-> SanitizedModel(Snapshot(p[a]))]
<1>2. \A a \in QAction : Learnt(p[a])
  BY <1>1 DEF LearntQs
<1> HIDE DEF p
<1>3. \A a \in QAction : /\ BroughtBack(p[a], Restored(entry(a).model))
                         /\ Learnt(Restored(entry(a).model))
  BY <1>2, RestoredModel
<1>4. StoredEntry(q, i).q.actions = {entry(a) : a \in QAction}
  BY DEF StoredEntry, StoredActions, p
<1>5. \A a : entry(a).action = a
  OBVIOUS
<1> HIDE DEF entry
<1>6. \A e \in StoredEntry(q, i).q.actions : \E a \in QAction : e = entry(a)
  BY <1>4
<1>7. \A a \in QAction : entry(a) \in StoredEntry(q, i).q.actions
  BY <1>4
<1>8. \A e \in StoredEntry(q, i).q.actions : Learnt(Restored(e.model))
  BY <1>3, <1>6
<1>9. ASSUME NEW a \in QAction, NEW e \in StoredEntry(q, i).q.actions, e.action = a
      PROVE  BroughtBack(p[a], Restored(e.model))
  <2>1. e = entry(a)
    BY <1>5, <1>6, <1>9
  <2> QED BY <1>3, <2>1
<1>10. \A a \in QAction : \E e \in StoredEntry(q, i).q.actions : e.action = a
  BY <1>5, <1>7
<1> QED BY <1>8, <1>9, <1>10 DEF p

LEMMA StoredShape ==
  ASSUME NEW q
  PROVE  /\ Stored(q) \in [version : {SchemaVersion}, features : {"v1_38"},
                           strategies : {Stored(q).strategies}]
         /\ DOMAIN Stored(q).strategies = 1 .. 3
         /\ \A i \in 1 .. 3 : Stored(q).strategies[i] = StoredEntry(q, i)
BY DEF Stored

LEMMA StoredGood ==
  ASSUME NEW q, LearntQs(q)
  PROVE  GoodSet(Stored(q))
BY StoredShape, StoredModels DEF GoodSet

\* Where the entries of a strategy are, in a list that has its key where the file has it
LEMMA EntryIs ==
  ASSUME NEW set, DOMAIN set.strategies = 1 .. 3, NEW sid \in StrategyId,
         \A i \in 1 .. 3 : set.strategies[i].id = Ids[i]
  PROVE  StrategyOf(set, sid) = set.strategies[SortKey(sid)]
<1>1. SortKey(sid) \in 1 .. 3 /\ EntriesOf(set, sid) = {SortKey(sid)}
  BY Keys DEF EntriesOf
<1>2. \A n \in 1 .. 3 : Min({n}) = n
  BY DEF Min
<1> QED BY <1>1, <1>2 DEF StrategyOf

LEMMA RestoredStored ==
  ASSUME NEW q, LearntQs(q), NEW sid \in StrategyId, NEW a \in QAction
  PROVE  BroughtBack(q[sid][a], RestoredQ(StrategyOf(Stored(q), sid).q)[a])
<1>1. PICK i \in 1 .. 3 : SortKey(sid) = i /\ Ids[i] = sid
  BY Keys
<1>2. StrategyOf(Stored(q), sid) = StoredEntry(q, i)
  <2>1. \A j \in 1 .. 3 : Stored(q).strategies[j].id = Ids[j]
    <3>1. \A j \in 1 .. 3 : Stored(q).strategies[j] = StoredEntry(q, j)
      BY StoredShape
    <3>2. \A j \in 1 .. 3 : StoredEntry(q, j).id = Ids[j]
      BY DEF StoredEntry
    <3> QED BY <3>1, <3>2
  <2> QED BY <1>1, <2>1, StoredShape, EntryIs
<1> DEFINE s == StoredEntry(q, i).q
           e == CHOOSE e \in s.actions : e.action = a
<1>3. e \in s.actions /\ e.action = a
  <2>1. \E x \in s.actions : x.action = a
    BY StoredModels
  <2> QED BY <2>1
<1>4. RestoredQ(s)[a] = Restored(e.model)
  BY DEF RestoredQ
<1>5. BroughtBack(q[Ids[i]][a], Restored(e.model))
  <2> HIDE DEF e
  <2> QED BY <1>3, StoredModels
<1> HIDE DEF e, s
<1> QED BY <1>1, <1>2, <1>4, <1>5 DEF s

\* What a good set restores is learned.
LEMMA RestoredGood ==
  ASSUME NEW set, GoodSet(set), NEW sid, Restorable(set, sid), NEW a \in QAction
  PROVE  Learnt(RestoredQ(StrategyOf(set, sid).q)[a])
<1> DEFINE E == EntriesOf(set, sid)
           i == Min(E)
<1>1. E # {} /\ E \subseteq DOMAIN set.strategies /\ E \in SUBSET Nat
  BY DEF Restorable, EntriesOf, GoodSet
<1>2. i \in E
  <2> HIDE DEF E
  <2>1. \E x \in E : \A y \in E : x <= y
    BY <1>1, LeastNumber
  <2> QED BY <2>1 DEF Min
<1>3. StrategyOf(set, sid) = set.strategies[i]
  BY DEF StrategyOf
<1> HIDE DEF E, i
<1> DEFINE s == set.strategies[i].q
           e == CHOOSE e \in s.actions : e.action = a
<1>4. \A x \in s.actions : Learnt(Restored(x.model))
  BY <1>1, <1>2 DEF GoodSet
<1>5. {x.action : x \in s.actions} = QAction
  BY <1>3 DEF Restorable, AcceptedQ
<1>6. e \in s.actions
  <2> HIDE DEF s
  <2>1. \E x \in s.actions : x.action = a
    BY <1>5
  <2> QED BY <2>1
<1>7. RestoredQ(s)[a] = Restored(e.model)
  BY DEF RestoredQ
<1> HIDE DEF e
<1> QED BY <1>3, <1>4, <1>6, <1>7

LEMMA ModelShape ==
  ASSUME NEW m, NEW s, s = SanitizedModel(Snapshot(m))
  PROVE  s \in [dim : {s.dim}, mean : {s.mean}, covariance : {s.covariance},
                precisionInverse : {s.precisionInverse}, b : {s.b}, sigma2 : {s.sigma2},
                emaAlpha : {s.emaAlpha}, ema : {s.ema}, lambdaReg : {s.lambdaReg},
                prevNorm2 : {s.prevNorm2}, n : {s.n}, threshold : {s.threshold}]
<1> DEFINE r == Snapshot(m)
<1>1. r \in [dim : {r.dim}, mean : {r.mean}, covariance : {r.covariance},
             precisionInverse : {r.precisionInverse}, b : {r.b}, sigma2 : {r.sigma2},
             emaAlpha : {r.emaAlpha}, ema : {r.ema}, lambdaReg : {r.lambdaReg},
             prevNorm2 : {r.prevNorm2}, n : {r.n}, threshold : {r.threshold}]
  BY DEF Snapshot
<1> HIDE DEF r
<1>2. PICK u, v, w, x, y, z :
        s = [r EXCEPT !.sigma2 = u, !.ema = v, !.lambdaReg = w, !.emaAlpha = x, !.prevNorm2 = y,
                      !.threshold = z]
  BY DEF SanitizedModel, r
<1> QED BY <1>1, <1>2

\* What a set that was changed restores is learned too, but it does not restore all of it.
LEMMA TamperedRefused ==
  ASSUME NEW q, LearntQs(q), NEW set \in Tampered(Stored(q))
  PROVE  GoodSet(set) /\ ~ImportOk(set)
<1> DEFINE old == Stored(q).strategies
<1>1. /\ DOMAIN old = 1 .. 3 /\ \A i \in 1 .. 3 : old[i] = StoredEntry(q, i)
      /\ Stored(q) \in [version : {SchemaVersion}, features : {"v1_38"}, strategies : {old}]
  BY StoredShape
<1>2. \A i \in 1 .. 3 : \A e \in old[i].q.actions : Learnt(Restored(e.model))
  BY <1>1, StoredModels
<1>3. \A i \in 1 .. 3 : old[i] \in [id : {Ids[i]}, q : {old[i].q}]
  <2>1. \A i \in 1 .. 3 : StoredEntry(q, i) \in [id : {Ids[i]}, q : {StoredEntry(q, i).q}]
    BY DEF StoredEntry
  <2> QED BY <1>1, <2>1
<1>4. \A i \in 1 .. 3 : old[i].q \in [dim : {Dim}, sigma2 : {InitialSigma2}, bias : {OptimisticBias},
                                      actions : {old[i].q.actions}]
  <2>1. \A i \in 1 .. 3 : StoredEntry(q, i).q \in
           [dim : {Dim}, sigma2 : {InitialSigma2}, bias : {OptimisticBias},
            actions : {StoredEntry(q, i).q.actions}]
    BY DEF StoredEntry
  <2> QED BY <1>1, <2>1
<1>5. old \in Seq({old[i] : i \in 1 .. 3}) /\ Len(old) = 3
  <2>1. old = [i \in 1 .. 3 |-> StoredEntry(q, i)]
    BY DEF Stored
  <2>2. \A i \in 1 .. 3 : StoredEntry(q, i) \in {old[j] : j \in 1 .. 3}
    BY <1>1
  <2> HIDE DEF old
  <2> QED BY <2>1, <2>2
<1>6. PICK t : Stored(q) = t /\ t \in [version : {SchemaVersion}, features : {"v1_38"}, strategies : {old}]
  BY <1>1
<1> HIDE DEF old
<1>7. set \in Tampered(t)
  BY <1>6
<1>8. CASE set = [t EXCEPT !.version = 2]
  <2>1. set.version = 2 /\ set.strategies = old
    BY <1>6, <1>8
  <2>2. ~WellFormed(set)
    BY <2>1 DEF WellFormed, SchemaVersion
  <2> QED BY <1>1, <1>2, <2>1, <2>2 DEF GoodSet, ImportOk
<1>9. CASE set = [t EXCEPT !.strategies = Tail(@)]
  <2>1. set.strategies = Tail(old)
    BY <1>6, <1>9
  <2>2. /\ Len(Tail(old)) = 2 /\ DOMAIN Tail(old) = 1 .. 2
        /\ \A i \in 1 .. 2 : Tail(old)[i] = old[i + 1]
    <3>1. PICK T : old \in Seq(T)
      BY <1>5
    <3>2. old # <<>>
      BY <1>5
    <3>3. /\ Tail(old) \in Seq(T) /\ Len(Tail(old)) = Len(old) - 1
          /\ \A i \in 1 .. Len(Tail(old)) : Tail(old)[i] = old[i + 1]
      BY <3>1, <3>2, HeadTailProperties
    <3>4. Len(Tail(old)) = 2
      BY <1>5, <3>3
    <3>5. DOMAIN Tail(old) = 1 .. Len(Tail(old))
      BY <3>3
    <3> QED BY <3>3, <3>4, <3>5
  <2>3. GoodSet(set)
    BY <1>2, <2>1, <2>2 DEF GoodSet
  <2>4. ~WellFormed(set)
    <3>1. Len(set.strategies) = 2
      BY <2>1, <2>2
    <3> QED BY <3>1 DEF WellFormed
  <2> QED BY <2>3, <2>4 DEF ImportOk
<1>10. CASE set = [t EXCEPT !.strategies[3].id = "A"]
  <2>1. set.strategies = [old EXCEPT ![3].id = "A"]
    BY <1>6, <1>10
  <2>2. \A i \in 1 .. 3 : set.strategies[i].q = old[i].q /\ set.strategies[i].id # "C"
    <3>1. old[1].id = "A" /\ old[2].id = "B"
      BY <1>3 DEF Ids
    <3> QED BY <1>1, <1>3, <2>1, <3>1
  <2>3. GoodSet(set)
    BY <1>1, <1>2, <2>1, <2>2 DEF GoodSet
  <2>4. EntriesOf(set, "C") = {}
    BY <1>1, <2>1, <2>2 DEF EntriesOf
  <2>5. ~Restorable(set, "C")
    BY <2>4 DEF Restorable
  <2>6. "C" \notin RestoredIds(set)
    BY <2>5, Keys DEF RestoredIds
  <2> QED BY <2>3, <2>6 DEF ImportOk, StrategyId
<1>11. CASE set = [t EXCEPT !.strategies[2].q.dim = Dim + 1]
  <2>1. set.strategies = [old EXCEPT ![2].q.dim = Dim + 1]
    BY <1>6, <1>11
  <2>2. \A i \in 1 .. 3 : /\ set.strategies[i].q.actions = old[i].q.actions
                          /\ set.strategies[i].id = Ids[i]
    BY <1>1, <1>3, <1>4, <2>1
  <2>3. GoodSet(set)
    BY <1>1, <1>2, <2>1, <2>2 DEF GoodSet
  <2>4. set.strategies[2].q.dim = Dim + 1
    BY <1>1, <1>3, <1>4, <2>1
  <2>5. StrategyOf(set, "B") = set.strategies[2]
    <3>1. SortKey("B") = 2 /\ "B" \in StrategyId
      BY Keys DEF Ids
    <3>2. DOMAIN set.strategies = 1 .. 3
      BY <1>1, <2>1
    <3> QED BY <2>2, <3>1, <3>2, EntryIs
  <2>6. Dim + 1 # Dim
    BY QAssumption
  <2>7. ~Restorable(set, "B")
    BY <2>4, <2>5, <2>6 DEF Restorable
  <2>8. "B" \notin RestoredIds(set)
    BY <2>7, Keys DEF RestoredIds
  <2> QED BY <2>3, <2>8 DEF ImportOk, StrategyId
<1>12. CASE set = [t EXCEPT !.strategies[3].q.actions =
                     {[e EXCEPT !.model.lambdaReg = Zero] : e \in @}]
  <2> DEFINE Without(e) == [e EXCEPT !.model.lambdaReg = Zero]
             was == old[3].q.actions
             acts == {Without(e) : e \in was}
  <2>1. set.strategies = [old EXCEPT ![3].q.actions = acts]
    BY <1>6, <1>12
  <2>2. /\ DOMAIN set.strategies = 1 .. 3
        /\ \A i \in 1 .. 3 : set.strategies[i].id = Ids[i]
        /\ \A i \in 1 .. 2 : set.strategies[i].q = old[i].q
        /\ set.strategies[3].q.actions = acts
    <3> HIDE DEF acts
    <3> QED BY <1>1, <1>3, <1>4, <2>1
  <2>3. \A e \in was : e \in [action : {e.action}, model : {e.model}]
    <3>1. was = StoredActions(q[Ids[3]])
      BY <1>1 DEF StoredEntry
    <3> QED BY <3>1 DEF StoredActions
  <2>4. \A e \in was : e.model \in [dim : {e.model.dim}, mean : {e.model.mean},
           covariance : {e.model.covariance}, precisionInverse : {e.model.precisionInverse},
           b : {e.model.b}, sigma2 : {e.model.sigma2}, emaAlpha : {e.model.emaAlpha},
           ema : {e.model.ema}, lambdaReg : {e.model.lambdaReg}, prevNorm2 : {e.model.prevNorm2},
           n : {e.model.n}, threshold : {e.model.threshold}]
    <3>1. was = StoredActions(q[Ids[3]])
      BY <1>1 DEF StoredEntry
    <3>2. \A e \in was : \E m : e.model = SanitizedModel(Snapshot(m))
      BY <3>1 DEF StoredActions
    <3> QED BY <3>2, ModelShape
  <2>5. \A e \in was : /\ Without(e).model.lambdaReg = Zero
                       /\ Restored(Without(e).model) = Restored(e.model)
    BY <2>3, <2>4 DEF Restored
  <2>6. \A e \in acts : e.model.lambdaReg = Zero /\ Learnt(Restored(e.model))
    <3>1. \A e \in was : Learnt(Restored(e.model))
      BY <1>2
    <3> HIDE DEF Without, was
    <3> QED BY <2>5, <3>1
  <2>7. GoodSet(set)
    <3> HIDE DEF acts
    <3>1. \A i \in 1 .. 3 : \A e \in set.strategies[i].q.actions : Learnt(Restored(e.model))
      <4> SUFFICES ASSUME NEW i \in 1 .. 3, NEW e \in set.strategies[i].q.actions
                   PROVE  Learnt(Restored(e.model))
        OBVIOUS
      <4>1. CASE i = 3
        BY <2>2, <2>6, <4>1
      <4>2. CASE i \in 1 .. 2
        BY <1>2, <2>2, <4>2
      <4> QED BY <4>1, <4>2
    <3> QED BY <2>2, <3>1 DEF GoodSet
  <2>8. StrategyOf(set, "C") = set.strategies[3]
    <3>1. SortKey("C") = 3 /\ "C" \in StrategyId
      BY Keys DEF Ids
    <3> QED BY <2>2, <3>1, EntryIs
  <2>9. ~Restorable(set, "C")
    <3> SUFFICES ASSUME Restorable(set, "C") PROVE FALSE
      OBVIOUS
    <3> HIDE DEF acts
    <3>1. AcceptedQ(set.strategies[3].q)
      BY <2>8 DEF Restorable
    <3>2. {e.action : e \in acts} = QAction /\ \A e \in acts : Accepted(e.model)
      BY <2>2, <3>1 DEF AcceptedQ
    <3>3. PICK e \in acts : e.action = "Buy"
      BY <3>2 DEF QAction
    <3>4. Zero \prec Zero
      BY <2>6, <3>2, <3>3 DEF Accepted
    <3> QED BY <3>4 DEF \prec, Zero, Whole
  <2>10. "C" \notin RestoredIds(set)
    BY <2>9, Keys DEF RestoredIds
  <2> QED BY <2>7, <2>10 DEF ImportOk, StrategyId
<1> QED BY <1>7, <1>8, <1>9, <1>10, <1>11, <1>12 DEF Tampered

-----------------------------------------------------------------------------
(* What an import restores *)

\* All models are learned, those that are held, those that were exported and those a file
\* restores; a file is what was exported, or one that is refused at some strategy.
StateInv ==
  /\ LearntQs(qs)
  /\ \A e \in exported : LearntQs(e) /\ \A f \in file : f.set = Stored(e)
  /\ \A f \in file : /\ f \in [format : {f.format}, set : {f.set}] /\ GoodSet(f.set)
                     /\ exported = {} => ~ImportOk(f.set)
  /\ ImportRestores

LEMMA ImportedLearnt ==
  ASSUME NEW q, LearntQs(q), NEW set, GoodSet(set)
  PROVE  LearntQs(Imported(q, set))
<1>1. CASE ~WellFormed(set)
  BY <1>1 DEF Imported
<1>2. CASE WellFormed(set)
  <2> DEFINE new(sid) == IF sid \in RestoredIds(set) THEN RestoredQ(StrategyOf(set, sid).q) ELSE q[sid]
  <2>1. Imported(q, set) = [sid \in StrategyId |-> new(sid)]
    BY <1>2 DEF Imported
  <2>2. ASSUME NEW sid \in StrategyId
        PROVE  DOMAIN new(sid) = QAction /\ \A a \in QAction : Learnt(new(sid)[a])
    <3>1. CASE sid \in RestoredIds(set)
      <4>1. Restorable(set, sid)
        BY <3>1, Keys DEF RestoredIds
      <4>2. new(sid) = RestoredQ(StrategyOf(set, sid).q)
        BY <3>1
      <4>3. DOMAIN RestoredQ(StrategyOf(set, sid).q) = QAction
        BY DEF RestoredQ
      <4>4. \A a \in QAction : Learnt(RestoredQ(StrategyOf(set, sid).q)[a])
        BY <4>1, RestoredGood
      <4> HIDE DEF new
      <4> QED BY <4>2, <4>3, <4>4
    <3>2. CASE sid \notin RestoredIds(set)
      BY <3>2 DEF LearntQs
    <3> QED BY <3>1, <3>2
  <2> HIDE DEF new
  <2> QED BY <2>1, <2>2 DEF LearntQs
<1> QED BY <1>1, <1>2

LEMMA StateInit ==
  ASSUME Init, SigmaFloor \preceq InitialSigma2
  PROVE  StateInv
<1>1. file = {} /\ exported = {} /\ restored = FALSE /\ qs = [s \in StrategyId |-> NewQ]
  BY DEF Init
<1>2. LearntQs(qs)
  <2>1. \A a \in QAction : NewQ[a] = Optimistic(a, NewModel)
    BY DEF NewQ
  <2>2. \A a \in QAction : Learnt(Optimistic(a, NewModel))
    BY NewLearnt DEF Optimistic
  <2>3. DOMAIN NewQ = QAction
    BY DEF NewQ
  <2> QED BY <1>1, <2>1, <2>2, <2>3 DEF LearntQs
<1> QED BY <1>1, <1>2 DEF StateInv, ImportRestores

LEMMA StateStep ==
  ASSUME StateInv, [Next]_vars
  PROVE  StateInv'
<1>1. LearntQs(qs) /\ ImportRestores
  BY DEF StateInv
<1>2. CASE UNCHANGED stateVars
  <2>1. qs' = qs /\ file' = file /\ exported' = exported /\ restored' = restored
    BY <1>2 DEF stateVars
  <2>2. ImportRestores'
    <3> DEFINE Back(q, e) == \A sid \in StrategyId : \A a \in QAction :
                               BroughtBack(e[sid][a], q[sid][a])
    <3>1. restored => \E e \in exported : Back(qs, e)
      BY <1>1 DEF ImportRestores
    <3>2. (restored' => \E e \in exported' : Back(qs', e)) => ImportRestores'
      BY DEF ImportRestores
    <3> HIDE DEF Back
    <3> QED BY <2>1, <3>1, <3>2
  <2> QED BY <2>1, <2>2 DEF StateInv
<1>3. CASE UpdateStep
  <2>1. restored' = FALSE /\ file' = file /\ exported' = exported
    BY <1>3 DEF UpdateStep
  <2>4. PICK sid \in StrategyId, a \in QAction, o \in Observations :
          \E m \in UpdatesOf(qs[sid][a], o.phi, o.y) : qs' = [qs EXCEPT ![sid][a] = m]
    BY <1>3 DEF UpdateStep, QAction
  <2>2. PICK m \in UpdatesOf(qs[sid][a], o.phi, o.y) : qs' = [qs EXCEPT ![sid][a] = m]
    BY <2>4
  <2>3. LearntQs(qs')
    <3>1. Learnt(m)
      BY <2>2, UpdatesLearnt
    <3> QED BY <1>1, <2>2, <3>1 DEF LearntQs
  <2> QED BY <2>1, <2>3 DEF StateInv, ImportRestores
<1>4. CASE ExportStep
  <2>1. restored' = FALSE /\ qs' = qs
    BY <1>4 DEF ExportStep
  <2>2. PICK extension, diskOk, written :
          /\ written = Written(ExportedQ(qs), extension, diskOk)
          /\ file' = IF written = {} THEN file ELSE written
          /\ exported' = IF written = {} THEN exported ELSE {qs}
    BY <1>4 DEF ExportStep
  <2>3. CASE written = {}
    BY <2>1, <2>2, <2>3 DEF StateInv, ImportRestores
  <2>4. CASE written # {}
    <3>1. PICK fm : written = {[format |-> fm, set |-> Stored(qs)]}
      BY <2>2, <2>4, ExportIsStored DEF Written
    <3>2. file' = {[format |-> fm, set |-> Stored(qs)]} /\ exported' = {qs}
      BY <2>2, <2>4, <3>1
    <3>3. GoodSet(Stored(qs))
      BY <1>1, StoredGood
    <3>4. \A f \in file' : f \in [format : {f.format}, set : {f.set}] /\ f.set = Stored(qs)
      BY <3>2
    <3> QED BY <1>1, <2>1, <3>2, <3>3, <3>4 DEF StateInv, ImportRestores
  <2> QED BY <2>3, <2>4
<1>5. CASE TamperStep
  <2>1. exported # {} /\ exported' = {} /\ restored' = FALSE /\ qs' = qs
    BY <1>5 DEF TamperStep
  <2>2. PICK e \in exported : LearntQs(e) /\ \A f \in file : f.set = Stored(e)
    BY <2>1 DEF StateInv
  <2>3. PICK f \in file, set \in UNION {Tampered(g.set) : g \in file} :
          file' = {[f EXCEPT !.set = set]}
    BY <1>5 DEF TamperStep
  <2>4. set \in Tampered(Stored(e))
    BY <2>2, <2>3
  <2>5. GoodSet(set) /\ ~ImportOk(set)
    BY <2>2, <2>4, TamperedRefused
  <2>6. f \in [format : {f.format}, set : {f.set}]
    BY DEF StateInv
  <2>7. \A h \in file' : h \in [format : {h.format}, set : {h.set}] /\ h.set = set
    BY <2>3, <2>6
  <2> QED BY <1>1, <2>1, <2>5, <2>7 DEF StateInv, ImportRestores
<1>6. CASE ImportStep
  <2>1. file' = file /\ exported' = exported
    BY <1>6 DEF ImportStep
  <2>2. PICK f \in file : qs' = Imported(qs, f.set) /\ restored' = ImportOk(f.set)
    BY <1>6 DEF ImportStep, ReadBack
  <2>3. LearntQs(qs')
    BY <1>1, <2>2, ImportedLearnt DEF StateInv
  <2>4. ImportRestores'
    <3> SUFFICES ASSUME restored' PROVE ImportRestores'
      BY DEF ImportRestores
    <3>1. ImportOk(f.set)
      BY <2>2
    <3>2. PICK e \in exported : LearntQs(e) /\ f.set = Stored(e)
      BY <3>1 DEF StateInv
    <3>3. qs' = [sid \in StrategyId |-> RestoredQ(StrategyOf(Stored(e), sid).q)]
      BY <2>2, <3>1, <3>2 DEF Imported, ImportOk
    <3>4. \A sid \in StrategyId : \A a \in QAction :
            BroughtBack(e[sid][a], qs'[sid][a])
      BY <3>2, <3>3, RestoredStored
    <3> QED BY <2>1, <3>2, <3>4 DEF ImportRestores
  <2> QED BY <2>1, <2>3, <2>4 DEF StateInv
<1>7. [Next]_vars => UNCHANGED stateVars \/ UpdateStep \/ ExportStep \/ TamperStep \/ ImportStep
  BY DEF Next, vars, StartEpisodeStep, RecordStep, EndEpisodeStep, DecideStep, ResetTrackerStep,
         ObserveStep, ClearStep, DecayStep, ResetFeatureStep, ResetDetectorStep, TickStep
<1> QED BY <1>2, <1>3, <1>4, <1>5, <1>6, <1>7

\* An import that ends without an error brings back the state that was exported, for every
\* strategy, action, format and number of updates, as far as it was finite: a model with a number
\* that is not, which an update by such an observation leaves, comes back with zeros in place of
\* these, and finite.  The first sigma2 is at least its floor (engine.rs export_q_state and
\* import_q_state, q_state.rs).
THEOREM ImportBringsBackTheExport ==
  ASSUME SigmaFloor \preceq InitialSigma2
  PROVE  Spec => []ImportRestores
<1>1. Init => StateInv
  BY StateInit
<1>2. StateInv /\ [Next]_vars => StateInv'
  BY StateStep
<1>3. StateInv => ImportRestores
  BY DEF StateInv
<1> QED BY <1>1, <1>2, <1>3, PTL DEF Spec

-----------------------------------------------------------------------------
(* The regression: vectors of fractions in lowest terms *)

Vectors == [Coords -> Lowest]

Along(x, c, y) == [i \in Coords |-> x[i] ++ (c ** y[i])]
Origin == [i \in Coords |-> Zero]

\* A vector moved along another
LEMMA AlongIs ==
  ASSUME NEW x \in Vectors, NEW y \in Vectors, NEW c \in Lowest
  PROVE  Along(x, c, y) \in Vectors /\ \A i \in Coords : Along(x, c, y)[i] = x[i] ++ (c ** y[i])
<1>1. \A i \in Coords : x[i] \in Lowest /\ y[i] \in Lowest
  BY DEF Vectors
<1>2. \A i \in Coords : x[i] ++ (c ** y[i]) \in Lowest
  BY <1>1, Ring
<1> QED BY <1>2 DEF Along, Vectors

\* The scalar product of vectors in lowest terms: in lowest terms, commutative, linear, and never
\* negative on the diagonal
LEMMA DotLowest ==
  ASSUME NEW x \in Vectors, NEW y \in Vectors
  PROVE  Dot(x, y) \in Lowest
<1>1. PICK f : /\ Dot(x, y) = f[Dim] /\ f[0] = Zero
               /\ \A k \in 1 .. Dim : f[k] = f[k - 1] ++ (x[k] ** y[k])
  BY DotIs
<1> DEFINE S == {n \in Int : f[n] \in Lowest}
<1>2. 0 \in S
  <2>1. Zero \in Lowest
    BY Ring
  <2> QED BY <1>1, <2>1
<1>3. ASSUME NEW n \in 0 .. Dim - 1, n \in S
      PROVE  n + 1 \in S
  <2>1. n + 1 \in Coords /\ (n + 1) - 1 = n /\ n \in Int /\ n + 1 \in Int
    BY QAssumption DEF Coords
  <2>2. f[n + 1] = f[n] ++ (x[n + 1] ** y[n + 1])
    BY <1>1, <2>1 DEF Coords
  <2>3. x[n + 1] \in Lowest /\ y[n + 1] \in Lowest
    BY <2>1 DEF Vectors
  <2>4. x[n + 1] ** y[n + 1] \in Lowest /\ f[n] \in Lowest
    BY <1>3, <2>3, Ring
  <2>5. f[n] ++ (x[n + 1] ** y[n + 1]) \in Lowest
    BY <2>4, Ring
  <2> QED BY <2>1, <2>2, <2>5
<1>4. 0 .. Dim \subseteq S
  <2>1. 0 \in Int /\ Dim \in Int
    BY QAssumption
  <2> HIDE DEF S
  <2> QED BY <1>2, <1>3, <2>1, IntervalInduction
<1>5. Dim \in S
  BY <1>4, QAssumption
<1> QED BY <1>1, <1>5

LEMMA DotCommutes ==
  ASSUME NEW x \in Vectors, NEW y \in Vectors
  PROVE  Dot(x, y) = Dot(y, x)
<1>1. PICK f : /\ Dot(x, y) = f[Dim] /\ f[0] = Zero
               /\ \A k \in 1 .. Dim : f[k] = f[k - 1] ++ (x[k] ** y[k])
  BY DotIs
<1>2. PICK g : /\ Dot(y, x) = g[Dim] /\ g[0] = Zero
               /\ \A k \in 1 .. Dim : g[k] = g[k - 1] ++ (y[k] ** x[k])
  BY DotIs
<1> DEFINE S == {n \in Int : f[n] = g[n]}
<1>3. 0 \in S
  BY <1>1, <1>2
<1>4. ASSUME NEW n \in 0 .. Dim - 1, n \in S
      PROVE  n + 1 \in S
  <2>1. n + 1 \in Coords /\ (n + 1) - 1 = n /\ n \in Int /\ n + 1 \in Int
    BY QAssumption DEF Coords
  <2>2. f[n + 1] = f[n] ++ (x[n + 1] ** y[n + 1]) /\ g[n + 1] = g[n] ++ (y[n + 1] ** x[n + 1])
    BY <1>1, <1>2, <2>1 DEF Coords
  <2>3. x[n + 1] \in Lowest /\ y[n + 1] \in Lowest
    BY <2>1 DEF Vectors
  <2>4. x[n + 1] ** y[n + 1] = y[n + 1] ** x[n + 1]
    BY <2>3, Ring
  <2> QED BY <1>4, <2>1, <2>2, <2>4
<1>5. 0 .. Dim \subseteq S
  <2>1. 0 \in Int /\ Dim \in Int
    BY QAssumption
  <2> HIDE DEF S
  <2> QED BY <1>3, <1>4, <2>1, IntervalInduction
<1>6. Dim \in S
  BY <1>5, QAssumption
<1> QED BY <1>1, <1>2, <1>6

LEMMA DotAlong ==
  ASSUME NEW x \in Vectors, NEW y \in Vectors, NEW z \in Vectors, NEW c \in Lowest
  PROVE  Dot(x, Along(y, c, z)) = Dot(x, y) ++ (c ** Dot(x, z))
<1>1. PICK f : /\ Dot(x, y) = f[Dim] /\ f[0] = Zero
               /\ \A k \in 1 .. Dim : f[k] = f[k - 1] ++ (x[k] ** y[k])
  BY DotIs
<1>2. PICK g : /\ Dot(x, z) = g[Dim] /\ g[0] = Zero
               /\ \A k \in 1 .. Dim : g[k] = g[k - 1] ++ (x[k] ** z[k])
  BY DotIs
<1> DEFINE v == Along(y, c, z)
<1>3. PICK h : /\ Dot(x, v) = h[Dim] /\ h[0] = Zero
               /\ \A k \in 1 .. Dim : h[k] = h[k - 1] ++ (x[k] ** v[k])
  <2> HIDE DEF v
  <2> QED BY DotIs
<1> DEFINE S == {n \in Int : f[n] \in Lowest /\ g[n] \in Lowest /\ h[n] = f[n] ++ (c ** g[n])}
<1>4. 0 \in S
  <2>1. Zero \in Lowest /\ c ** Zero = Zero /\ Zero ++ Zero = Zero
    BY Ring
  <2>2. Zero = Zero ++ (c ** Zero)
    BY <2>1
  <2> QED BY <1>1, <1>2, <1>3, <2>1, <2>2
<1>5. ASSUME NEW n \in 0 .. Dim - 1, n \in S
      PROVE  n + 1 \in S
  <2>1. n + 1 \in Coords /\ (n + 1) - 1 = n /\ n \in Int /\ n + 1 \in Int
    BY QAssumption DEF Coords
  <2>2. /\ f[n + 1] = f[n] ++ (x[n + 1] ** y[n + 1]) /\ g[n + 1] = g[n] ++ (x[n + 1] ** z[n + 1])
        /\ h[n + 1] = h[n] ++ (x[n + 1] ** v[n + 1])
    <3> HIDE DEF v
    <3> QED BY <1>1, <1>2, <1>3, <2>1 DEF Coords
  <2>3. x[n + 1] \in Lowest /\ y[n + 1] \in Lowest /\ z[n + 1] \in Lowest
    BY <2>1 DEF Vectors
  <2>4. v[n + 1] = y[n + 1] ++ (c ** z[n + 1])
    BY <2>1, AlongIs
  <2>5. PICK p \in Lowest, q \in Lowest, xx \in Lowest, yy \in Lowest, zz \in Lowest :
          p = f[n] /\ q = g[n] /\ xx = x[n + 1] /\ yy = y[n + 1] /\ zz = z[n + 1]
    BY <1>5, <2>3
  <2>6. h[n + 1] = (p ++ (c ** q)) ++ (xx ** (yy ++ (c ** zz)))
    <3>1. h[n] = p ++ (c ** q)
      BY <1>5, <2>5
    <3> QED BY <2>2, <2>4, <2>5, <3>1
  <2>7. f[n + 1] = p ++ (xx ** yy) /\ g[n + 1] = q ++ (xx ** zz)
    BY <2>2, <2>5
  <2>8. p ++ (xx ** yy) \in Lowest /\ q ++ (xx ** zz) \in Lowest
    <3>1. xx ** yy \in Lowest /\ xx ** zz \in Lowest
      BY Ring
    <3> QED BY <3>1, Ring
  <2>9. (p ++ (c ** q)) ++ (xx ** (yy ++ (c ** zz))) = (p ++ (xx ** yy)) ++ (c ** (q ++ (xx ** zz)))
    <3>1. TermsAdded(p, q, c, xx, yy, zz)
      BY AddTerms
    <3> QED BY <3>1 DEF TermsAdded
  <2> QED BY <2>1, <2>6, <2>7, <2>8, <2>9
<1>6. 0 .. Dim \subseteq S
  <2>1. 0 \in Int /\ Dim \in Int
    BY QAssumption
  <2> HIDE DEF S
  <2> QED BY <1>4, <1>5, <2>1, IntervalInduction
<1>7. Dim \in S
  BY <1>6, QAssumption
<1>8. h[Dim] = f[Dim] ++ (c ** g[Dim])
  BY <1>7
<1> HIDE DEF v
<1>9. Dot(x, v) = Dot(x, y) ++ (c ** Dot(x, z))
  BY <1>1, <1>2, <1>3, <1>8
<1> QED BY <1>9 DEF v

LEMMA DotSquare ==
  ASSUME NEW x \in Vectors
  PROVE  Zero \preceq Dot(x, x)
<1>1. PICK f : /\ Dot(x, x) = f[Dim] /\ f[0] = Zero
               /\ \A k \in 1 .. Dim : f[k] = f[k - 1] ++ (x[k] ** x[k])
  BY DotIs
<1> DEFINE S == {n \in Int : f[n] \in Lowest /\ Zero \preceq f[n]}
<1>2. 0 \in S
  <2>1. Zero \preceq Zero
    BY DEF Zero, Whole, \preceq
  <2>2. Zero \in Lowest
    BY Ring
  <2> QED BY <1>1, <2>1, <2>2
<1>3. ASSUME NEW n \in 0 .. Dim - 1, n \in S
      PROVE  n + 1 \in S
  <2>1. n + 1 \in Coords /\ (n + 1) - 1 = n /\ n \in Int /\ n + 1 \in Int
    BY QAssumption DEF Coords
  <2>2. f[n + 1] = f[n] ++ (x[n + 1] ** x[n + 1])
    BY <1>1, <2>1 DEF Coords
  <2>3. x[n + 1] \in Lowest
    BY <2>1 DEF Vectors
  <2>4. PICK t \in Lowest : t = x[n + 1] ** x[n + 1] /\ Zero \preceq t
    <3>1. x[n + 1] ** x[n + 1] \in Lowest
      BY <2>3, Ring
    <3> QED BY <2>3, <3>1, SquareIs
  <2>5. f[n] \in Lowest /\ Zero \preceq f[n]
    BY <1>3
  <2>6. f[n] ++ t \in Lowest /\ Zero \preceq (f[n] ++ t)
    BY <2>4, <2>5, LowestIs, NotNegativePlus, Ring
  <2> QED BY <2>1, <2>2, <2>4, <2>6
<1>4. 0 .. Dim \subseteq S
  <2>1. 0 \in Int /\ Dim \in Int
    BY QAssumption
  <2> HIDE DEF S
  <2> QED BY <1>2, <1>3, <2>1, IntervalInduction
<1>5. Dim \in S
  BY <1>4, QAssumption
<1> QED BY <1>1, <1>5

\* Zero everywhere but at one coordinate
LEMMA DotUnit ==
  ASSUME NEW x \in Vectors, NEW y \in Vectors, NEW i \in Coords,
         \A k \in Coords : k # i => x[k] = Zero
  PROVE  Dot(x, y) = x[i] ** y[i]
<1>1. PICK f : /\ Dot(x, y) = f[Dim] /\ f[0] = Zero
               /\ \A k \in 1 .. Dim : f[k] = f[k - 1] ++ (x[k] ** y[k])
  BY DotIs
<1>2. x[i] ** y[i] \in Lowest /\ i \in Int /\ 1 <= i /\ i <= Dim
  <2>1. x[i] \in Lowest /\ y[i] \in Lowest
    BY DEF Vectors
  <2>2. x[i] ** y[i] \in Lowest
    BY <2>1, Ring
  <2> QED BY <2>2, QAssumption DEF Coords
<1> DEFINE S == {n \in Int : f[n] = IF n < i THEN Zero ELSE x[i] ** y[i]}
<1>3. 0 \in S
  BY <1>1, <1>2
<1>4. ASSUME NEW n \in 0 .. Dim - 1, n \in S
      PROVE  n + 1 \in S
  <2>1. n + 1 \in Coords /\ (n + 1) - 1 = n /\ n \in Int /\ n + 1 \in Int
    BY QAssumption DEF Coords
  <2>2. f[n + 1] = f[n] ++ (x[n + 1] ** y[n + 1])
    BY <1>1, <2>1 DEF Coords
  <2>3. x[n + 1] \in Lowest /\ y[n + 1] \in Lowest
    BY <2>1 DEF Vectors
  <2>4. CASE n + 1 = i
    <3>1. f[n] = Zero
      BY <1>2, <1>4, <2>1, <2>4
    <3>2. f[n + 1] = x[i] ** y[i]
      BY <1>2, <2>2, <2>4, <3>1, Ring
    <3> QED BY <1>2, <2>1, <2>4, <3>2
  <2>5. CASE n + 1 # i
    <3>1. x[n + 1] ** y[n + 1] = Zero
      <4>1. Zero ** y[n + 1] = Zero
        BY <2>3, Ring
      <4> QED BY <2>1, <2>5, <4>1
    <3>2. f[n] \in Lowest
      BY <1>2, <1>4, Ring
    <3>3. f[n + 1] = f[n]
      BY <2>2, <3>1, <3>2, Ring
    <3>4. n < i <=> n + 1 < i
      BY <1>2, <2>1, <2>5
    <3> QED BY <1>4, <2>1, <3>3, <3>4
  <2> QED BY <2>4, <2>5
<1>5. 0 .. Dim \subseteq S
  <2>1. 0 \in Int /\ Dim \in Int
    BY QAssumption
  <2> HIDE DEF S
  <2> QED BY <1>3, <1>4, <2>1, IntervalInduction
<1>6. Dim \in S /\ ~(Dim < i)
  BY <1>2, <1>5, QAssumption
<1> QED BY <1>1, <1>6

-----------------------------------------------------------------------------
(* The regression: the inverse of the Gram matrix *)

\* A matrix and the linear map it inverts: the map is positive, and the matrix its own transpose.
Inverts(m, map) ==
  /\ m \in [Coords -> Vectors] /\ map \in [Vectors -> Vectors]
  /\ \A v \in Vectors : map[Apply(m, v)] = v
  /\ \A x, y \in Vectors : Dot(x, Apply(m, y)) = Dot(Apply(m, x), y)
  /\ \A x, y \in Vectors : \A c \in Lowest : map[Along(x, c, y)] = Along(map[x], c, map[y])
  /\ \A x \in Vectors : Zero \preceq Dot(x, map[x])

\* The map after one observation more
Observed1(map, phi) == [v \in Vectors |-> Along(map[v], Dot(phi, v), phi)]

\* A matrix applied to a vector
LEMMA ApplyIs ==
  ASSUME NEW m \in [Coords -> Vectors], NEW v \in Vectors
  PROVE  Apply(m, v) \in Vectors /\ \A i \in Coords : Apply(m, v)[i] = Dot(m[i], v)
<1> DEFINE f == [i \in Coords |-> Dot(m[i], v)]
<1>1. f \in [Coords -> Lowest]
  BY DotLowest
<1>2. Apply(m, v) = Listed(f)
  BY DEF Apply, Vec
<1>3. \A i \in Coords : f[i] = Dot(m[i], v)
  OBVIOUS
<1> HIDE DEF f
<1>4. Listed(f) = f
  BY <1>1, ListedSame
<1> QED BY <1>1, <1>2, <1>3, <1>4 DEF Vectors

\* The denominator is positive.
LEMMA Gained ==
  ASSUME NEW m, NEW map, Inverts(m, map), NEW phi \in Vectors
  PROVE  /\ Apply(m, phi) \in Vectors /\ Dot(phi, Apply(m, phi)) \in Lowest
         /\ One ++ Dot(phi, Apply(m, phi)) \in Lowest
         /\ Zero \prec (One ++ Dot(phi, Apply(m, phi)))
<1>1. Apply(m, phi) \in Vectors
  BY ApplyIs DEF Inverts
<1>2. PICK u \in Vectors : u = Apply(m, phi) /\ map[u] = phi
  BY <1>1 DEF Inverts
<1>3. Zero \preceq Dot(u, phi) /\ Dot(u, phi) = Dot(phi, u) /\ Dot(phi, u) \in Lowest
  BY <1>2, DotCommutes, DotLowest DEF Inverts
<1>4. PICK s \in Lowest : s = Dot(phi, u) /\ Zero \preceq s
  BY <1>3
<1>5. One ++ s \in Lowest /\ One \in Lowest
  BY Ring
<1>6. Zero \preceq One /\ Zero \prec One
  BY DEF Zero, One, Whole, \preceq, \prec
<1>7. Zero \prec (One ++ s)
  BY <1>4, <1>5, <1>6, LowestIs, NotNegativePlus
<1> QED BY <1>1, <1>2, <1>3, <1>4, <1>5, <1>7

\* The rows of the matrix of Sherman and Morrison lie along the old ones and the product.
LEMMA ShermanRows ==
  ASSUME NEW m, NEW map, Inverts(m, map), NEW phi \in Vectors, NEW u \in Vectors,
         u = Apply(m, phi), NEW k \in Lowest,
         k = Minus1 ** (One // (One ++ Dot(phi, u)))
  PROVE  /\ ShermanMorrison(m, phi) \in [Coords -> Vectors]
         /\ \A i \in Coords : ShermanMorrison(m, phi)[i] = Along(m[i], k ** u[i], u)
<1>1. PICK d \in Lowest : d = One ++ Dot(phi, u) /\ Zero \prec d
  BY Gained
<1>2. PICK r \in Lowest : r = One // d
  BY <1>1, OverIs
<1>3. k = Minus1 ** r
  BY <1>1, <1>2
<1>4. m \in [Coords -> Vectors]
  BY DEF Inverts
<1> DEFINE entry(i, j) == m[i][j] -- ((u[i] ** u[j]) // d)
           row(i) == [j \in Coords |-> entry(i, j)]
<1>5. ASSUME NEW i \in Coords
      PROVE  row(i) = Along(m[i], k ** u[i], u) /\ row(i) \in Vectors /\ Listed(row(i)) = row(i)
  <2>1. k ** u[i] \in Lowest /\ m[i] \in Vectors
    <3>1. u[i] \in Lowest
      BY DEF Vectors
    <3> QED BY <1>4, <3>1, Ring
  <2>2. ASSUME NEW j \in Coords
        PROVE  entry(i, j) = m[i][j] ++ ((k ** u[i]) ** u[j])
    <3>1. PICK a \in Lowest, b \in Lowest, c \in Lowest : a = m[i][j] /\ b = u[i] /\ c = u[j]
      BY <2>1 DEF Vectors
    <3>2. PICK bc \in Lowest : bc = b ** c
      BY Ring
    <3>3. bc // d = r ** bc /\ r ** bc \in Lowest
      <4>1. \A e \in Lowest : e // d = (One // d) ** e
        BY <1>1, OverIs
      <4>2. r ** bc \in Lowest
        BY Ring
      <4> QED BY <1>2, <4>1, <4>2
    <3>4. a -- (r ** bc) = a ++ (Minus1 ** (r ** bc)) /\ Minus1 \in Lowest
      BY <3>3, MinusIs
    <3>5. Minus1 ** (r ** bc) = (Minus1 ** r) ** bc
      BY <3>4, Ring
    <3>6. k ** (b ** c) = (k ** b) ** c
      BY Ring
    <3> QED BY <1>3, <3>1, <3>2, <3>3, <3>4, <3>5, <3>6
  <2>3. row(i) = [j \in Coords |-> m[i][j] ++ ((k ** u[i]) ** u[j])]
    <3> HIDE DEF entry
    <3> QED BY <2>2
  <2>4. row(i) = Along(m[i], k ** u[i], u)
    BY <2>3 DEF Along
  <2>5. row(i) \in Vectors
    <3>1. Along(m[i], k ** u[i], u) \in Vectors
      BY <2>1, AlongIs
    <3> HIDE DEF row
    <3> QED BY <2>4, <3>1
  <2>6. Listed(row(i)) = row(i)
    <3> HIDE DEF row
    <3> QED BY <2>5, ListedSame DEF Vectors
  <2> HIDE DEF row
  <2> QED BY <2>4, <2>5, <2>6
<1>6. ShermanMorrison(m, phi) = Listed([i \in Coords |-> Listed(row(i))])
  <2>1. ShermanMorrison(m, phi) = Mat(LAMBDA i, j : entry(i, j))
    BY <1>1 DEF ShermanMorrison
  <2> QED BY <2>1 DEF Mat
<1> HIDE DEF row
<1>7. [i \in Coords |-> Listed(row(i))] \in [Coords -> Vectors]
  BY <1>5
<1>8. ShermanMorrison(m, phi) = [i \in Coords |-> Listed(row(i))]
  BY <1>6, <1>7, ListedSame
<1> QED BY <1>5, <1>7, <1>8

\* Applying the matrix of Sherman and Morrison
LEMMA ShermanApplied ==
  ASSUME NEW m, NEW map, Inverts(m, map), NEW phi \in Vectors, NEW u \in Vectors,
         u = Apply(m, phi), NEW k \in Lowest,
         k = Minus1 ** (One // (One ++ Dot(phi, u))), NEW v \in Vectors
  PROVE  Apply(ShermanMorrison(m, phi), v) = Along(Apply(m, v), k ** Dot(u, v), u)
<1>1. PICK s \in [Coords -> Vectors] :
        s = ShermanMorrison(m, phi) /\ \A i \in Coords : s[i] = Along(m[i], k ** u[i], u)
  BY ShermanRows
<1>2. m \in [Coords -> Vectors]
  BY DEF Inverts
<1>3. PICK w \in Vectors : w = Apply(m, v) /\ \A i \in Coords : w[i] = Dot(m[i], v)
  BY <1>2, ApplyIs
<1>4. PICK z \in Vectors : z = Apply(s, v) /\ \A i \in Coords : z[i] = Dot(s[i], v)
  BY <1>1, ApplyIs
<1>5. PICK t \in Lowest : t = Dot(u, v) /\ t = Dot(v, u)
  BY DotLowest, DotCommutes
<1>6. ASSUME NEW i \in Coords
      PROVE  z[i] = w[i] ++ ((k ** t) ** u[i])
  <2>1. m[i] \in Vectors /\ u[i] \in Lowest
    BY <1>2 DEF Vectors
  <2>2. PICK c \in Lowest : c = k ** u[i]
    BY <2>1, Ring
  <2>3. z[i] = Dot(Along(m[i], c, u), v) /\ Along(m[i], c, u) \in Vectors
    BY <1>1, <1>4, <2>1, <2>2, AlongIs
  <2>4. z[i] = Dot(v, Along(m[i], c, u))
    BY <2>3, DotCommutes
  <2>5. z[i] = Dot(v, m[i]) ++ (c ** t)
    BY <1>5, <2>1, <2>4, DotAlong
  <2>6. Dot(v, m[i]) = w[i]
    BY <1>3, <2>1, DotCommutes
  <2>7. (k ** u[i]) ** t = (k ** t) ** u[i]
    <3>1. PICK b \in Lowest : b = u[i]
      BY <2>1
    <3>2. (k ** b) ** t = k ** (b ** t)
      BY Ring
    <3>3. b ** t = t ** b /\ k ** (t ** b) = (k ** t) ** b
      BY Ring
    <3> QED BY <3>1, <3>2, <3>3
  <2> QED BY <2>2, <2>5, <2>6, <2>7
<1>7. z = [i \in Coords |-> z[i]]
  BY DEF Vectors
<1>8. z = [i \in Coords |-> w[i] ++ ((k ** t) ** u[i])]
  BY <1>6, <1>7
<1> QED BY <1>1, <1>3, <1>4, <1>5, <1>8 DEF Along

\* What is added for the observation cancels what was taken from the inverse.
Cancelled(v, p, t, s, k) == (v ++ ((k ** t) ** p)) ++ ((t ++ ((k ** t) ** s)) ** p) = v
\* What Sherman and Morrison add cancels what the observation added.
LEMMA Cancels ==
  ASSUME NEW v \in Lowest, NEW p \in Lowest, NEW t \in Lowest, NEW s \in Lowest, NEW k \in Lowest,
         NEW r \in Lowest, k = Minus1 ** r, r ** (One ++ s) = One
  PROVE  Cancelled(v, p, t, s, k)
<1>1. PICK c \in Lowest : c = k ** t
  BY Ring
<1>2. PICK d \in Lowest : d = One ++ s
  BY Ring
<1>3. c ++ (c ** s) = c ** d
  <2>1. c ** d = (c ** One) ++ (c ** s) /\ c ** One = c
    BY <1>2, Ring
  <2> QED BY <2>1
<1>4. c ** d = Minus1 ** t
  <2>1. Minus1 \in Lowest
    BY MinusIs
  <2>2. c ** d = (Minus1 ** r) ** (t ** d)
    <3>1. (k ** t) ** d = k ** (t ** d)
      BY Ring
    <3> QED BY <1>1, <3>1
  <2>3. (Minus1 ** r) ** (t ** d) = Minus1 ** (r ** (t ** d))
    <3>1. t ** d \in Lowest
      BY Ring
    <3> QED BY <2>1, <3>1, Ring
  <2>4. r ** (t ** d) = t
    <3>1. r ** (t ** d) = (r ** t) ** d /\ r ** t = t ** r /\ (t ** r) ** d = t ** (r ** d)
          /\ t ** One = t
      BY Ring
    <3> QED BY <1>2, <3>1
  <2> QED BY <2>2, <2>3, <2>4
<1>5. PICK e \in Lowest, cp \in Lowest, f \in Lowest :
        e = t ++ (c ** s) /\ cp = c ** p /\ f = e ** p
  <2>1. c ** s \in Lowest /\ c ** p \in Lowest
    BY Ring
  <2>2. t ++ (c ** s) \in Lowest
    BY <2>1, Ring
  <2>3. (t ++ (c ** s)) ** p \in Lowest
    BY <2>2, Ring
  <2> QED BY <2>1, <2>2, <2>3
<1>6. (v ++ cp) ++ f = v ++ (cp ++ f)
  BY Ring
<1>7. cp ++ f = (c ++ e) ** p
  BY <1>5, Ring
<1>8. c ++ e = Zero
  <2>1. PICK cs \in Lowest : cs = c ** s
    BY Ring
  <2>2. c ++ (t ++ cs) = t ++ (c ++ cs)
    <3>1. c ++ (t ++ cs) = (c ++ t) ++ cs /\ c ++ t = t ++ c /\ (t ++ c) ++ cs = t ++ (c ++ cs)
      BY Ring
    <3> QED BY <3>1
  <2>3. t ++ (Minus1 ** t) = Zero
    BY MinusIs
  <2> QED BY <1>3, <1>4, <1>5, <2>1, <2>2, <2>3
<1>9. Zero ** p = Zero /\ v ++ Zero = v
  BY Ring
<1> QED BY <1>1, <1>5, <1>6, <1>7, <1>8, <1>9 DEF Cancelled

\* Sherman and Morrison: the new matrix inverts the new map, which is as good as the old one.
LEMMA InvertsMore ==
  ASSUME NEW m, NEW map, Inverts(m, map), NEW phi \in Vectors
  PROVE  Inverts(ShermanMorrison(m, phi), Observed1(map, phi))
<1>1. PICK u \in Vectors, s \in Lowest :
        u = Apply(m, phi) /\ s = Dot(phi, u) /\ One ++ s \in Lowest /\ Zero \prec (One ++ s)
  BY Gained
<1>2. PICK r \in Lowest : r = One // (One ++ s) /\ r ** (One ++ s) = One
  BY <1>1, OverIs
<1>3. PICK k \in Lowest : k = Minus1 ** r
  BY <1>2, MinusIs, Ring
<1>4. k = Minus1 ** (One // (One ++ Dot(phi, u)))
  BY <1>1, <1>2, <1>3
<1>5. PICK new \in [Coords -> Vectors] : new = ShermanMorrison(m, phi)
  BY <1>1, <1>4, ShermanRows
<1>6. \A v \in Vectors : Apply(new, v) = Along(Apply(m, v), k ** Dot(u, v), u)
  BY <1>1, <1>4, <1>5, ShermanApplied
<1>7. /\ m \in [Coords -> Vectors] /\ map \in [Vectors -> Vectors]
      /\ \A v \in Vectors : map[Apply(m, v)] = v
      /\ \A x, y \in Vectors : Dot(x, Apply(m, y)) = Dot(Apply(m, x), y)
      /\ \A x, y \in Vectors : \A c \in Lowest : map[Along(x, c, y)] = Along(map[x], c, map[y])
      /\ \A x \in Vectors : Zero \preceq Dot(x, map[x])
  BY DEF Inverts
<1>8. \A v \in Vectors : /\ Apply(m, v) \in Vectors /\ k ** Dot(u, v) \in Lowest
                         /\ Dot(u, v) \in Lowest /\ Dot(phi, v) \in Lowest
  <2> TAKE v \in Vectors
  <2>1. Dot(u, v) \in Lowest /\ Dot(phi, v) \in Lowest /\ Apply(m, v) \in Vectors
    BY <1>7, DotLowest, ApplyIs
  <2> QED BY <2>1, Ring
<1>9. PICK more \in [Vectors -> Vectors] :
        /\ more = Observed1(map, phi)
        /\ \A v \in Vectors : more[v] = Along(map[v], Dot(phi, v), phi)
  <2> DEFINE f == [v \in Vectors |-> Along(map[v], Dot(phi, v), phi)]
  <2>1. \A v \in Vectors : Along(map[v], Dot(phi, v), phi) \in Vectors
    BY <1>7, <1>8, AlongIs
  <2>2. f \in [Vectors -> Vectors]
    BY <2>1
  <2>3. f = Observed1(map, phi)
    BY DEF Observed1
  <2>4. \A v \in Vectors : f[v] = Along(map[v], Dot(phi, v), phi)
    OBVIOUS
  <2> HIDE DEF f
  <2> QED BY <2>2, <2>3, <2>4
<1>10. ASSUME NEW v \in Vectors
       PROVE  more[Apply(new, v)] = v
  <2>1. PICK w \in Vectors, t \in Lowest, c \in Lowest :
          w = Apply(m, v) /\ t = Dot(u, v) /\ c = k ** t /\ map[w] = v
    BY <1>7, <1>8
  <2>2. PICK z \in Vectors : z = Along(w, c, u) /\ z = Apply(new, v)
    BY <1>6, <2>1, AlongIs
  <2>3. map[z] = Along(v, c, phi)
    <3>1. map[u] = phi
      BY <1>1, <1>7
    <3>2. map[Along(w, c, u)] = Along(map[w], c, map[u])
      BY <1>7
    <3> QED BY <2>1, <2>2, <3>1, <3>2
  <2>4. Dot(phi, z) = t ++ (c ** s)
    <3>1. Dot(phi, w) = t
      BY <1>1, <1>7, <2>1
    <3>2. Dot(phi, Along(w, c, u)) = Dot(phi, w) ++ (c ** Dot(phi, u))
      BY DotAlong
    <3> QED BY <1>1, <2>2, <3>1, <3>2
  <2>5. more[z] = Along(Along(v, c, phi), t ++ (c ** s), phi)
    BY <1>9, <2>3, <2>4
  <2>6. Along(v, c, phi) \in Vectors /\ \A i \in Coords : Along(v, c, phi)[i] = v[i] ++ (c ** phi[i])
    BY AlongIs
  <2>7. ASSUME NEW i \in Coords
        PROVE  Along(v, c, phi)[i] ++ ((t ++ (c ** s)) ** phi[i]) = v[i]
    <3>1. v[i] \in Lowest /\ phi[i] \in Lowest
      BY DEF Vectors
    <3>2. (v[i] ++ ((k ** t) ** phi[i])) ++ ((t ++ ((k ** t) ** s)) ** phi[i]) = v[i]
      <4>1. Cancelled(v[i], phi[i], t, s, k)
        BY <1>2, <1>3, <3>1, Cancels
      <4> QED BY <4>1 DEF Cancelled
    <3> QED BY <2>1, <2>6, <3>2
  <2>8. v = [i \in Coords |-> v[i]]
    BY DEF Vectors
  <2>9. Along(Along(v, c, phi), t ++ (c ** s), phi) = [i \in Coords |-> v[i]]
    BY <2>7 DEF Along
  <2> QED BY <2>2, <2>5, <2>8, <2>9
<1>11. ASSUME NEW x \in Vectors, NEW y \in Vectors
       PROVE  Dot(x, Apply(new, y)) = Dot(Apply(new, x), y)
  <2>1. PICK a \in Lowest, b \in Lowest, ka \in Lowest, kb \in Lowest :
          a = Dot(u, x) /\ b = Dot(u, y) /\ ka = k ** a /\ kb = k ** b
    BY <1>8
  <2>2. PICK mx \in Vectors, my \in Vectors : mx = Apply(m, x) /\ my = Apply(m, y)
    BY <1>8
  <2>3. Dot(x, Apply(new, y)) = Dot(x, my) ++ (kb ** Dot(x, u))
    BY <1>6, <2>1, <2>2, DotAlong
  <2>4. Dot(Apply(new, x), y) = Dot(y, mx) ++ (ka ** Dot(y, u))
    <3>1. Apply(new, x) = Along(mx, ka, u) /\ Along(mx, ka, u) \in Vectors
      BY <1>6, <2>1, <2>2, AlongIs
    <3>2. Dot(Apply(new, x), y) = Dot(y, Along(mx, ka, u))
      BY <3>1, DotCommutes
    <3> QED BY <3>2, DotAlong
  <2>5. Dot(x, u) = a /\ Dot(y, u) = b
    BY <2>1, DotCommutes
  <2>6. Dot(x, my) = Dot(y, mx)
    <3>1. Dot(x, my) = Dot(mx, y)
      BY <1>7, <2>2
    <3> QED BY <3>1, DotCommutes
  <2>7. kb ** a = ka ** b
    <3>1. (k ** b) ** a = k ** (b ** a) /\ b ** a = a ** b /\ k ** (a ** b) = (k ** a) ** b
      BY Ring
    <3> QED BY <2>1, <3>1
  <2> QED BY <2>3, <2>4, <2>5, <2>6, <2>7
<1>12. ASSUME NEW x \in Vectors, NEW y \in Vectors, NEW c \in Lowest
       PROVE  more[Along(x, c, y)] = Along(more[x], c, more[y])
  <2>1. PICK a \in Lowest, b \in Lowest : a = Dot(phi, x) /\ b = Dot(phi, y)
    BY <1>8
  <2>2. PICK mx \in Vectors, my \in Vectors : mx = map[x] /\ my = map[y]
    BY <1>7
  <2>3. PICK z \in Vectors : z = Along(x, c, y)
    BY AlongIs
  <2>4. map[z] = Along(mx, c, my) /\ Dot(phi, z) = a ++ (c ** b)
    BY <1>7, <2>1, <2>2, <2>3, DotAlong
  <2>5. more[z] = Along(Along(mx, c, my), a ++ (c ** b), phi)
    BY <1>9, <2>4
  <2>6. more[x] = Along(mx, a, phi) /\ more[y] = Along(my, b, phi)
    BY <1>9, <2>1, <2>2
  <2>7. ASSUME NEW i \in Coords
        PROVE  Along(mx, c, my)[i] ++ ((a ++ (c ** b)) ** phi[i])
                 = Along(mx, a, phi)[i] ++ (c ** Along(my, b, phi)[i])
    <3>1. PICK p \in Lowest, q \in Lowest, f \in Lowest : p = mx[i] /\ q = my[i] /\ f = phi[i]
      BY DEF Vectors
    <3>2. /\ Along(mx, c, my)[i] = p ++ (c ** q) /\ Along(mx, a, phi)[i] = p ++ (a ** f)
          /\ Along(my, b, phi)[i] = q ++ (b ** f)
      BY <3>1, AlongIs
    <3>3. (p ++ (c ** q)) ++ (f ** (a ++ (c ** b))) = (p ++ (f ** a)) ++ (c ** (q ++ (f ** b)))
      <4>1. TermsAdded(p, q, c, f, a, b)
        BY AddTerms
      <4> QED BY <4>1 DEF TermsAdded
    <3>4. f ** a = a ** f /\ f ** b = b ** f /\ f ** (a ++ (c ** b)) = (a ++ (c ** b)) ** f
      <4>1. c ** b \in Lowest
        BY Ring
      <4>2. a ++ (c ** b) \in Lowest
        BY <4>1, Ring
      <4> QED BY <4>2, Ring
    <3> QED BY <3>1, <3>2, <3>3, <3>4
  <2> QED BY <2>3, <2>5, <2>6, <2>7 DEF Along
<1>13. ASSUME NEW x \in Vectors
       PROVE  Zero \preceq Dot(x, more[x])
  <2>1. PICK a \in Lowest, mx \in Vectors : a = Dot(phi, x) /\ a = Dot(x, phi) /\ mx = map[x]
    BY <1>7, <1>8, DotCommutes
  <2>2. Dot(x, more[x]) = Dot(x, mx) ++ (a ** a)
    <3>1. more[x] = Along(mx, a, phi)
      BY <1>9, <2>1
    <3>2. Dot(x, Along(mx, a, phi)) = Dot(x, mx) ++ (a ** Dot(x, phi))
      BY DotAlong
    <3> QED BY <2>1, <3>1, <3>2
  <2>3. PICK b \in Lowest, q \in Lowest : b = Dot(x, mx) /\ q = a ** a
    BY DotLowest, Ring
  <2>4. Zero \preceq b /\ Zero \preceq q
    BY <1>7, <2>1, <2>3, SquareIs
  <2> QED BY <2>2, <2>3, <2>4, LowestIs, NotNegativePlus
<1> QED BY <1>5, <1>9, <1>10, <1>11, <1>12, <1>13 DEF Inverts

-----------------------------------------------------------------------------
(* The regression: the model of an action and its least squares problem *)

\* The map of no observations: the regularization
Regular == [v \in Vectors |-> [i \in Coords |-> LambdaReg ** v[i]]]

\* A model that holds what its observations say
Fits(m, map, b) ==
  /\ Inverts(m.aInv, map) /\ b \in Vectors
  /\ m.b = b /\ m.w = Apply(m.aInv, b)

\* lambda_reg acts as a fraction in lowest terms that has an inverse and is not negative.
LEMMA LambdaIs ==
  \E l \in Lowest, t \in Lowest :
    /\ t = One // LambdaReg /\ l ** t = One /\ Zero \preceq l
    /\ \A v \in Lowest : LambdaReg ** v = l ** v
<1>1. PICK n \in Int, d \in Nat \ {0} : LambdaReg = <<n, d>> /\ 0 * d < n * 1
  BY QAssumption DEF IsFrac, Zero, Whole, \prec
<1>2. n \in Nat \ {0} /\ 1 * d = d /\ 1 * n = n
  BY <1>1
<1>3. One // LambdaReg = Frac(d, n)
  BY <1>1, <1>2 DEF //, One, Whole
<1>4. LambdaReg ** One = Frac(n, d)
  <2>1. n * 1 = n /\ d * 1 = d
    OBVIOUS
  <2> QED BY <1>1, <2>1 DEF **, One, Whole
<1>5. Frac(n, d) ** Frac(d, n) = Frac(n * d, d * n)
  BY <1>2, FracTimes
<1>6. Frac(n * d, d * n) = One
  <2>1. PICK e \in Nat \ {0} : e = n * d /\ e = d * n
    BY <1>2, Positive2
  <2>2. Frac(e, e) = Frac(1, 1)
    <3>1. e * 1 = 1 * e
      OBVIOUS
    <3> QED BY <3>1, FracSame
  <2>3. One = Frac(1, 1)
    BY WholeIs DEF One
  <2> QED BY <2>1, <2>2, <2>3
<1>7. Frac(n, d) \in Lowest /\ Frac(d, n) \in Lowest
  BY <1>2 DEF Lowest
<1>8. \A v \in Lowest : LambdaReg ** v = Frac(n, d) ** v
  BY <1>4, Lowered, QAssumption
<1>9. Zero \preceq Frac(n, d)
  <2>1. Zero \prec Frac(n, d)
    BY <1>2, PositiveFrac
  <2>2. IsFrac(Frac(n, d)) /\ IsFrac(Zero)
    BY FracIs, WholeIs DEF Zero
  <2> QED BY <2>1, <2>2 DEF IsFrac, \prec, \preceq
<1> QED BY <1>3, <1>5, <1>6, <1>7, <1>8, <1>9

\* The zero vector
LEMMA OriginIs ==
  /\ Origin \in Vectors
  /\ \A x \in Vectors : Dot(x, Origin) = Zero
  /\ \A x \in Vectors : \A c \in Lowest : Along(Origin, c, x) = [i \in Coords |-> c ** x[i]]
<1>1. Origin \in Vectors /\ \A i \in Coords : Origin[i] = Zero
  <2>1. Zero \in Lowest
    BY Ring
  <2> QED BY <2>1 DEF Origin, Vectors
<1>2. ASSUME NEW x \in Vectors
      PROVE  Dot(x, Origin) = Zero
  <2>1. PICK i \in Coords : TRUE
    BY QAssumption DEF Coords
  <2>2. Dot(Origin, x) = Origin[i] ** x[i]
    BY <1>1, DotUnit
  <2>3. x[i] \in Lowest
    BY DEF Vectors
  <2>4. Zero ** x[i] = Zero
    BY <2>3, Ring
  <2> QED BY <1>1, <2>2, <2>4, DotCommutes
<1>3. ASSUME NEW x \in Vectors, NEW c \in Lowest
      PROVE  Along(Origin, c, x) = [i \in Coords |-> c ** x[i]]
  <2>1. ASSUME NEW i \in Coords
        PROVE  Origin[i] ++ (c ** x[i]) = c ** x[i]
    <3>1. x[i] \in Lowest
      BY DEF Vectors
    <3>2. c ** x[i] \in Lowest
      BY <3>1, Ring
    <3>3. Zero ++ (c ** x[i]) = c ** x[i]
      BY <3>2, Ring
    <3> QED BY <1>1, <3>3
  <2> QED BY <2>1 DEF Along
<1> QED BY <1>1, <1>2, <1>3

\* The first inverse is the inverse of the regularization.
LEMMA FirstInverts == Inverts(NewModel.aInv, Regular)
<1>1. PICK l \in Lowest, t \in Lowest :
        /\ t = One // LambdaReg /\ l ** t = One /\ Zero \preceq l
        /\ \A v \in Lowest : LambdaReg ** v = l ** v
  BY LambdaIs
<1> DEFINE row(i) == [j \in Coords |-> IF i = j THEN t ELSE Zero]
           rows   == [i \in Coords |-> row(i)]
<1>2. ASSUME NEW i \in Coords
      PROVE  /\ row(i) \in Vectors /\ Listed(row(i)) = row(i)
             /\ row(i)[i] = t /\ \A j \in Coords : j # i => row(i)[j] = Zero
  <2>1. row(i) \in Vectors
    <3>1. Zero \in Lowest
      BY Ring
    <3> QED BY <3>1 DEF Vectors
  <2>2. row(i)[i] = t /\ \A j \in Coords : j # i => row(i)[j] = Zero
    OBVIOUS
  <2>3. Listed(row(i)) = row(i)
    <3> HIDE DEF row
    <3> QED BY <2>1, ListedSame DEF Vectors
  <2> HIDE DEF row
  <2> QED BY <2>1, <2>2, <2>3
<1>3. NewModel.aInv = Listed([i \in Coords |-> Listed(row(i))])
  BY <1>1 DEF NewModel, Mat
<1>4. PICK m \in [Coords -> Vectors] :
        m = NewModel.aInv /\ \A i \in Coords : m[i] = row(i)
  <2> HIDE DEF row
  <2>1. [i \in Coords |-> Listed(row(i))] = rows
    BY <1>2
  <2>2. rows \in [Coords -> Vectors] /\ \A i \in Coords : rows[i] = row(i)
    BY <1>2
  <2> HIDE DEF rows
  <2> QED BY <1>3, <2>1, <2>2, ListedSame
<1>5. ASSUME NEW v \in Vectors
      PROVE  Apply(m, v) = Along(Origin, t, v) /\ Along(Origin, t, v) \in Vectors
  <2>1. PICK w \in Vectors : w = Apply(m, v) /\ \A i \in Coords : w[i] = Dot(m[i], v)
    BY ApplyIs
  <2>2. ASSUME NEW i \in Coords
        PROVE  w[i] = t ** v[i]
    <3> HIDE DEF row
    <3>1. m[i] \in Vectors /\ m[i][i] = t /\ \A j \in Coords : j # i => m[i][j] = Zero
      BY <1>2, <1>4
    <3>2. Dot(m[i], v) = m[i][i] ** v[i]
      BY <3>1, DotUnit
    <3> QED BY <2>1, <3>1, <3>2
  <2>3. w = [i \in Coords |-> w[i]]
    BY DEF Vectors
  <2>4. w = [i \in Coords |-> t ** v[i]]
    BY <2>2, <2>3
  <2> QED BY <2>1, <2>4, OriginIs
<1>6. PICK map \in [Vectors -> Vectors] :
        map = Regular /\ \A v \in Vectors : map[v] = Along(Origin, l, v)
  <2>1. ASSUME NEW v \in Vectors
        PROVE  [i \in Coords |-> LambdaReg ** v[i]] = Along(Origin, l, v)
               /\ Along(Origin, l, v) \in Vectors
    <3>1. \A i \in Coords : LambdaReg ** v[i] = l ** v[i]
      BY <1>1 DEF Vectors
    <3>2. Along(Origin, l, v) = [i \in Coords |-> l ** v[i]] /\ Along(Origin, l, v) \in Vectors
      BY OriginIs, AlongIs
    <3> QED BY <3>1, <3>2
  <2>2. Regular = [v \in Vectors |-> Along(Origin, l, v)]
    BY <2>1 DEF Regular
  <2>3. [v \in Vectors |-> Along(Origin, l, v)] \in [Vectors -> Vectors]
    BY <2>1
  <2>4. \A v \in Vectors : [x \in Vectors |-> Along(Origin, l, x)][v] = Along(Origin, l, v)
    OBVIOUS
  <2> QED BY <2>2, <2>3, <2>4
<1>7. ASSUME NEW v \in Vectors
      PROVE  map[Apply(m, v)] = v
  <2>1. PICK w \in Vectors : w = Apply(m, v) /\ w = Along(Origin, t, v)
    BY <1>5
  <2>2. map[w] = [i \in Coords |-> l ** w[i]]
    BY <1>6, OriginIs
  <2>3. ASSUME NEW i \in Coords
        PROVE  l ** w[i] = v[i]
    <3>1. PICK e \in Lowest : e = v[i]
      BY DEF Vectors
    <3>2. w[i] = t ** e
      BY <2>1, <3>1, OriginIs
    <3>3. l ** (t ** e) = (l ** t) ** e /\ One ** e = e
      BY Ring
    <3> QED BY <1>1, <3>1, <3>2, <3>3
  <2>4. v = [i \in Coords |-> v[i]]
    BY DEF Vectors
  <2> QED BY <2>1, <2>2, <2>3, <2>4
<1>8. ASSUME NEW x \in Vectors, NEW y \in Vectors
      PROVE  Dot(x, Apply(m, y)) = Dot(Apply(m, x), y)
  <2>1. Dot(x, Along(Origin, t, y)) = Dot(x, Origin) ++ (t ** Dot(x, y))
    BY OriginIs, DotAlong
  <2>2. Dot(y, Along(Origin, t, x)) = Dot(y, Origin) ++ (t ** Dot(y, x))
    BY OriginIs, DotAlong
  <2>3. Dot(x, y) = Dot(y, x) /\ Dot(x, Origin) = Zero /\ Dot(y, Origin) = Zero
    BY DotCommutes, OriginIs
  <2>4. Dot(Along(Origin, t, x), y) = Dot(y, Along(Origin, t, x))
    BY <1>5, DotCommutes
  <2> QED BY <1>5, <2>1, <2>2, <2>3, <2>4
<1>9. ASSUME NEW x \in Vectors, NEW y \in Vectors, NEW c \in Lowest
      PROVE  map[Along(x, c, y)] = Along(map[x], c, map[y])
  <2>1. PICK z \in Vectors : z = Along(x, c, y)
    BY AlongIs
  <2>2. /\ map[z] = [i \in Coords |-> l ** z[i]] /\ map[x] = [i \in Coords |-> l ** x[i]]
        /\ map[y] = [i \in Coords |-> l ** y[i]]
    BY <1>6, OriginIs
  <2>3. ASSUME NEW i \in Coords
        PROVE  l ** z[i] = (l ** x[i]) ++ (c ** (l ** y[i]))
    <3>1. PICK p \in Lowest, q \in Lowest : p = x[i] /\ q = y[i]
      BY DEF Vectors
    <3>2. z[i] = p ++ (c ** q)
      <4>1. \A j \in Coords : Along(x, c, y)[j] = x[j] ++ (c ** y[j])
        BY AlongIs
      <4> QED BY <2>1, <3>1, <4>1
    <3>3. c ** q \in Lowest
      BY Ring
    <3>4. l ** (p ++ (c ** q)) = (l ** p) ++ (l ** (c ** q))
      BY <3>3, Ring
    <3>5. l ** (c ** q) = (l ** c) ** q
      BY Ring
    <3>6. l ** c = c ** l /\ (c ** l) ** q = c ** (l ** q)
      BY Ring
    <3> QED BY <3>1, <3>2, <3>4, <3>5, <3>6
  <2>4. \A i \in Coords : map[x][i] = l ** x[i] /\ map[y][i] = l ** y[i]
    BY <2>2
  <2> QED BY <2>1, <2>2, <2>3, <2>4 DEF Along
<1>10. ASSUME NEW x \in Vectors
       PROVE  Zero \preceq Dot(x, map[x])
  <2>1. Dot(x, Along(Origin, l, x)) = Dot(x, Origin) ++ (l ** Dot(x, x))
    BY OriginIs, DotAlong
  <2>2. PICK s \in Lowest : s = Dot(x, x) /\ Zero \preceq s
    BY DotLowest, DotSquare
  <2>3. Dot(x, Origin) = Zero /\ Zero ++ (l ** s) = l ** s
    <3>1. l ** s \in Lowest
      BY Ring
    <3>2. Zero ++ (l ** s) = l ** s
      BY <3>1, Ring
    <3> QED BY <3>2, OriginIs
  <2>4. Zero \preceq (l ** s)
    <3>1. PICK n \in Int, d \in Nat \ {0} : l = <<n, d>> /\ n >= 0
      BY <1>1, LowestIs, ReducedIs DEF IsFrac, Zero, Whole, \preceq
    <3>2. PICK j \in Int, e \in Nat \ {0} : s = <<j, e>> /\ j >= 0
      BY <2>2, LowestIs, ReducedIs DEF IsFrac, Zero, Whole, \preceq
    <3>3. PICK a \in Nat, b \in Nat \ {0} : a = n * j /\ b = d * e
      <4>1. n * j \in Nat
        BY <3>1, <3>2
      <4> QED BY <4>1, Positive2
    <3>4. l ** s = Frac(a, b)
      BY <3>1, <3>2, <3>3 DEF **
    <3>5. Zero = Frac(0, b)
      <4>1. Zero = Frac(0, 1) /\ 0 * b = 0 * 1
        BY WholeIs DEF Zero
      <4> QED BY <4>1, FracSame
    <3>6. 0 <= a
      OBVIOUS
    <3> QED BY <3>4, <3>5, <3>6, SameOrder
  <2> QED BY <1>6, <2>1, <2>2, <2>3, <2>4
<1> QED BY <1>4, <1>6, <1>7, <1>8, <1>9, <1>10 DEF Inverts

\* A new model fits, and one with the optimistic bias.
Bias == [i \in Coords |-> LambdaReg ** OptimisticBias]
\* A new model, with and without the optimistic bias
LEMMA NewFits ==
  /\ Fits(NewModel, Regular, Origin) /\ Fits(Biased(NewModel), Regular, Bias)
  /\ Bias \in Vectors
<1> DEFINE zeros == Vec(LAMBDA i : Zero)
           aInv  == NewModel.aInv
           b     == Vec(LAMBDA i : NewModel.b[i] ++ (LambdaReg ** OptimisticBias))
<1>1. zeros = Origin
  <2>1. Listed(Origin) = Origin
    BY OriginIs, ListedSame DEF Vectors
  <2> QED BY <2>1 DEF Vec, Origin
<1>2. NewModel.b = Origin /\ NewModel.w = Origin
  BY <1>1 DEF NewModel
<1>3. PICK m \in [Coords -> Vectors] : m = aInv /\ Inverts(m, Regular)
  BY FirstInverts DEF Inverts
<1>4. Apply(m, Origin) = Origin
  <2>1. PICK w \in Vectors : w = Apply(m, Origin) /\ \A i \in Coords : w[i] = Dot(m[i], Origin)
    BY ApplyIs, OriginIs
  <2>2. \A i \in Coords : w[i] = Zero
    BY <2>1, OriginIs
  <2>3. w = [i \in Coords |-> w[i]]
    BY DEF Vectors
  <2> QED BY <2>1, <2>2, <2>3 DEF Origin
<1>5. Fits(NewModel, Regular, Origin)
  BY <1>2, <1>3, <1>4, OriginIs DEF Fits
<1>6. Bias \in Vectors /\ b = Bias
  <2>1. PICK c \in Lowest : c = LambdaReg ** OptimisticBias /\ Zero ++ c = c
    <3>1. Reduced(LambdaReg ** OptimisticBias)
      BY QAssumption, Reduces
    <3>2. LambdaReg ** OptimisticBias \in Lowest
      BY <3>1, LowestIs
    <3> QED BY <3>2, Ring
  <2>2. \A i \in Coords : NewModel.b[i] = Zero
    BY <1>2 DEF Origin
  <2>3. [i \in Coords |-> NewModel.b[i] ++ (LambdaReg ** OptimisticBias)] = [i \in Coords |-> c]
    BY <2>1, <2>2
  <2>4. [i \in Coords |-> c] \in Vectors /\ Bias = [i \in Coords |-> c]
    BY <2>1 DEF Vectors, Bias
  <2>5. Listed(Bias) = Bias
    BY <2>4, ListedSame DEF Vectors
  <2>6. b = Listed([i \in Coords |-> NewModel.b[i] ++ (LambdaReg ** OptimisticBias)])
    BY DEF Vec
  <2> QED BY <2>3, <2>4, <2>5, <2>6
<1>7. Fits(Biased(NewModel), Regular, Bias)
  <2>1. Biased(NewModel) = [NewModel EXCEPT !.b = b, !.w = Apply(aInv, b)]
    BY DEF Biased
  <2>2. NewModel = [aInv |-> NewModel.aInv, b |-> NewModel.b, w |-> NewModel.w,
                    sigma2 |-> NewModel.sigma2, ema |-> NewModel.ema,
                    prevNorm2 |-> NewModel.prevNorm2, n |-> NewModel.n]
    BY DEF NewModel
  <2> HIDE DEF b, aInv
  <2>3. /\ Biased(NewModel).aInv = NewModel.aInv /\ Biased(NewModel).b = b
        /\ Biased(NewModel).w = Apply(aInv, b)
    BY <2>1, <2>2
  <2> QED BY <1>3, <1>6, <2>3, FirstInverts DEF Fits, aInv
<1> QED BY <1>5, <1>6, <1>7

\* Each observation keeps the model a fit.
LEMMA UpdatedFits ==
  ASSUME NEW m, NEW map, NEW b, Fits(m, map, b), NEW phi \in Vectors, NEW y \in Lowest
  PROVE  Fits(Updated(m, phi, y), Observed1(map, phi), Along(b, y, phi))
<1> DEFINE aInv == ShermanMorrison(m.aInv, phi)
           sum  == Vec(LAMBDA i : m.b[i] ++ (phi[i] ** y))
<1>1. b \in Vectors /\ m.b = b /\ Inverts(m.aInv, map)
  BY DEF Fits
<1>2. Along(b, y, phi) \in Vectors
  BY <1>1, AlongIs
<1>3. sum = Along(b, y, phi)
  <2>1. \A i \in Coords : phi[i] ** y = y ** phi[i]
    <3> TAKE i \in Coords
    <3>1. phi[i] \in Lowest
      BY DEF Vectors
    <3> QED BY <3>1, Ring
  <2>2. [i \in Coords |-> m.b[i] ++ (phi[i] ** y)] = Along(b, y, phi)
    BY <1>1, <2>1 DEF Along
  <2>3. Listed(Along(b, y, phi)) = Along(b, y, phi)
    BY <1>2, ListedSame DEF Vectors
  <2> QED BY <2>2, <2>3 DEF Vec
<1>4. Inverts(aInv, Observed1(map, phi))
  BY <1>1, InvertsMore
<1>5. /\ Updated(m, phi, y).aInv = aInv /\ Updated(m, phi, y).b = sum
      /\ Updated(m, phi, y).w = Apply(aInv, sum)
  BY DEF Updated
<1> HIDE DEF aInv, sum
<1> QED BY <1>2, <1>3, <1>4, <1>5 DEF Fits

\* A model that fits solves its equations.
LEMMA FitSolves ==
  ASSUME NEW m, NEW map, NEW b, Fits(m, map, b)
  PROVE  m.w \in Vectors /\ map[m.w] = b
<1>1. Inverts(m.aInv, map) /\ b \in Vectors /\ m.w = Apply(m.aInv, b)
  BY DEF Fits
<1>2. m.w \in Vectors
  BY <1>1, ApplyIs DEF Inverts
<1> QED BY <1>1, <1>2 DEF Inverts

-----------------------------------------------------------------------------
(* The regression: sums *)

\* A sum of the values of a function
LEMMA SumOverIs ==
  ASSUME NEW n \in Nat, NEW f \in [1 .. n -> Lowest]
  PROVE  /\ f \in Seq(Lowest) /\ Len(f) = n
         /\ SumOver(n, f) = SumFrac(f) /\ SumFrac(f) \in Lowest
<1>1. f \in Seq(Lowest) /\ Len(f) = n /\ SubSeq(f, 1, n) = f
  OBVIOUS
<1>2. \A k \in 1 .. Len(f) : Reduced(f[k])
  BY <1>1, LowestIs
<1>3. Reduced(SumFrac(f))
  BY <1>1, <1>2, SumReduced
<1> QED BY <1>1, <1>3, LowestIs DEF SumOver

\* A sum with one value more
LEMMA SumOverMore ==
  ASSUME NEW n \in Nat, NEW f \in [1 .. n -> Lowest], NEW g \in [1 .. n + 1 -> Lowest],
         \A k \in 1 .. n : g[k] = f[k]
  PROVE  SumOver(n + 1, g) = SumOver(n, f) ++ g[n + 1]
<1>1. Len(f) = n /\ SumOver(n, f) = SumFrac(f)
  BY SumOverIs
<1>2. n + 1 \in Nat
  OBVIOUS
<1>3. Len(g) = n + 1 /\ SumOver(n + 1, g) = SumFrac(g)
  BY <1>2, SumOverIs
<1>4. SumFrac(g) = SumFrac(f) ++ g[Len(g)]
  BY <1>1, <1>3, SumMore
<1> QED BY <1>1, <1>3, <1>4

\* Sums of nothing, and of zeros
LEMMA SumOverNone ==
  ASSUME NEW f
  PROVE  SumOver(0, f) = Zero
<1>1. SubSeq(f, 1, 0) = <<>>
  OBVIOUS
<1> QED BY <1>1, SumOne DEF SumOver

LEMMA SumOverZeros ==
  ASSUME NEW n \in Nat, NEW f \in [1 .. n -> Lowest], \A k \in 1 .. n : f[k] = Zero
  PROVE  SumOver(n, f) = Zero
<1> DEFINE upto(k) == [j \in 1 .. k |-> f[j]]
           S == {k \in Int : SumOver(k, upto(k)) = Zero}
<1>1. 0 \in S
  BY SumOverNone
<1>2. ASSUME NEW k \in 0 .. n - 1, k \in S
      PROVE  k + 1 \in S
  <2>1. k \in Nat /\ k + 1 \in Int /\ k + 1 \in 1 .. n
    OBVIOUS
  <2>2. upto(k) \in [1 .. k -> Lowest] /\ upto(k + 1) \in [1 .. k + 1 -> Lowest]
    BY <2>1
  <2>3. \A j \in 1 .. k : upto(k + 1)[j] = upto(k)[j]
    BY <2>1
  <2>4. upto(k + 1)[k + 1] = Zero
    BY <2>1
  <2>5. SumOver(k, upto(k)) = Zero
    BY <1>2
  <2> HIDE DEF upto
  <2>6. SumOver(k + 1, upto(k + 1)) = SumOver(k, upto(k)) ++ upto(k + 1)[k + 1]
    BY <2>1, <2>2, <2>3, SumOverMore
  <2>7. Zero ++ Zero = Zero
    BY Ring
  <2> QED BY <2>1, <2>4, <2>5, <2>6, <2>7
<1>3. 0 .. n \subseteq S
  <2>1. 0 \in Int /\ n \in Int
    OBVIOUS
  <2> HIDE DEF S
  <2> QED BY <1>1, <1>2, <2>1, IntervalInduction
<1>4. n \in S
  BY <1>3
<1>5. upto(n) = f
  OBVIOUS
<1> HIDE DEF upto
<1> QED BY <1>4, <1>5

\* Only the last value changes, from zero.
LEMMA SumOverLast ==
  ASSUME NEW n \in Nat \ {0}, NEW f \in [1 .. n -> Lowest], NEW g \in [1 .. n -> Lowest],
         \A k \in 1 .. n - 1 : g[k] = f[k], f[n] = Zero
  PROVE  SumOver(n, g) = SumOver(n, f) ++ g[n]
<1>1. PICK m \in Nat : n = m + 1
  <2>1. n - 1 \in Nat /\ n = (n - 1) + 1
    OBVIOUS
  <2> QED BY <2>1
<1>2. PICK h \in [1 .. m -> Lowest] : \A k \in 1 .. m : h[k] = f[k] /\ h[k] = g[k]
  <2>1. [k \in 1 .. m |-> f[k]] \in [1 .. m -> Lowest]
    BY <1>1
  <2>2. \A k \in 1 .. m : [j \in 1 .. m |-> f[j]][k] = f[k] /\ f[k] = g[k]
    BY <1>1
  <2> QED BY <2>1, <2>2
<1>3. SumOver(m + 1, f) = SumOver(m, h) ++ f[m + 1]
  <2>1. f \in [1 .. m + 1 -> Lowest] /\ \A k \in 1 .. m : f[k] = h[k]
    BY <1>1, <1>2
  <2> QED BY <1>2, <2>1, SumOverMore
<1>4. SumOver(m + 1, g) = SumOver(m, h) ++ g[m + 1]
  <2>1. g \in [1 .. m + 1 -> Lowest] /\ \A k \in 1 .. m : g[k] = h[k]
    BY <1>1, <1>2
  <2> QED BY <1>2, <2>1, SumOverMore
<1>5. SumOver(m, h) \in Lowest
  BY SumOverIs
<1>6. SumOver(m, h) ++ Zero = SumOver(m, h)
  BY <1>5, Ring
<1> QED BY <1>1, <1>3, <1>4, <1>6

-----------------------------------------------------------------------------
(* The regression: powers and returns *)

IsPower(p, f, n) == p = [k \in 0 .. n |-> IF k = 0 THEN One ELSE p[k - 1] ** f]

LEMMA PowerExists ==
  ASSUME NEW f
  PROVE  \A n \in Nat : \E p : IsPower(p, f, n)
<1> DEFINE S == {n \in Int : \E p : IsPower(p, f, n)}
<1>1. 0 \in S
  <2> DEFINE p == [k \in 0 .. 0 |-> One]
  <2>1. IsPower(p, f, 0)
    BY DEF IsPower
  <2> QED BY <2>1
<1>2. ASSUME NEW n \in Nat, n \in S
      PROVE  n + 1 \in S
  <2>1. PICK p : IsPower(p, f, n)
    BY <1>2
  <2> DEFINE g == [k \in 0 .. n + 1 |-> IF k <= n THEN p[k] ELSE p[n] ** f]
  <2>2. ASSUME NEW k \in 0 .. n + 1
        PROVE  g[k] = IF k = 0 THEN One ELSE g[k - 1] ** f
    <3>1. CASE k = 0
      BY <2>1, <3>1 DEF IsPower
    <3>2. CASE k # 0
      <4>1. k - 1 \in 0 .. n + 1 /\ k - 1 <= n
        BY <3>2
      <4>2. g[k - 1] = p[k - 1]
        BY <4>1
      <4>3. CASE k <= n
        <5>1. k \in 0 .. n
          BY <4>3
        <5>2. p[k] = p[k - 1] ** f
          BY <2>1, <3>2, <5>1 DEF IsPower
        <5> QED BY <3>2, <4>2, <4>3, <5>2
      <4>4. CASE k = n + 1
        <5>1. g[k] = p[n] ** f /\ k - 1 = n
          BY <4>4
        <5> QED BY <3>2, <4>2, <5>1
      <4> QED BY <4>3, <4>4
    <3> QED BY <3>1, <3>2
  <2>3. IsPower(g, f, n + 1)
    <3>1. g = [k \in 0 .. n + 1 |-> g[k]]
      OBVIOUS
    <3> HIDE DEF g
    <3> QED BY <2>2, <3>1 DEF IsPower
  <2> QED BY <2>3
<1>3. \A n \in Nat : n \in S
  <2>1. ASSUME NEW n \in Nat PROVE n \in S
    <3>1. \A m \in 0 .. n - 1 : m \in S => m + 1 \in S
      BY <1>2
    <3>2. 0 .. n \subseteq S
      <4> HIDE DEF S
      <4> QED BY <1>1, <3>1, IntervalInduction
    <3> QED BY <3>2
  <2> QED BY <2>1
<1> QED BY <1>3

\* A power by its recursion, whatever the range it is computed over
LEMMA PowerIs ==
  ASSUME NEW f
  PROVE  Power(f, 0) = One /\ \A n \in Nat : Power(f, n + 1) = Power(f, n) ** f
<1>1. ASSUME NEW n \in Nat
      PROVE  \E p : /\ Power(f, n) = p[n] /\ p[0] = One
                    /\ \A k \in 1 .. n : p[k] = p[k - 1] ** f
  <2> DEFINE p == CHOOSE q : IsPower(q, f, n)
  <2>1. IsPower(p, f, n)
    BY PowerExists
  <2>2. Power(f, n) = p[n]
    BY DEF Power, IsPower
  <2> HIDE DEF p
  <2>3. p[0] = One /\ \A k \in 1 .. n : p[k] = p[k - 1] ** f
    BY <2>1 DEF IsPower
  <2> QED BY <2>2, <2>3
<1>2. Power(f, 0) = One
  <2>1. 0 \in Nat
    OBVIOUS
  <2> QED BY <1>1, <2>1
<1>3. ASSUME NEW n \in Nat
      PROVE  Power(f, n + 1) = Power(f, n) ** f
  <2>1. PICK p : /\ Power(f, n) = p[n] /\ p[0] = One
                 /\ \A k \in 1 .. n : p[k] = p[k - 1] ** f
    BY <1>1
  <2>2. PICK q : /\ Power(f, n + 1) = q[n + 1] /\ q[0] = One
                 /\ \A k \in 1 .. n + 1 : q[k] = q[k - 1] ** f
    <3>1. n + 1 \in Nat
      OBVIOUS
    <3> QED BY <1>1, <3>1
  <2> DEFINE S == {k \in Int : p[k] = q[k]}
  <2>3. 0 \in S
    BY <2>1, <2>2
  <2>4. ASSUME NEW k \in 0 .. n - 1, k \in S
        PROVE  k + 1 \in S
    <3>1. k + 1 \in 1 .. n /\ k + 1 \in 1 .. n + 1 /\ (k + 1) - 1 = k /\ k + 1 \in Int
      OBVIOUS
    <3>2. p[k + 1] = p[k] ** f /\ q[k + 1] = q[k] ** f
      BY <2>1, <2>2, <3>1
    <3> QED BY <2>4, <3>1, <3>2
  <2>5. 0 .. n \subseteq S
    <3>1. 0 \in Int /\ n \in Int
      OBVIOUS
    <3> HIDE DEF S
    <3> QED BY <2>3, <2>4, <3>1, IntervalInduction
  <2>6. p[n] = q[n] /\ q[n + 1] = q[n] ** f
    <3>1. n \in S /\ n + 1 \in 1 .. n + 1 /\ (n + 1) - 1 = n
      BY <2>5
    <3> QED BY <2>2, <3>1
  <2> QED BY <2>1, <2>2, <2>6
<1> QED BY <1>2, <1>3

\* The powers of the discount
LEMMA PowerLowest ==
  ASSUME NEW n \in Nat
  PROVE  Power(Gamma, n) \in Lowest
<1> DEFINE S == {k \in Int : Power(Gamma, k) \in Lowest}
<1>1. 0 \in S
  <2>1. One \in Lowest
    BY Ring
  <2> QED BY <2>1, PowerIs
<1>2. ASSUME NEW k \in 0 .. n - 1, k \in S
      PROVE  k + 1 \in S
  <2>1. k \in Nat /\ k + 1 \in Int
    OBVIOUS
  <2>2. Power(Gamma, k + 1) = Power(Gamma, k) ** Gamma
    BY <2>1, PowerIs
  <2>3. Reduced(Power(Gamma, k) ** Gamma)
    BY <1>2, LowestIs, ReducedIs, Reduces, RewardAssumption
  <2> QED BY <2>1, <2>2, <2>3, LowestIs
<1>3. 0 .. n \subseteq S
  <2>1. 0 \in Int /\ n \in Int
    OBVIOUS
  <2> HIDE DEF S
  <2> QED BY <1>1, <1>2, <2>1, IntervalInduction
<1> QED BY <1>3

\* The discounted rewards, and those of the rewards after the first
Weighs(f, n, r)     == f = [k \in 1 .. n |-> Power(Gamma, k - 1) ** r[k]]
WeighsNext(g, n, r) == g = [k \in 1 .. n |-> Power(Gamma, k - 1) ** r[k + 1]]

\* The discounted sum from one reward on is that reward and the discounted rest.
LEMMA DiscountedSum ==
  ASSUME NEW m \in Nat, NEW r, \A k \in 1 .. m + 1 : r[k] \in Lowest,
         NEW f, Weighs(f, m + 1, r), NEW g, WeighsNext(g, m, r)
  PROVE  /\ SumOver(m + 1, f) = r[1] ++ (Gamma ** SumOver(m, g))
         /\ SumOver(m + 1, f) \in Lowest /\ SumOver(m, g) \in Lowest
<1> USE DEF Weighs, WeighsNext
<1>1. \A k \in 1 .. m + 1 : Power(Gamma, k - 1) \in Lowest
  <2> TAKE k \in 1 .. m + 1
  <2>1. k - 1 \in Nat
    OBVIOUS
  <2> QED BY <2>1, PowerLowest
<1>2. f \in [1 .. m + 1 -> Lowest] /\ g \in [1 .. m -> Lowest]
  <2>1. ASSUME NEW k \in 1 .. m + 1 PROVE Power(Gamma, k - 1) ** r[k] \in Lowest
    BY <1>1, Ring
  <2>2. ASSUME NEW k \in 1 .. m PROVE Power(Gamma, k - 1) ** r[k + 1] \in Lowest
    <3>1. k \in 1 .. m + 1 /\ k + 1 \in 1 .. m + 1
      OBVIOUS
    <3>2. Power(Gamma, k - 1) \in Lowest /\ r[k + 1] \in Lowest
      BY <1>1, <3>1
    <3> QED BY <3>2, Ring
  <2> QED BY <2>1, <2>2
<1>3. PICK h \in [1 .. m -> Lowest] : \A k \in 1 .. m : h[k] = f[k + 1]
  <2>1. [k \in 1 .. m |-> f[k + 1]] \in [1 .. m -> Lowest]
    BY <1>2
  <2>2. \A k \in 1 .. m : [j \in 1 .. m |-> f[j + 1]][k] = f[k + 1]
    OBVIOUS
  <2> QED BY <2>1, <2>2
<1>4. PICK c \in Lowest : c = Gamma ** One /\ \A v \in Lowest : Gamma ** v = c ** v
  BY Lowered, RewardAssumption
<1>5. ASSUME NEW k \in 1 .. m
      PROVE  Reduced(g[k]) /\ g[k] ** c = h[k]
  <2>1. k - 1 \in Nat /\ k \in Nat /\ k + 1 \in 1 .. m + 1 /\ (k + 1) - 1 = k /\ (k - 1) + 1 = k
    OBVIOUS
  <2>2. PICK p \in Lowest, x \in Lowest : p = Power(Gamma, k - 1) /\ x = r[k + 1]
    BY <2>1, PowerLowest
  <2>3. g[k] = p ** x /\ g[k] \in Lowest
    BY <1>2, <2>2
  <2>4. h[k] = Power(Gamma, k) ** x
    BY <1>3, <2>1, <2>2
  <2>5. Power(Gamma, k) = p ** Gamma
    BY <2>1, <2>2, PowerIs
  <2>6. p ** Gamma = Gamma ** p
    <3>1. IsFrac(p) /\ IsFrac(Gamma)
      BY LowestIs, ReducedIs, RewardAssumption
    <3>2. p[1] * Gamma[1] = Gamma[1] * p[1] /\ p[2] * Gamma[2] = Gamma[2] * p[2]
      BY <3>1 DEF IsFrac
    <3> QED BY <3>2 DEF **
  <2>7. (p ** x) ** c = (c ** p) ** x
    <3>1. (p ** x) ** c = c ** (p ** x)
      <4>1. p ** x \in Lowest
        BY Ring
      <4> QED BY <4>1, Ring
    <3>2. c ** (p ** x) = (c ** p) ** x
      BY Ring
    <3> QED BY <3>1, <3>2
  <2>8. Gamma ** p = c ** p
    BY <1>4
  <2> QED BY <2>3, <2>4, <2>5, <2>6, <2>7, <2>8, LowestIs
<1>6. Len(f) = m + 1 /\ SumOver(m + 1, f) = SumFrac(f) /\ SumFrac(f) \in Lowest
  <2>1. m + 1 \in Nat
    OBVIOUS
  <2> QED BY <1>2, <2>1, SumOverIs
<1>7. /\ Len(g) = m /\ SumOver(m, g) = SumFrac(g) /\ SumFrac(g) \in Lowest
      /\ Len(h) = m
  BY <1>2, SumOverIs
<1>8. SumFrac(f) = f[1] ++ SumFrac(h)
  <2>1. \A k \in 1 .. m + 1 : Reduced(f[k])
    BY <1>2, LowestIs
  <2>2. \A k \in 1 .. m : h[k] = f[k + 1]
    BY <1>3
  <2>3. Len(f) = m + 1 /\ Len(h) = m
    BY <1>6, <1>7
  <2> QED BY ONLY m \in Nat, <2>1, <2>2, <2>3, SumTail
<1>9. SumFrac(g) ** c = SumFrac(h)
  <2>1. Reduced(c)
    BY LowestIs
  <2>2. Len(g) = m /\ Len(h) = m
    BY <1>7
  <2>3. \A k \in 1 .. m : Reduced(g[k]) /\ g[k] ** c = h[k]
    BY <1>5
  <2> QED BY ONLY m \in Nat, <2>1, <2>2, <2>3, SumTimes
<1>10. f[1] = r[1]
  <2>1. 1 \in 1 .. m + 1 /\ 1 - 1 = 0
    OBVIOUS
  <2>2. One ** r[1] = r[1]
    BY <2>1, Ring
  <2> QED BY <2>1, <2>2, PowerIs
<1>11. SumFrac(g) ** c = Gamma ** SumFrac(g)
  <2>1. SumFrac(g) ** c = c ** SumFrac(g)
    BY <1>7, Ring
  <2> QED BY <1>4, <1>7, <2>1
<1> QED BY <1>6, <1>7, <1>8, <1>9, <1>10, <1>11

-----------------------------------------------------------------------------
(* The regression: the rewards of an episode *)

\* Steps and episodes whose numbers are in lowest terms
StepRecord    == [action : QAction, phi : Vectors, equity : Lowest, risk : Lowest]
EpisodeRecord == [from : Lowest, steps : Seq(StepRecord), over : BOOLEAN]

EquityOf(e, j) == IF j = 0 THEN e.from ELSE e.steps[j].equity
Before(e, k)   == {EquityOf(e, j) : j \in 0 .. k - 1}
GreatestIn(S)  == CHOOSE p \in S : \A q \in S : q \preceq p
RewardFrom(last, peak, equity, risk) ==
  (((equity -- last) // PnlScale) -- (LambdaRisk ** risk))
    -- (LambdaDd ** MinFrac(MaxFrac((peak -- equity) // PnlScale, Zero), DdCap))

\* The reward by its definition, and by the buffer
LEMMA RewardOfIs ==
  ASSUME NEW e, NEW k
  PROVE  RewardOf(e, k) = RewardFrom(EquityOf(e, k - 1), GreatestIn(Before(e, k)), EquityOf(e, k),
                                     e.steps[k].risk)
BY DEF RewardOf, RewardFrom, EquityOf, Before, GreatestIn

LEMMA RewardIs ==
  ASSUME NEW buffer, NEW equity, NEW lots, NEW volSq
  PROVE  Reward(buffer, equity, lots, volSq)
           = RewardFrom(buffer.prevEquity, buffer.equityPeak, equity, (lots ** lots) ** volSq)
BY DEF Reward, RewardFrom

\* A reward is in lowest terms whatever the terms of the configuration.
LEMMA RewardLowest ==
  ASSUME NEW last \in Lowest, NEW peak \in Lowest, NEW equity \in Lowest, NEW risk \in Lowest
  PROVE  RewardFrom(last, peak, equity, risk) \in Lowest
<1>1. IsFrac(last) /\ IsFrac(peak) /\ IsFrac(equity) /\ IsFrac(risk) /\ IsFrac(Zero)
  <2>1. Zero \in Lowest
    BY Ring
  <2> QED BY <2>1, LowestIs, ReducedIs
<1>2. IsFrac(PnlScale) /\ Zero \prec PnlScale /\ IsFrac(LambdaRisk) /\ IsFrac(LambdaDd) /\ IsFrac(DdCap)
  BY RewardAssumption
<1>3. PICK gain : gain = (equity -- last) // PnlScale /\ IsFrac(gain)
  <2>1. IsFrac(equity -- last)
    BY <1>1, Reduces, ReducedIs
  <2> QED BY <1>2, <2>1, Reduces, ReducedIs
<1>4. PICK danger : danger = LambdaRisk ** risk /\ IsFrac(danger)
  BY <1>1, <1>2, Reduces, ReducedIs
<1>5. PICK fall : fall = MinFrac(MaxFrac((peak -- equity) // PnlScale, Zero), DdCap) /\ IsFrac(fall)
  <2>1. IsFrac(peak -- equity)
    BY <1>1, Reduces, ReducedIs
  <2>2. IsFrac((peak -- equity) // PnlScale)
    BY <1>2, <2>1, Reduces, ReducedIs
  <2> QED BY <1>1, <1>2, <2>2 DEF MaxFrac, MinFrac
<1>6. PICK drop : drop = LambdaDd ** fall /\ IsFrac(drop)
  BY <1>2, <1>5, Reduces, ReducedIs
<1>7. IsFrac(gain -- danger)
  BY <1>3, <1>4, Reduces, ReducedIs
<1>8. Reduced((gain -- danger) -- drop)
  BY <1>6, <1>7, Reduces
<1> QED BY <1>3, <1>4, <1>5, <1>6, <1>8, LowestIs DEF RewardFrom

\* The greatest of a set of fractions
LEMMA GreatestIs ==
  ASSUME NEW S, S \subseteq Lowest, NEW p \in S, \A q \in S : q \preceq p
  PROVE  GreatestIn(S) = p
<1>1. GreatestIn(S) \in S /\ \A q \in S : q \preceq GreatestIn(S)
  BY DEF GreatestIn
<1>2. GreatestIn(S) \preceq p /\ p \preceq GreatestIn(S)
  BY <1>1
<1> QED BY <1>1, <1>2, LowestIs, OrderSame

\* The equities of an episode
LEMMA EquitiesAre ==
  ASSUME NEW e \in EpisodeRecord
  PROVE  /\ Len(e.steps) \in Nat
         /\ \A k \in 1 .. Len(e.steps) : e.steps[k] \in StepRecord
         /\ \A k \in 0 .. Len(e.steps) : EquityOf(e, k) \in Lowest
<1>1. e.steps \in Seq(StepRecord) /\ e.from \in Lowest /\ Len(e.steps) \in Nat
  BY DEF EpisodeRecord
<1>2. \A k \in 1 .. Len(e.steps) : e.steps[k] \in StepRecord
  BY <1>1, ElementOfSeq
<1>3. ASSUME NEW k \in 0 .. Len(e.steps)
      PROVE  EquityOf(e, k) \in Lowest
  <2>1. CASE k = 0
    BY <1>1, <2>1 DEF EquityOf
  <2>2. CASE k # 0
    <3>1. k \in 1 .. Len(e.steps)
      BY <2>2
    <3>2. e.steps[k] \in StepRecord
      BY <1>2, <3>1
    <3> QED BY <2>2, <3>2 DEF EquityOf, StepRecord
  <2> QED BY <2>1, <2>2
<1> QED BY <1>1, <1>2, <1>3

\* The reward of every step of an episode is in lowest terms.
LEMMA RewardsLowest ==
  ASSUME NEW e \in EpisodeRecord, NEW k \in 1 .. Len(e.steps)
  PROVE  RewardOf(e, k) \in Lowest
<1>1. k \in 0 .. Len(e.steps) /\ k - 1 \in 0 .. Len(e.steps) /\ k \in Nat \ {0} /\ Len(e.steps) \in Nat
  BY EquitiesAre
<1>2. EquityOf(e, k) \in Lowest /\ EquityOf(e, k - 1) \in Lowest /\ e.steps[k].risk \in Lowest
  BY <1>1, EquitiesAre DEF StepRecord
<1>3. GreatestIn(Before(e, k)) \in Lowest
  <2> DEFINE q == [j \in 1 .. k |-> EquityOf(e, j - 1)]
  <2>1. \A j \in 1 .. k : q[j] = EquityOf(e, j - 1) /\ j - 1 \in 0 .. k - 1 /\ q[j] \in Lowest
    BY <1>1, EquitiesAre
  <2> HIDE DEF q
  <2>2. \A j \in 1 .. k : IsFrac(q[j])
    BY <2>1, LowestIs, ReducedIs
  <2>3. PICK i \in 1 .. k : \A j \in 1 .. k : q[j] \preceq q[i]
    BY <1>1, <2>2, GreatestOf
  <2>4. Before(e, k) \subseteq Lowest
    BY <1>1, EquitiesAre DEF Before
  <2>5. q[i] \in Before(e, k)
    BY <2>1 DEF Before
  <2>6. ASSUME NEW v \in Before(e, k)
        PROVE  v \preceq q[i]
    <3>1. PICK j \in 0 .. k - 1 : v = EquityOf(e, j)
      BY DEF Before
    <3>2. j + 1 \in 1 .. k /\ (j + 1) - 1 = j
      BY <1>1
    <3>3. q[j + 1] = v
      BY <2>1, <3>1, <3>2
    <3> QED BY <2>3, <3>2, <3>3
  <2>7. GreatestIn(Before(e, k)) = q[i]
    BY <2>4, <2>5, <2>6, GreatestIs
  <2> QED BY <2>4, <2>5, <2>7
<1> QED BY <1>2, <1>3, RewardOfIs, RewardLowest

-----------------------------------------------------------------------------
(* The regression: the buffer of the episode that is under way *)

BufferFits(buffer, e) ==
  /\ buffer \in [start : {buffer.start}, transitions : {buffer.transitions},
                 prevEquity : {buffer.prevEquity}, equityPeak : {buffer.equityPeak}]
  /\ buffer.transitions \in Seq([at : {0}, action : QAction, phi : Vectors, reward : Lowest])
  /\ Len(buffer.transitions) = Len(e.steps)
  /\ \A k \in 1 .. Len(e.steps) :
       /\ buffer.transitions[k].action = e.steps[k].action
       /\ buffer.transitions[k].phi = e.steps[k].phi
       /\ buffer.transitions[k].reward = RewardOf(e, k)
  /\ buffer.prevEquity = EquityOf(e, Len(e.steps))
  /\ buffer.equityPeak \in Before(e, Len(e.steps) + 1)
  /\ \A q \in Before(e, Len(e.steps) + 1) : q \preceq buffer.equityPeak

\* A new buffer belongs to an episode without steps.
LEMMA NewBufferFits ==
  ASSUME NEW equity \in Lowest, NEW e, e = [from |-> equity, steps |-> <<>>, over |-> FALSE]
  PROVE  e \in EpisodeRecord /\ BufferFits(NewBuffer(0, equity), e)
<1>1. e \in EpisodeRecord /\ e.steps = <<>> /\ Len(e.steps) = 0 /\ e.from = equity
  BY DEF EpisodeRecord
<1>2. Before(e, 1) = {equity} /\ EquityOf(e, 0) = equity
  <2>1. 0 .. 1 - 1 = {0}
    OBVIOUS
  <2> QED BY <1>1, <2>1 DEF Before, EquityOf
<1>3. equity \preceq equity
  BY LowestIs, ReducedIs, OrderTotal
<1>4. PICK b : b = NewBuffer(0, equity)
  OBVIOUS
<1>5. /\ b \in [start : {0}, transitions : {<<>>}, prevEquity : {equity}, equityPeak : {equity}]
  BY <1>4 DEF NewBuffer
<1>6. b.transitions = <<>> /\ b.prevEquity = equity /\ b.equityPeak = equity /\ b.start = 0
  BY <1>5
<1>7. /\ <<>> \in Seq([at : {0}, action : QAction, phi : Vectors, reward : Lowest])
      /\ Len(<<>>) = 0 /\ 0 + 1 = 1
  OBVIOUS
<1>8. BufferFits(b, e)
  <2>1. Len(e.steps) + 1 = 1 /\ 1 .. Len(e.steps) = {}
    BY <1>1
  <2>2. /\ b.equityPeak \in Before(e, Len(e.steps) + 1)
        /\ \A q \in Before(e, Len(e.steps) + 1) : q \preceq b.equityPeak
    BY <1>2, <1>3, <1>6, <2>1
  <2>3. b.prevEquity = EquityOf(e, Len(e.steps))
    BY <1>1, <1>2, <1>6
  <2>4. b \in [start : {b.start}, transitions : {b.transitions}, prevEquity : {b.prevEquity},
               equityPeak : {b.equityPeak}]
    BY <1>5
  <2>5. /\ b.transitions \in Seq([at : {0}, action : QAction, phi : Vectors, reward : Lowest])
        /\ Len(b.transitions) = Len(e.steps)
    BY <1>1, <1>6, <1>7
  <2> QED BY <2>1, <2>2, <2>3, <2>4, <2>5 DEF BufferFits
<1> QED BY <1>1, <1>4, <1>8

\* A step more: the rewards so far stay, and the new one is what the buffer makes of its last equity
\* and its peak.
LEMMA RecordedFits ==
  ASSUME NEW e \in EpisodeRecord, NEW buffer, BufferFits(buffer, e), NEW a \in QAction,
         NEW phi \in Vectors, NEW equity \in Lowest, NEW lots, NEW volSq,
         IsFrac(lots), IsFrac(volSq), NEW risk, risk = (lots ** lots) ** volSq,
         NEW d, d = [e EXCEPT !.steps = Append(@, [action |-> a, phi |-> phi, equity |-> equity,
                                                   risk |-> risk])]
  PROVE  d \in EpisodeRecord /\ d.over = e.over
         /\ BufferFits(Recorded(buffer, 0, a, phi, equity, lots, volSq), d)
<1> DEFINE n == Len(e.steps)
<1>1. risk \in Lowest
  <2>1. IsFrac(lots ** lots)
    BY Reduces, ReducedIs
  <2> QED BY <2>1, Reduces, LowestIs
<1>2. PICK s : s = [action |-> a, phi |-> phi, equity |-> equity, risk |-> risk]
  OBVIOUS
<1>3. s \in StepRecord /\ s.action = a /\ s.phi = phi /\ s.equity = equity /\ s.risk = risk
  BY <1>1, <1>2 DEF StepRecord
<1>4. e.steps \in Seq(StepRecord) /\ n \in Nat
  BY DEF EpisodeRecord
<1>5. d = [e EXCEPT !.steps = Append(e.steps, s)]
  BY <1>2
<1>6. /\ d \in EpisodeRecord /\ d.steps = Append(e.steps, s) /\ d.from = e.from /\ d.over = e.over
  <2>1. Append(e.steps, s) \in Seq(StepRecord)
    BY <1>3, <1>4
  <2> QED BY <1>5, <2>1 DEF EpisodeRecord
<1>7. /\ Len(d.steps) = n + 1 /\ d.steps[n + 1] = s
      /\ \A k \in 1 .. n : d.steps[k] = e.steps[k]
  BY <1>4, <1>6
<1>8. \A j \in 0 .. n : EquityOf(d, j) = EquityOf(e, j)
  BY <1>4, <1>6, <1>7 DEF EquityOf
<1>9. EquityOf(d, n + 1) = equity
  BY <1>3, <1>4, <1>7 DEF EquityOf
<1>10. \A k \in 1 .. n + 1 : Before(d, k) = Before(e, k)
  <2> TAKE k \in 1 .. n + 1
  <2>1. \A j \in 0 .. k - 1 : j \in 0 .. n
    BY <1>4
  <2> QED BY <1>8, <2>1 DEF Before
<1>11. \A k \in 1 .. n : RewardOf(d, k) = RewardOf(e, k)
  <2> TAKE k \in 1 .. n
  <2>1. k - 1 \in 0 .. n /\ k \in 0 .. n /\ k \in 1 .. n + 1
    BY <1>4
  <2>2. EquityOf(d, k - 1) = EquityOf(e, k - 1) /\ EquityOf(d, k) = EquityOf(e, k)
        /\ Before(d, k) = Before(e, k) /\ d.steps[k] = e.steps[k]
    BY <1>7, <1>8, <1>10, <2>1
  <2> QED BY <2>2, RewardOfIs
<1>12. PICK last \in Lowest, peak \in Lowest :
         /\ last = buffer.prevEquity /\ peak = buffer.equityPeak
         /\ last = EquityOf(e, n) /\ peak \in Before(e, n + 1)
         /\ \A q \in Before(e, n + 1) : q \preceq peak
         /\ Before(e, n + 1) \subseteq Lowest
  <2>1. Before(e, n + 1) \subseteq Lowest
    BY <1>4, EquitiesAre DEF Before
  <2>2. EquityOf(e, n) \in Lowest
    BY <1>4, EquitiesAre
  <2> QED BY <2>1, <2>2 DEF BufferFits
<1>13. PICK reward \in Lowest :
         reward = Reward(buffer, equity, lots, volSq) /\ reward = RewardOf(d, n + 1)
  <2>1. Reward(buffer, equity, lots, volSq) = RewardFrom(last, peak, equity, risk)
    BY <1>12, RewardIs
  <2>2. RewardFrom(last, peak, equity, risk) \in Lowest
    BY <1>1, <1>12, RewardLowest
  <2>3. GreatestIn(Before(d, n + 1)) = peak
    <3>1. Before(d, n + 1) = Before(e, n + 1)
      <4>1. n + 1 \in 1 .. n + 1
        BY <1>4
      <4> HIDE DEF n
      <4> QED BY <1>10, <4>1
    <3> QED BY <1>12, <3>1, GreatestIs
  <2>4. EquityOf(d, (n + 1) - 1) = last
    <3>1. (n + 1) - 1 = n /\ n \in 0 .. n
      BY <1>4
    <3> QED BY <1>8, <1>12, <3>1
  <2>5. RewardOf(d, n + 1) = RewardFrom(last, peak, equity, risk)
    BY <1>3, <1>7, <1>9, <2>3, <2>4, RewardOfIs
  <2> QED BY <2>1, <2>2, <2>5
<1>14. PICK t : t = [at |-> 0, action |-> a, phi |-> phi, reward |-> reward]
  OBVIOUS
<1> DEFINE Transition == [at : {0}, action : QAction, phi : Vectors, reward : Lowest]
<1>15. t \in Transition /\ t.action = a /\ t.phi = phi /\ t.reward = reward
  BY <1>14
<1>16. PICK q, top : q = Append(buffer.transitions, t) /\ top = MaxFrac(peak, equity)
  OBVIOUS
<1>17. PICK r : r = Recorded(buffer, 0, a, phi, equity, lots, volSq)
  OBVIOUS
<1>18. r = [buffer EXCEPT !.transitions = q, !.equityPeak = top, !.prevEquity = equity]
  BY <1>12, <1>13, <1>14, <1>16, <1>17 DEF Recorded
<1>19. r \in [start : {buffer.start}, transitions : {q}, prevEquity : {equity}, equityPeak : {top}]
  BY <1>18 DEF BufferFits
<1>20. r.transitions = q /\ r.prevEquity = equity /\ r.equityPeak = top /\ r.start = buffer.start
  BY <1>19
<1>21. buffer.transitions \in Seq(Transition) /\ Len(buffer.transitions) = n
  BY DEF BufferFits
<1> HIDE DEF Transition
<1>22. /\ q \in Seq(Transition) /\ Len(q) = n + 1 /\ q[n + 1] = t
       /\ \A k \in 1 .. n : q[k] = buffer.transitions[k]
  BY <1>15, <1>16, <1>21
<1>23. ASSUME NEW k \in 1 .. n + 1
       PROVE  /\ q[k].action = d.steps[k].action /\ q[k].phi = d.steps[k].phi
              /\ q[k].reward = RewardOf(d, k)
  <2>1. CASE k \in 1 .. n
    <3>1. /\ buffer.transitions[k].action = e.steps[k].action
          /\ buffer.transitions[k].phi = e.steps[k].phi
          /\ buffer.transitions[k].reward = RewardOf(e, k)
      BY <2>1 DEF BufferFits
    <3> QED BY <1>7, <1>11, <1>22, <2>1, <3>1
  <2>2. CASE k = n + 1
    BY <1>3, <1>7, <1>13, <1>15, <1>22, <2>2
  <2> QED BY <1>4, <2>1, <2>2
<1>24. Before(d, (n + 1) + 1) = Before(e, n + 1) \cup {equity}
  <2>1. 0 .. ((n + 1) + 1) - 1 = (0 .. (n + 1) - 1) \cup {n + 1} /\ (n + 1) - 1 = n
    BY <1>4
  <2>2. Before(e, n + 1) = {EquityOf(d, j) : j \in 0 .. (n + 1) - 1}
    BY <1>8, <2>1 DEF Before
  <2> QED BY <1>9, <2>1, <2>2 DEF Before
<1>25. /\ top \in Before(d, (n + 1) + 1) /\ \A v \in Before(d, (n + 1) + 1) : v \preceq top
  <2>1. (top = peak \/ top = equity) /\ top \in Lowest /\ peak \preceq top /\ equity \preceq top
    BY <1>16, LowestIs, GreaterOf
  <2>2. ASSUME NEW v \in Before(e, n + 1)
        PROVE  v \preceq top
    <3>1. v \in Lowest /\ v \preceq peak
      BY <1>12
    <3> QED BY <2>1, <3>1, LowestIs, Transitive
  <2> QED BY <1>12, <1>24, <2>1, <2>2
<1>26. BufferFits(r, d)
  BY <1>7, <1>9, <1>19, <1>20, <1>22, <1>23, <1>25 DEF BufferFits, Transition
<1> QED BY <1>6, <1>17, <1>26

-----------------------------------------------------------------------------
(* The regression: the returns of an episode *)

\* The return of a step is its reward and the discounted return of the next.
LEMMA ReturnOfIs ==
  ASSUME NEW e \in EpisodeRecord
  PROVE  /\ ReturnOf(e, Len(e.steps) + 1) = Zero
         /\ \A t \in 1 .. Len(e.steps) :
              /\ ReturnOf(e, t) = RewardOf(e, t) ++ (Gamma ** ReturnOf(e, t + 1))
              /\ ReturnOf(e, t) \in Lowest
<1>1. PICK n \in Nat : n = Len(e.steps)
  BY EquitiesAre
<1>2. ReturnOf(e, n + 1) = Zero
  <2>1. n - (n + 1) + 1 = 0
    OBVIOUS
  <2> QED BY <1>1, <2>1, SumOverNone DEF ReturnOf
<1>3. ASSUME NEW t \in 1 .. n
      PROVE  /\ ReturnOf(e, t) = RewardOf(e, t) ++ (Gamma ** ReturnOf(e, t + 1))
             /\ ReturnOf(e, t) \in Lowest
  <2>1. PICK m \in Nat : m = n - t /\ n - t + 1 = m + 1 /\ n - (t + 1) + 1 = m
    <3>1. n - t \in Nat /\ n - (t + 1) + 1 = n - t
      OBVIOUS
    <3> QED BY <3>1
  <2>2. PICK r : /\ r = [k \in 1 .. m + 1 |-> RewardOf(e, t + k - 1)]
                 /\ \A k \in 1 .. m + 1 : r[k] = RewardOf(e, t + k - 1) /\ r[k] \in Lowest
    <3> DEFINE r == [k \in 1 .. m + 1 |-> RewardOf(e, t + k - 1)]
    <3>1. ASSUME NEW k \in 1 .. m + 1
          PROVE  r[k] = RewardOf(e, t + k - 1) /\ r[k] \in Lowest
      <4>1. t + k - 1 \in 1 .. Len(e.steps)
        BY <1>1, <2>1
      <4> QED BY <4>1, RewardsLowest
    <3> QED BY <3>1
  <2>3. PICK f : /\ f = [k \in 1 .. m + 1 |-> Power(Gamma, k - 1) ** r[k]]
                 /\ f = [k \in 1 .. m + 1 |-> Power(Gamma, k - 1) ** RewardOf(e, t + k - 1)]
    BY <2>2
  <2>4. PICK g : /\ g = [k \in 1 .. m |-> Power(Gamma, k - 1) ** r[k + 1]]
                 /\ g = [k \in 1 .. m |-> Power(Gamma, k - 1) ** RewardOf(e, (t + 1) + k - 1)]
    <3> DEFINE g == [k \in 1 .. m |-> Power(Gamma, k - 1) ** r[k + 1]]
    <3>1. ASSUME NEW k \in 1 .. m
          PROVE  r[k + 1] = RewardOf(e, (t + 1) + k - 1)
      <4>1. k + 1 \in 1 .. m + 1 /\ t + (k + 1) - 1 = (t + 1) + k - 1
        BY <2>1
      <4> QED BY <2>2, <4>1
    <3>2. g = [k \in 1 .. m |-> Power(Gamma, k - 1) ** RewardOf(e, (t + 1) + k - 1)]
      BY <3>1
    <3> QED BY <3>2
  <2>5. ReturnOf(e, t) = SumOver(m + 1, f) /\ ReturnOf(e, t + 1) = SumOver(m, g)
    BY <1>1, <2>1, <2>3, <2>4 DEF ReturnOf
  <2>6. r[1] = RewardOf(e, t)
    <3>1. 1 \in 1 .. m + 1 /\ t + 1 - 1 = t
      BY <2>1
    <3> QED BY <2>2, <3>1
  <2>7. /\ SumOver(m + 1, f) = r[1] ++ (Gamma ** SumOver(m, g))
        /\ SumOver(m + 1, f) \in Lowest
    <3>1. \A k \in 1 .. m + 1 : r[k] \in Lowest
      BY <2>2
    <3>2. Weighs(f, m + 1, r)
      BY <2>3 DEF Weighs
    <3>3. WeighsNext(g, m, r)
      BY <2>4 DEF WeighsNext
    <3> QED BY ONLY m \in Nat, <3>1, <3>2, <3>3, DiscountedSum
  <2> QED BY <2>5, <2>6, <2>7
<1> QED BY <1>1, <1>2, <1>3

-----------------------------------------------------------------------------
(* The regression: the returns as the code computes them *)

IsBack(g, rewards, n, m) ==
  g = [k \in 0 .. m |-> IF k = 0 THEN Zero ELSE rewards[n - k + 1] ++ (Gamma ** g[k - 1])]

LEMMA BackExists ==
  ASSUME NEW rewards, NEW n
  PROVE  \A m \in Nat : \E g : IsBack(g, rewards, n, m)
<1> DEFINE S == {m \in Int : \E g : IsBack(g, rewards, n, m)}
           next(k, last) == rewards[n - k + 1] ++ (Gamma ** last)
<1>1. 0 \in S
  <2> DEFINE g == [k \in 0 .. 0 |-> Zero]
  <2>1. IsBack(g, rewards, n, 0)
    BY DEF IsBack
  <2> QED BY <2>1
<1>2. ASSUME NEW m \in Nat, m \in S
      PROVE  m + 1 \in S
  <2>1. PICK g : IsBack(g, rewards, n, m)
    BY <1>2
  <2>2. g = [k \in 0 .. m |-> IF k = 0 THEN Zero ELSE next(k, g[k - 1])]
    BY <2>1 DEF IsBack
  <2> DEFINE h == [k \in 0 .. m + 1 |-> IF k <= m THEN g[k] ELSE next(k, g[m])]
  <2> HIDE DEF next
  <2>3. ASSUME NEW k \in 0 .. m + 1
        PROVE  h[k] = IF k = 0 THEN Zero ELSE next(k, h[k - 1])
    <3>1. CASE k = 0
      BY <2>2, <3>1
    <3>2. CASE k # 0
      <4>1. k - 1 \in 0 .. m + 1 /\ k - 1 <= m
        BY <3>2
      <4>2. h[k - 1] = g[k - 1]
        BY <4>1
      <4>3. CASE k <= m
        <5>1. k \in 0 .. m
          BY <4>3
        <5>2. g[k] = next(k, g[k - 1])
          BY <2>2, <3>2, <5>1
        <5> QED BY <3>2, <4>2, <4>3, <5>2
      <4>4. CASE k = m + 1
        <5>1. h[k] = next(k, g[m]) /\ k - 1 = m
          BY <4>4
        <5> QED BY <3>2, <4>2, <5>1
      <4> QED BY <4>3, <4>4
    <3> QED BY <3>1, <3>2
  <2>4. h = [k \in 0 .. m + 1 |-> h[k]]
    OBVIOUS
  <2> HIDE DEF h
  <2>5. h = [k \in 0 .. m + 1 |-> IF k = 0 THEN Zero ELSE next(k, h[k - 1])]
    BY <2>3, <2>4
  <2>6. IsBack(h, rewards, n, m + 1)
    BY <2>5 DEF IsBack, next
  <2> QED BY <2>6
<1>3. \A m \in Nat : m \in S
  <2>1. ASSUME NEW m \in Nat PROVE m \in S
    <3>1. \A k \in 0 .. m - 1 : k \in S => k + 1 \in S
      BY <1>2
    <3>2. 0 .. m \subseteq S
      <4>1. 0 \in Int /\ m \in Int
        OBVIOUS
      <4> HIDE DEF S
      <4> QED BY <1>1, <3>1, <4>1, IntervalInduction
    <3> QED BY <3>2
  <2> QED BY <2>1
<1> QED BY <1>3

\* compute_returns by its recursion
LEMMA ReturnsAre ==
  ASSUME NEW rewards, Len(rewards) \in Nat
  PROVE  \E g : /\ Returns(rewards) = [i \in 1 .. Len(rewards) |-> g[Len(rewards) - i + 1]]
                /\ g[0] = Zero
                /\ \A k \in 1 .. Len(rewards) :
                     g[k] = rewards[Len(rewards) - k + 1] ++ (Gamma ** g[k - 1])
<1> DEFINE g == CHOOSE h : IsBack(h, rewards, Len(rewards), Len(rewards))
<1>1. IsBack(g, rewards, Len(rewards), Len(rewards))
  BY BackExists
<1>2. Returns(rewards) = [i \in 1 .. Len(rewards) |-> g[Len(rewards) - i + 1]]
  BY DEF Returns, IsBack
<1> HIDE DEF g
<1>3. g[0] = Zero /\ \A k \in 1 .. Len(rewards) :
                       g[k] = rewards[Len(rewards) - k + 1] ++ (Gamma ** g[k - 1])
  BY <1>1 DEF IsBack
<1> QED BY <1>2, <1>3

\* The returns computed backwards are the discounted sums of the rewards from each step on.
LEMMA ReturnsMatch ==
  ASSUME NEW e \in EpisodeRecord, NEW rewards, Len(rewards) = Len(e.steps),
         \A k \in 1 .. Len(e.steps) : rewards[k] = RewardOf(e, k)
  PROVE  \A k \in 1 .. Len(e.steps) : Returns(rewards)[k] = ReturnOf(e, k)
<1>1. PICK n \in Nat : n = Len(e.steps) /\ n = Len(rewards)
  BY EquitiesAre
<1>2. PICK g : /\ Returns(rewards) = [i \in 1 .. n |-> g[n - i + 1]]
               /\ g[0] = Zero
               /\ \A k \in 1 .. n : g[k] = rewards[n - k + 1] ++ (Gamma ** g[k - 1])
  <2>1. Len(rewards) \in Nat
    BY <1>1
  <2>2. PICK g : /\ Returns(rewards) = [i \in 1 .. Len(rewards) |-> g[Len(rewards) - i + 1]]
                 /\ g[0] = Zero
                 /\ \A k \in 1 .. Len(rewards) :
                      g[k] = rewards[Len(rewards) - k + 1] ++ (Gamma ** g[k - 1])
    BY ONLY <2>1, ReturnsAre
  <2>3. /\ Returns(rewards) = [i \in 1 .. n |-> g[n - i + 1]]
        /\ g[0] = Zero
        /\ \A k \in 1 .. n : g[k] = rewards[n - k + 1] ++ (Gamma ** g[k - 1])
    <3>1. Len(rewards) = n
      BY <1>1
    <3>2. Returns(rewards) = [i \in 1 .. n |-> g[n - i + 1]]
      BY ONLY <2>2, <3>1
    <3>3. \A k \in 1 .. n : g[k] = rewards[n - k + 1] ++ (Gamma ** g[k - 1])
      BY ONLY <2>2, <3>1
    <3> QED BY <2>2, <3>2, <3>3
  <2> QED BY ONLY <2>3
<1> DEFINE S == {k \in Int : g[k] = ReturnOf(e, n - k + 1)}
<1>3. 0 \in S
  <2>1. n - 0 + 1 = n + 1
    OBVIOUS
  <2> QED BY <1>1, <1>2, <2>1, ReturnOfIs
<1>4. ASSUME NEW k \in 0 .. n - 1, k \in S
      PROVE  k + 1 \in S
  <2>1. PICK t \in 1 .. n : t = n - (k + 1) + 1 /\ t + 1 = n - k + 1
    <3>1. n - (k + 1) + 1 \in 1 .. n /\ (n - (k + 1) + 1) + 1 = n - k + 1
      OBVIOUS
    <3> QED BY <3>1
  <2>2. k + 1 \in 1 .. n /\ (k + 1) - 1 = k /\ k + 1 \in Int
    OBVIOUS
  <2>3. g[k + 1] = rewards[t] ++ (Gamma ** g[k])
    BY <1>2, <2>1, <2>2
  <2>4. rewards[t] = RewardOf(e, t) /\ g[k] = ReturnOf(e, t + 1)
    BY <1>1, <1>4, <2>1
  <2>5. ReturnOf(e, t) = RewardOf(e, t) ++ (Gamma ** ReturnOf(e, t + 1))
    BY <1>1, ReturnOfIs
  <2> QED BY <2>1, <2>2, <2>3, <2>4, <2>5
<1>5. 0 .. n \subseteq S
  <2>1. 0 \in Int /\ n \in Int
    OBVIOUS
  <2> HIDE DEF S
  <2> QED BY <1>3, <1>4, <2>1, IntervalInduction
<1>6. ASSUME NEW k \in 1 .. n
      PROVE  Returns(rewards)[k] = ReturnOf(e, k)
  <2>1. n - k + 1 \in 0 .. n /\ n - (n - k + 1) + 1 = k
    OBVIOUS
  <2>2. n - k + 1 \in S
    BY <1>5, <2>1
  <2>3. g[n - k + 1] = ReturnOf(e, k)
    BY <2>1, <2>2
  <2> QED BY <1>2, <2>3
<1> QED BY <1>1, <1>6

-----------------------------------------------------------------------------
(* The regression: the updates of an episode, one by one *)

IsLearning(f, q, r, n) ==
  f = [k \in 0 .. n |->
         IF k = 0 THEN q
         ELSE QUpdated(f[k - 1], r.transitions[k].action, r.transitions[k].phi, r.returns[k])]

LEMMA LearningExists ==
  ASSUME NEW q, NEW r
  PROVE  \A n \in Nat : \E f : IsLearning(f, q, r, n)
<1> DEFINE S == {n \in Int : \E f : IsLearning(f, q, r, n)}
           next(k, last) ==
             QUpdated(last, r.transitions[k].action, r.transitions[k].phi, r.returns[k])
<1>1. 0 \in S
  <2> DEFINE f == [k \in 0 .. 0 |-> q]
  <2>1. IsLearning(f, q, r, 0)
    BY DEF IsLearning
  <2> QED BY <2>1
<1>2. ASSUME NEW m \in Nat, m \in S
      PROVE  m + 1 \in S
  <2>1. PICK g : IsLearning(g, q, r, m)
    BY <1>2
  <2>2. g = [k \in 0 .. m |-> IF k = 0 THEN q ELSE next(k, g[k - 1])]
    BY <2>1 DEF IsLearning
  <2> DEFINE h == [k \in 0 .. m + 1 |-> IF k <= m THEN g[k] ELSE next(k, g[m])]
  <2> HIDE DEF next
  <2>3. ASSUME NEW k \in 0 .. m + 1
        PROVE  h[k] = IF k = 0 THEN q ELSE next(k, h[k - 1])
    <3>1. CASE k = 0
      BY <2>2, <3>1
    <3>2. CASE k # 0
      <4>1. k - 1 \in 0 .. m + 1 /\ k - 1 <= m
        BY <3>2
      <4>2. h[k - 1] = g[k - 1]
        BY <4>1
      <4>3. CASE k <= m
        <5>1. k \in 0 .. m
          BY <4>3
        <5>2. g[k] = next(k, g[k - 1])
          BY <2>2, <3>2, <5>1
        <5> QED BY <3>2, <4>2, <4>3, <5>2
      <4>4. CASE k = m + 1
        <5>1. h[k] = next(k, g[m]) /\ k - 1 = m
          BY <4>4
        <5> QED BY <3>2, <4>2, <5>1
      <4> QED BY <4>3, <4>4
    <3> QED BY <3>1, <3>2
  <2>4. h = [k \in 0 .. m + 1 |-> h[k]]
    OBVIOUS
  <2> HIDE DEF h
  <2>5. h = [k \in 0 .. m + 1 |-> IF k = 0 THEN q ELSE next(k, h[k - 1])]
    BY <2>3, <2>4
  <2>6. IsLearning(h, q, r, m + 1)
    BY <2>5 DEF IsLearning, next
  <2> QED BY <2>6
<1>3. \A m \in Nat : m \in S
  <2>1. ASSUME NEW m \in Nat PROVE m \in S
    <3>1. \A k \in 0 .. m - 1 : k \in S => k + 1 \in S
      BY <1>2
    <3>2. 0 .. m \subseteq S
      <4>1. 0 \in Int /\ m \in Int
        OBVIOUS
      <4> HIDE DEF S
      <4> QED BY <1>1, <3>1, <4>1, IntervalInduction
    <3> QED BY <3>2
  <2> QED BY <2>1
<1> QED BY <1>3

\* f starts with q and goes from one update to the next.
Learns(f, q, r) ==
  /\ Learned(q, r) = f[Len(r.transitions)] /\ f[0] = q
  /\ \A k \in 1 .. Len(r.transitions) :
       f[k] = QUpdated(f[k - 1], r.transitions[k].action, r.transitions[k].phi, r.returns[k])

\* update_q_function by its recursion
LEMMA LearnedIs ==
  ASSUME NEW q, NEW r, Len(r.transitions) \in Nat
  PROVE  \E f : Learns(f, q, r)
<1> DEFINE f == CHOOSE h : IsLearning(h, q, r, Len(r.transitions))
<1>1. IsLearning(f, q, r, Len(r.transitions))
  BY LearningExists
<1>2. Learned(q, r) = f[Len(r.transitions)]
  BY DEF Learned, IsLearning
<1> HIDE DEF f
<1>3. f[0] = q /\ \A k \in 1 .. Len(r.transitions) :
        f[k] = QUpdated(f[k - 1], r.transitions[k].action, r.transitions[k].phi, r.returns[k])
  BY <1>1 DEF IsLearning
<1>4. Learns(f, q, r)
  BY <1>2, <1>3 DEF Learns
<1> QED BY <1>4

-----------------------------------------------------------------------------
(* The regression: sums over the completed episodes *)

\* What a step of an episode is worth to the sum sought: to that of the returns, or to that of the
\* predictions by weights v
Worth(e, k, sought, v) ==
  IF sought = "returns" THEN ReturnOf(e, k) ELSE Dot(e.steps[k].phi, v)

Term(e, a, i, sought, v, k) ==
  IF e.steps[k].action = a THEN e.steps[k].phi[i] ** Worth(e, k, sought, v) ELSE Zero

\* The sum over the first n steps of an episode that took action a, and that over all of the
\* completed episodes of a list
Part(e, a, i, sought, v, n) == SumOver(n, [k \in 1 .. n |-> Term(e, a, i, sought, v, k)])

Parts(list, a, i, sought, v) ==
  [n \in 1 .. Len(list) |->
     IF list[n].over THEN Part(list[n], a, i, sought, v, Len(list[n].steps)) ELSE Zero]

Total(list, a, i, sought, v) == SumOver(Len(list), Parts(list, a, i, sought, v))

\* The terms, the parts of an episode and the totals are in lowest terms.
LEMMA TermLowest ==
  ASSUME NEW e \in EpisodeRecord, NEW a, NEW i \in Coords, NEW sought, NEW v \in Vectors,
         NEW k \in 1 .. Len(e.steps)
  PROVE  Term(e, a, i, sought, v, k) \in Lowest /\ Worth(e, k, sought, v) \in Lowest
<1>1. e.steps[k].phi \in Vectors
  BY EquitiesAre DEF StepRecord
<1>2. Worth(e, k, sought, v) \in Lowest
  BY <1>1, ReturnOfIs, DotLowest DEF Worth
<1>3. e.steps[k].phi[i] \in Lowest
  BY <1>1 DEF Vectors
<1> QED BY <1>2, <1>3, Ring DEF Term

LEMMA PartIs ==
  ASSUME NEW e \in EpisodeRecord, NEW a, NEW i \in Coords, NEW sought, NEW v \in Vectors,
         NEW n \in 0 .. Len(e.steps)
  PROVE  /\ Part(e, a, i, sought, v, n) \in Lowest
         /\ Part(e, a, i, sought, v, 0) = Zero
         /\ n < Len(e.steps) => Part(e, a, i, sought, v, n + 1)
                                  = Part(e, a, i, sought, v, n) ++ Term(e, a, i, sought, v, n + 1)
<1>1. Len(e.steps) \in Nat /\ n \in Nat
  BY EquitiesAre
<1>2. \A k \in 1 .. Len(e.steps) : Term(e, a, i, sought, v, k) \in Lowest
  BY TermLowest
<1>3. PICK f \in [1 .. n -> Lowest] : f = [k \in 1 .. n |-> Term(e, a, i, sought, v, k)]
  <2>1. \A k \in 1 .. n : Term(e, a, i, sought, v, k) \in Lowest
    BY <1>1, <1>2
  <2>2. [k \in 1 .. n |-> Term(e, a, i, sought, v, k)] \in [1 .. n -> Lowest]
    BY ONLY <2>1
  <2> QED BY <2>2
<1>4. Part(e, a, i, sought, v, n) = SumOver(n, f)
  BY <1>3 DEF Part
<1>5. SumOver(n, f) \in Lowest
  BY <1>1, SumOverIs
<1>6. Part(e, a, i, sought, v, 0) = Zero
  BY SumOverNone DEF Part
<1>7. ASSUME n < Len(e.steps)
      PROVE  Part(e, a, i, sought, v, n + 1)
               = Part(e, a, i, sought, v, n) ++ Term(e, a, i, sought, v, n + 1)
  <2>1. PICK g \in [1 .. n + 1 -> Lowest] : g = [k \in 1 .. n + 1 |-> Term(e, a, i, sought, v, k)]
    <3>1. \A k \in 1 .. n + 1 : Term(e, a, i, sought, v, k) \in Lowest
      BY <1>1, <1>2, <1>7
    <3>2. [k \in 1 .. n + 1 |-> Term(e, a, i, sought, v, k)] \in [1 .. n + 1 -> Lowest]
      BY ONLY <3>1
    <3> QED BY <3>2
  <2>2. Part(e, a, i, sought, v, n + 1) = SumOver(n + 1, g)
    BY <2>1 DEF Part
  <2>3. (\A k \in 1 .. n : g[k] = f[k]) /\ g[n + 1] = Term(e, a, i, sought, v, n + 1)
    BY <1>1, <1>3, <2>1
  <2>4. SumOver(n + 1, g) = SumOver(n, f) ++ g[n + 1]
    BY <1>1, <2>3, SumOverMore
  <2> QED BY <1>4, <2>2, <2>3, <2>4
<1> QED BY <1>4, <1>5, <1>6, <1>7

LEMMA PartsLowest ==
  ASSUME NEW list \in Seq(EpisodeRecord), NEW a, NEW i \in Coords, NEW sought, NEW v \in Vectors
  PROVE  /\ Parts(list, a, i, sought, v) \in [1 .. Len(list) -> Lowest]
         /\ Total(list, a, i, sought, v) \in Lowest
<1>1. Len(list) \in Nat /\ Zero \in Lowest
  BY Ring
<1>2. ASSUME NEW n \in 1 .. Len(list)
      PROVE  (IF list[n].over THEN Part(list[n], a, i, sought, v, Len(list[n].steps)) ELSE Zero)
               \in Lowest
  <2>1. list[n] \in EpisodeRecord
    BY ElementOfSeq
  <2>2. Len(list[n].steps) \in 0 .. Len(list[n].steps)
    BY <2>1, EquitiesAre
  <2>3. Part(list[n], a, i, sought, v, Len(list[n].steps)) \in Lowest
    BY <2>1, <2>2, PartIs
  <2> QED BY <1>1, <2>3
<1>3. Parts(list, a, i, sought, v) \in [1 .. Len(list) -> Lowest]
  BY <1>2 DEF Parts
<1> QED BY <1>1, <1>3, SumOverIs DEF Total

\* An episode that is not over adds nothing.
LEMMA TotalOpened ==
  ASSUME NEW list \in Seq(EpisodeRecord), NEW e \in EpisodeRecord, ~e.over,
         NEW a, NEW i \in Coords, NEW sought, NEW v \in Vectors
  PROVE  Total(Append(list, e), a, i, sought, v) = Total(list, a, i, sought, v)
<1>1. PICK n \in Nat : n = Len(list)
  OBVIOUS
<1>2. PICK more \in Seq(EpisodeRecord) : /\ more = Append(list, e) /\ Len(more) = n + 1
                                         /\ more[n + 1] = e /\ \A k \in 1 .. n : more[k] = list[k]
  <2>1. Append(list, e) \in Seq(EpisodeRecord) /\ Len(Append(list, e)) = n + 1
    BY <1>1
  <2>2. Append(list, e)[n + 1] = e /\ \A k \in 1 .. n : Append(list, e)[k] = list[k]
    BY <1>1
  <2> QED BY <2>1, <2>2
<1>3. PICK f \in [1 .. n -> Lowest] : f = Parts(list, a, i, sought, v)
  BY <1>1, PartsLowest
<1>4. PICK g \in [1 .. n + 1 -> Lowest] : g = Parts(more, a, i, sought, v)
  BY <1>2, PartsLowest
<1>5. ASSUME NEW k \in 1 .. n
      PROVE  g[k] = f[k]
  BY <1>1, <1>2, <1>3, <1>4 DEF Parts
<1>6. g[n + 1] = Zero
  BY <1>1, <1>2, <1>4 DEF Parts
<1>7. SumOver(n + 1, g) = SumOver(n, f) ++ g[n + 1]
  BY <1>5, SumOverMore
<1>8. SumOver(n, f) \in Lowest
  BY SumOverIs
<1>9. SumOver(n, f) ++ Zero = SumOver(n, f)
  BY <1>8, Ring
<1> QED BY <1>1, <1>2, <1>3, <1>4, <1>6, <1>7, <1>9 DEF Total

\* The last episode of a list, which is not over, is replaced by another.
Replaces(d, list, more) ==
  /\ list \in Seq(EpisodeRecord) /\ Len(list) > 0 /\ ~list[Len(list)].over
  /\ d \in EpisodeRecord /\ more = [list EXCEPT ![Len(list)] = d]

\* The last episode is replaced: one that was not over by one that is not, or by one that is.
LEMMA TotalReplaced ==
  ASSUME NEW d, NEW list, NEW more, Replaces(d, list, more),
         NEW a, NEW i \in Coords, NEW sought, NEW v \in Vectors
  PROVE  /\ d.over => Total(more, a, i, sought, v)
                        = Total(list, a, i, sought, v) ++ Part(d, a, i, sought, v, Len(d.steps))
         /\ ~d.over => Total(more, a, i, sought, v) = Total(list, a, i, sought, v)
<1> USE DEF Replaces
<1>1. PICK n \in Nat \ {0} : n = Len(list)
  OBVIOUS
<1>2. /\ more \in Seq(EpisodeRecord) /\ Len(more) = n
      /\ more[n] = d /\ \A k \in 1 .. n - 1 : more[k] = list[k]
  <2>1. n \in 1 .. Len(list)
    BY <1>1
  <2>2. /\ more \in Seq(EpisodeRecord) /\ Len(more) = n
        /\ \A k \in 1 .. n : more[k] = IF k = n THEN d ELSE list[k]
    BY <1>1, <2>1, ExceptSeq
  <2>3. more[n] = d /\ \A k \in 1 .. n - 1 : more[k] = list[k]
    <3>1. \A k \in 1 .. n - 1 : k \in 1 .. n /\ k # n
      OBVIOUS
    <3> QED BY ONLY <1>1, <2>1, <2>2, <3>1
  <2> QED BY <2>2, <2>3
<1>3. PICK f \in [1 .. n -> Lowest] : f = Parts(list, a, i, sought, v)
  BY <1>1, PartsLowest
<1>4. PICK g \in [1 .. n -> Lowest] : g = Parts(more, a, i, sought, v)
  BY <1>2, PartsLowest
<1>5. ASSUME NEW k \in 1 .. n - 1
      PROVE  g[k] = f[k]
  <2>1. k \in 1 .. n
    OBVIOUS
  <2> QED BY <1>1, <1>2, <1>3, <1>4, <2>1 DEF Parts
<1>6. /\ n \in 1 .. n /\ f[n] = Zero
      /\ g[n] = IF d.over THEN Part(d, a, i, sought, v, Len(d.steps)) ELSE Zero
  BY <1>1, <1>2, <1>3, <1>4 DEF Parts
<1>7. SumOver(n, g) = SumOver(n, f) ++ g[n]
  BY <1>5, <1>6, SumOverLast
<1>8. SumOver(n, f) \in Lowest
  BY SumOverIs
<1>9. SumOver(n, f) ++ Zero = SumOver(n, f)
  BY <1>8, Ring
<1>10. /\ Total(list, a, i, sought, v) = SumOver(n, f)
       /\ Total(more, a, i, sought, v) = SumOver(n, g)
  BY <1>1, <1>2, <1>3, <1>4 DEF Total
<1> QED BY <1>2, <1>6, <1>7, <1>9, <1>10

-----------------------------------------------------------------------------
(* The regression: the least squares problem of the completed episodes *)

\* The least squares problem of an action after the completed episodes of a list, and while the
\* first n steps of another episode are learned
BiasOf(a) == IF a = "Hold" THEN Zero ELSE LambdaReg ** OptimisticBias

Gram(list, a) ==
  [v \in Vectors |-> [i \in Coords |-> (LambdaReg ** v[i]) ++ Total(list, a, i, "weights", v)]]

Target(list, a) == [i \in Coords |-> BiasOf(a) ++ Total(list, a, i, "returns", Origin)]

GramAt(list, e, a, n) ==
  [v \in Vectors |-> [i \in Coords |-> Gram(list, a)[v][i] ++ Part(e, a, i, "weights", v, n)]]

TargetAt(list, e, a, n) ==
  [i \in Coords |-> Target(list, a)[i] ++ Part(e, a, i, "returns", Origin, n)]

\* The problem of an action, its start and its steps are in lowest terms.
LEMMA GramIs ==
  ASSUME NEW list \in Seq(EpisodeRecord), NEW a
  PROVE  /\ Gram(list, a) \in [Vectors -> Vectors] /\ Target(list, a) \in Vectors
         /\ BiasOf(a) \in Lowest
<1>1. ASSUME NEW v \in Vectors, NEW i \in Coords
      PROVE  (LambdaReg ** v[i]) ++ Total(list, a, i, "weights", v) \in Lowest
  <2>1. v[i] \in Lowest
    BY DEF Vectors
  <2>2. LambdaReg ** v[i] \in Lowest
    BY <2>1, LambdaIs, Ring
  <2> QED BY <2>2, PartsLowest, Ring
<1>2. Gram(list, a) \in [Vectors -> Vectors]
  <2>1. \A v \in Vectors :
          [i \in Coords |-> (LambdaReg ** v[i]) ++ Total(list, a, i, "weights", v)] \in Vectors
    BY <1>1 DEF Vectors
  <2> QED BY <2>1 DEF Gram
<1>3. BiasOf(a) \in Lowest
  <2>1. LambdaReg ** OptimisticBias \in Lowest
    BY Lowered, QAssumption, ReducedIs, Reduces, LowestIs
  <2>2. Zero \in Lowest
    BY Ring
  <2> QED BY <2>1, <2>2 DEF BiasOf
<1>4. ASSUME NEW i \in Coords
      PROVE  BiasOf(a) ++ Total(list, a, i, "returns", Origin) \in Lowest
  BY <1>3, OriginIs, PartsLowest, Ring
<1>5. Target(list, a) \in Vectors
  BY <1>4 DEF Target, Vectors
<1> QED BY <1>2, <1>3, <1>5

LEMMA GramStarts ==
  ASSUME NEW list \in Seq(EpisodeRecord), NEW e \in EpisodeRecord, NEW a
  PROVE  GramAt(list, e, a, 0) = Gram(list, a) /\ TargetAt(list, e, a, 0) = Target(list, a)
<1>1. 0 \in 0 .. Len(e.steps)
  BY EquitiesAre
<1>2. \A x \in Lowest : x ++ Zero = x
  BY Ring
<1>3. PICK gram \in [Vectors -> Vectors], target \in Vectors :
        gram = Gram(list, a) /\ target = Target(list, a)
  BY GramIs
<1>4. ASSUME NEW v \in Vectors, NEW i \in Coords
      PROVE  gram[v][i] ++ Part(e, a, i, "weights", v, 0) = gram[v][i]
  <2>1. Part(e, a, i, "weights", v, 0) = Zero
    BY <1>1, PartIs
  <2>2. gram[v][i] \in Lowest
    BY DEF Vectors
  <2> QED BY <1>2, <2>1, <2>2
<1>5. ASSUME NEW i \in Coords
      PROVE  target[i] ++ Part(e, a, i, "returns", Origin, 0) = target[i]
  <2>1. Part(e, a, i, "returns", Origin, 0) = Zero
    BY <1>1, OriginIs, PartIs
  <2>2. target[i] \in Lowest
    BY DEF Vectors
  <2> QED BY <1>2, <2>1, <2>2
<1>6. GramAt(list, e, a, 0) = gram
  <2>1. \A v \in Vectors : gram[v] = [i \in Coords |-> gram[v][i]]
    BY DEF Vectors
  <2>2. gram = [v \in Vectors |-> gram[v]]
    OBVIOUS
  <2>3. \A v \in Vectors :
          [i \in Coords |-> gram[v][i] ++ Part(e, a, i, "weights", v, 0)] = gram[v]
    BY <1>4, <2>1
  <2> QED BY <1>3, <2>2, <2>3 DEF GramAt
<1>7. TargetAt(list, e, a, 0) = target
  <2>1. target = [i \in Coords |-> target[i]]
    BY DEF Vectors
  <2> QED BY <1>3, <1>5, <2>1 DEF TargetAt
<1> QED BY <1>3, <1>6, <1>7

LEMMA GramLowest ==
  ASSUME NEW list \in Seq(EpisodeRecord), NEW e \in EpisodeRecord, NEW a,
         NEW n \in 0 .. Len(e.steps)
  PROVE  GramAt(list, e, a, n) \in [Vectors -> Vectors] /\ TargetAt(list, e, a, n) \in Vectors
<1>1. PICK gram \in [Vectors -> Vectors], target \in Vectors :
        gram = Gram(list, a) /\ target = Target(list, a)
  BY GramIs
<1>2. ASSUME NEW v \in Vectors, NEW i \in Coords
      PROVE  gram[v][i] ++ Part(e, a, i, "weights", v, n) \in Lowest
  <2>1. Part(e, a, i, "weights", v, n) \in Lowest /\ gram[v][i] \in Lowest
    BY PartIs DEF Vectors
  <2> QED BY <2>1, Ring
<1>3. ASSUME NEW i \in Coords
      PROVE  target[i] ++ Part(e, a, i, "returns", Origin, n) \in Lowest
  <2>1. Part(e, a, i, "returns", Origin, n) \in Lowest /\ target[i] \in Lowest
    BY OriginIs, PartIs DEF Vectors
  <2> QED BY <2>1, Ring
<1>4. GramAt(list, e, a, n) \in [Vectors -> Vectors]
  <2>1. \A v \in Vectors :
          [i \in Coords |-> gram[v][i] ++ Part(e, a, i, "weights", v, n)] \in Vectors
    BY <1>2 DEF Vectors
  <2> QED BY <1>1, <2>1 DEF GramAt
<1>5. TargetAt(list, e, a, n) \in Vectors
  BY <1>1, <1>3 DEF TargetAt, Vectors
<1> QED BY <1>4, <1>5

\* A step of another action leaves the problem as it is.
LEMMA GramStays ==
  ASSUME NEW list \in Seq(EpisodeRecord), NEW e \in EpisodeRecord, NEW a,
         NEW n \in 0 .. Len(e.steps), n < Len(e.steps), e.steps[n + 1].action # a
  PROVE  /\ GramAt(list, e, a, n + 1) = GramAt(list, e, a, n)
         /\ TargetAt(list, e, a, n + 1) = TargetAt(list, e, a, n)
<1>1. \A x \in Lowest : x ++ Zero = x
  BY Ring
<1>2. ASSUME NEW i \in Coords, NEW sought, NEW v \in Vectors
      PROVE  Part(e, a, i, sought, v, n + 1) = Part(e, a, i, sought, v, n)
  <2>1. Term(e, a, i, sought, v, n + 1) = Zero
    BY DEF Term
  <2>2. Part(e, a, i, sought, v, n) \in Lowest
    BY PartIs
  <2> QED BY <1>1, <2>1, <2>2, PartIs
<1>3. \A v \in Vectors : \A i \in Coords :
        Part(e, a, i, "weights", v, n + 1) = Part(e, a, i, "weights", v, n)
  BY <1>2
<1>4. \A i \in Coords :
        Part(e, a, i, "returns", Origin, n + 1) = Part(e, a, i, "returns", Origin, n)
  BY <1>2, OriginIs
<1> QED BY <1>3, <1>4 DEF GramAt, TargetAt

\* A step of the action adds its features and its return.
LEMMA GramGrows ==
  ASSUME NEW list \in Seq(EpisodeRecord), NEW e \in EpisodeRecord, NEW a,
         NEW n \in 0 .. Len(e.steps), n < Len(e.steps), e.steps[n + 1].action = a
  PROVE  /\ GramAt(list, e, a, n + 1) = Observed1(GramAt(list, e, a, n), e.steps[n + 1].phi)
         /\ TargetAt(list, e, a, n + 1)
              = Along(TargetAt(list, e, a, n), ReturnOf(e, n + 1), e.steps[n + 1].phi)
<1>1. PICK k \in 1 .. Len(e.steps) : k = n + 1
  BY EquitiesAre
<1>2. PICK phi \in Vectors : phi = e.steps[k].phi
  BY EquitiesAre DEF StepRecord
<1>3. PICK ret \in Lowest : ret = ReturnOf(e, k)
  BY ReturnOfIs
<1>4. PICK gram \in [Vectors -> Vectors], target \in Vectors :
        gram = Gram(list, a) /\ target = Target(list, a)
  BY GramIs
<1>5. ASSUME NEW v \in Vectors, NEW i \in Coords
      PROVE  gram[v][i] ++ Part(e, a, i, "weights", v, n + 1)
               = (gram[v][i] ++ Part(e, a, i, "weights", v, n)) ++ (Dot(phi, v) ** phi[i])
  <2>1. PICK x \in Lowest, p \in Lowest, w \in Lowest, d \in Lowest :
          /\ x = gram[v][i] /\ p = Part(e, a, i, "weights", v, n) /\ w = phi[i] /\ d = Dot(phi, v)
    BY PartIs, DotLowest DEF Vectors
  <2>2. Part(e, a, i, "weights", v, n + 1) = p ++ (w ** d)
    <3>1. Term(e, a, i, "weights", v, n + 1) = w ** d
      BY <1>1, <1>2, <2>1 DEF Term, Worth
    <3> QED BY <2>1, <3>1, PartIs
  <2>3. w ** d = d ** w /\ d ** w \in Lowest
    BY Ring
  <2>4. x ++ (p ++ (d ** w)) = (x ++ p) ++ (d ** w)
    BY <2>3, Ring
  <2> QED BY <2>1, <2>2, <2>3, <2>4
<1>6. ASSUME NEW i \in Coords
      PROVE  target[i] ++ Part(e, a, i, "returns", Origin, n + 1)
               = (target[i] ++ Part(e, a, i, "returns", Origin, n)) ++ (ret ** phi[i])
  <2>1. PICK x \in Lowest, p \in Lowest, w \in Lowest :
          x = target[i] /\ p = Part(e, a, i, "returns", Origin, n) /\ w = phi[i]
    BY OriginIs, PartIs DEF Vectors
  <2>2. Part(e, a, i, "returns", Origin, n + 1) = p ++ (w ** ret)
    <3>1. Term(e, a, i, "returns", Origin, n + 1) = w ** ret
      BY <1>1, <1>2, <1>3, <2>1 DEF Term, Worth
    <3> QED BY <2>1, <3>1, OriginIs, PartIs
  <2>3. w ** ret = ret ** w /\ ret ** w \in Lowest
    BY Ring
  <2>4. x ++ (p ++ (ret ** w)) = (x ++ p) ++ (ret ** w)
    BY <2>3, Ring
  <2> QED BY <2>1, <2>2, <2>3, <2>4
<1>7. PICK g \in [Vectors -> Vectors] :
        /\ g = GramAt(list, e, a, n)
        /\ \A v \in Vectors : \A i \in Coords :
             g[v][i] = gram[v][i] ++ Part(e, a, i, "weights", v, n)
  <2>1. PICK g \in [Vectors -> Vectors] : g = GramAt(list, e, a, n)
    BY GramLowest
  <2>2. g = [v \in Vectors |-> [i \in Coords |-> gram[v][i] ++ Part(e, a, i, "weights", v, n)]]
    BY <1>4, <2>1 DEF GramAt
  <2>3. \A v \in Vectors : \A i \in Coords :
          g[v][i] = gram[v][i] ++ Part(e, a, i, "weights", v, n)
    BY ONLY <2>2
  <2> QED BY <2>1, <2>3
<1>8. GramAt(list, e, a, n + 1) = Observed1(g, phi)
  <2>1. \A v \in Vectors : [i \in Coords |-> gram[v][i] ++ Part(e, a, i, "weights", v, n + 1)]
                             = [i \in Coords |-> g[v][i] ++ (Dot(phi, v) ** phi[i])]
    BY <1>5, <1>7
  <2> QED BY <1>4, <2>1 DEF GramAt, Observed1, Along
<1>9. PICK t \in Vectors :
        /\ t = TargetAt(list, e, a, n)
        /\ \A i \in Coords : t[i] = target[i] ++ Part(e, a, i, "returns", Origin, n)
  <2>1. PICK t \in Vectors : t = TargetAt(list, e, a, n)
    BY GramLowest
  <2>2. t = [i \in Coords |-> target[i] ++ Part(e, a, i, "returns", Origin, n)]
    BY <1>4, <2>1 DEF TargetAt
  <2>3. \A i \in Coords : t[i] = target[i] ++ Part(e, a, i, "returns", Origin, n)
    BY ONLY <2>2
  <2> QED BY <2>1, <2>3
<1>10. TargetAt(list, e, a, n + 1) = Along(t, ret, phi)
  <2>1. \A i \in Coords : target[i] ++ Part(e, a, i, "returns", Origin, n + 1)
                            = t[i] ++ (ret ** phi[i])
    BY <1>6, <1>9
  <2> QED BY <1>4, <2>1 DEF TargetAt, Along
<1> QED BY <1>1, <1>2, <1>3, <1>7, <1>8, <1>9, <1>10

-----------------------------------------------------------------------------
(* The regression: the completed episodes, as the operations of a behaviour change them *)

\* An episode that starts leaves every problem as it is.
LEMMA GramOpened ==
  ASSUME NEW list \in Seq(EpisodeRecord), NEW e \in EpisodeRecord, ~e.over, NEW a
  PROVE  Gram(Append(list, e), a) = Gram(list, a) /\ Target(Append(list, e), a) = Target(list, a)
<1>1. \A v \in Vectors : \A i \in Coords :
        Total(Append(list, e), a, i, "weights", v) = Total(list, a, i, "weights", v)
  BY TotalOpened
<1>2. \A i \in Coords :
        Total(Append(list, e), a, i, "returns", Origin) = Total(list, a, i, "returns", Origin)
  BY OriginIs, TotalOpened
<1> QED BY <1>1, <1>2 DEF Gram, Target

\* So does a step of the episode that is under way.
LEMMA GramReplaced ==
  ASSUME NEW d, NEW list, NEW more, Replaces(d, list, more), ~d.over, NEW a
  PROVE  Gram(more, a) = Gram(list, a) /\ Target(more, a) = Target(list, a)
<1>1. \A v \in Vectors : \A i \in Coords :
        Total(more, a, i, "weights", v) = Total(list, a, i, "weights", v)
  BY TotalReplaced
<1>2. \A i \in Coords :
        Total(more, a, i, "returns", Origin) = Total(list, a, i, "returns", Origin)
  BY OriginIs, TotalReplaced
<1> QED BY <1>1, <1>2 DEF Gram, Target

\* An episode that ends adds all of its steps.
LEMMA GramEnded ==
  ASSUME NEW d, NEW list, NEW more, Replaces(d, list, more), d.over, NEW a
  PROVE  /\ Gram(more, a) = GramAt(list, d, a, Len(d.steps))
         /\ Target(more, a) = TargetAt(list, d, a, Len(d.steps))
<1> /\ list \in Seq(EpisodeRecord) /\ d \in EpisodeRecord
  BY DEF Replaces
<1>1. PICK n \in 0 .. Len(d.steps) : n = Len(d.steps)
  BY EquitiesAre
<1>2. ASSUME NEW v \in Vectors, NEW i \in Coords
      PROVE  (LambdaReg ** v[i]) ++ Total(more, a, i, "weights", v)
               = ((LambdaReg ** v[i]) ++ Total(list, a, i, "weights", v))
                   ++ Part(d, a, i, "weights", v, n)
  <2>1. Total(more, a, i, "weights", v)
          = Total(list, a, i, "weights", v) ++ Part(d, a, i, "weights", v, n)
    <3>1. Total(more, a, i, "weights", v)
            = Total(list, a, i, "weights", v) ++ Part(d, a, i, "weights", v, Len(d.steps))
      BY TotalReplaced
    <3> QED BY <1>1, <3>1
  <2>2. v[i] \in Lowest
    BY DEF Vectors
  <2>3. PICK x \in Lowest, t \in Lowest, p \in Lowest :
          /\ x = LambdaReg ** v[i] /\ t = Total(list, a, i, "weights", v)
          /\ p = Part(d, a, i, "weights", v, n)
    <3>1. LambdaReg ** v[i] \in Lowest
      BY <2>2, LambdaIs, Ring
    <3>2. Total(list, a, i, "weights", v) \in Lowest /\ Part(d, a, i, "weights", v, n) \in Lowest
      BY PartsLowest, PartIs
    <3> QED BY <3>1, <3>2
  <2>4. x ++ (t ++ p) = (x ++ t) ++ p
    BY Ring
  <2> QED BY <2>1, <2>3, <2>4
<1>3. ASSUME NEW i \in Coords
      PROVE  BiasOf(a) ++ Total(more, a, i, "returns", Origin)
               = (BiasOf(a) ++ Total(list, a, i, "returns", Origin))
                   ++ Part(d, a, i, "returns", Origin, n)
  <2>1. Total(more, a, i, "returns", Origin)
          = Total(list, a, i, "returns", Origin) ++ Part(d, a, i, "returns", Origin, n)
    <3>1. Total(more, a, i, "returns", Origin)
            = Total(list, a, i, "returns", Origin) ++ Part(d, a, i, "returns", Origin, Len(d.steps))
      BY OriginIs, TotalReplaced
    <3> QED BY <1>1, <3>1
  <2>2. PICK x \in Lowest, t \in Lowest, p \in Lowest :
          /\ x = BiasOf(a) /\ t = Total(list, a, i, "returns", Origin)
          /\ p = Part(d, a, i, "returns", Origin, n)
    BY GramIs, OriginIs, PartsLowest, PartIs
  <2>3. x ++ (t ++ p) = (x ++ t) ++ p
    BY Ring
  <2> QED BY <2>1, <2>2, <2>3
<1>4. Gram(more, a) = GramAt(list, d, a, n)
  <2>1. \A v \in Vectors : \A i \in Coords :
          Gram(list, a)[v][i] = (LambdaReg ** v[i]) ++ Total(list, a, i, "weights", v)
    BY DEF Gram
  <2>2. \A v \in Vectors :
          [i \in Coords |-> (LambdaReg ** v[i]) ++ Total(more, a, i, "weights", v)]
            = [i \in Coords |-> Gram(list, a)[v][i] ++ Part(d, a, i, "weights", v, n)]
    BY <1>2, <2>1
  <2>3. Gram(more, a)
          = [v \in Vectors |->
               [i \in Coords |-> (LambdaReg ** v[i]) ++ Total(more, a, i, "weights", v)]]
    BY DEF Gram
  <2> QED BY <2>2, <2>3 DEF GramAt
<1>5. Target(more, a) = TargetAt(list, d, a, n)
  <2>1. \A i \in Coords :
          Target(list, a)[i] = BiasOf(a) ++ Total(list, a, i, "returns", Origin)
    BY DEF Target
  <2>2. Target(more, a) = [i \in Coords |-> BiasOf(a) ++ Total(more, a, i, "returns", Origin)]
    BY DEF Target
  <2> QED BY <1>3, <2>1, <2>2 DEF TargetAt
<1> QED BY <1>1, <1>4, <1>5

-----------------------------------------------------------------------------
(* The regression: what the end of an episode learns *)

\* The Q-function q solves the problems of all actions after the completed episodes of a list and
\* the first n steps of another.
Solves(q, list, e, n) ==
  /\ q = [a \in QAction |-> q[a]]
  /\ \A a \in QAction : Fits(q[a], GramAt(list, e, a, n), TargetAt(list, e, a, n))

\* One update more, and one step of the episode more
LEMMA SolvesMore ==
  ASSUME NEW list \in Seq(EpisodeRecord), NEW e \in EpisodeRecord, NEW n \in 0 .. Len(e.steps),
         n < Len(e.steps), NEW q, Solves(q, list, e, n)
  PROVE  Solves(QUpdated(q, e.steps[n + 1].action, e.steps[n + 1].phi, ReturnOf(e, n + 1)),
                list, e, n + 1)
<1>1. PICK k \in 1 .. Len(e.steps) : k = n + 1
  BY EquitiesAre
<1>2. PICK act \in QAction, phi \in Vectors, ret \in Lowest :
        act = e.steps[n + 1].action /\ phi = e.steps[n + 1].phi /\ ret = ReturnOf(e, n + 1)
  BY <1>1, EquitiesAre, ReturnOfIs DEF StepRecord
<1>3. PICK p : p = QUpdated(q, act, phi, ret)
  OBVIOUS
<1>4. q = [a \in QAction |-> q[a]]
  BY DEF Solves
<1>5. /\ p = [a \in QAction |-> p[a]] /\ p[act] = Updated(q[act], phi, ret)
      /\ \A a \in QAction : a # act => p[a] = q[a]
  BY <1>3, <1>4 DEF QUpdated
<1>6. ASSUME NEW a \in QAction
      PROVE  Fits(p[a], GramAt(list, e, a, n + 1), TargetAt(list, e, a, n + 1))
  <2>1. Fits(q[a], GramAt(list, e, a, n), TargetAt(list, e, a, n))
    BY DEF Solves
  <2>2. CASE a # act
    <3>1. /\ GramAt(list, e, a, n + 1) = GramAt(list, e, a, n)
          /\ TargetAt(list, e, a, n + 1) = TargetAt(list, e, a, n)
      BY <1>2, <2>2, GramStays
    <3> QED BY <1>5, <2>1, <2>2, <3>1
  <2>3. CASE a = act
    <3>1. /\ GramAt(list, e, a, n + 1) = Observed1(GramAt(list, e, a, n), phi)
          /\ TargetAt(list, e, a, n + 1) = Along(TargetAt(list, e, a, n), ret, phi)
      BY <1>2, <2>3, GramGrows
    <3>2. Fits(Updated(q[a], phi, ret), Observed1(GramAt(list, e, a, n), phi),
               Along(TargetAt(list, e, a, n), ret, phi))
      BY <2>1, UpdatedFits
    <3> QED BY <1>5, <2>3, <3>1, <3>2
  <2> QED BY <2>2, <2>3
<1>7. Solves(p, list, e, n + 1)
  BY <1>5, <1>6 DEF Solves
<1> QED BY <1>2, <1>3, <1>7

\* The end of an episode learns all of its steps.
LEMMA EpisodeSolved ==
  ASSUME NEW list \in Seq(EpisodeRecord), NEW e \in EpisodeRecord, NEW buffer,
         BufferFits(buffer, e), NEW q, Solves(q, list, e, 0), NEW strategy, NEW reason, NEW at
  PROVE  Solves(Learned(q, EpisodeResult(strategy, buffer, reason, at)), list, e, Len(e.steps))
<1>1. PICK n \in Nat : n = Len(e.steps)
  BY EquitiesAre
<1>2. /\ Len(buffer.transitions) = n /\ DOMAIN buffer.transitions = 1 .. n
      /\ \A k \in 1 .. n : /\ buffer.transitions[k].action = e.steps[k].action
                           /\ buffer.transitions[k].phi = e.steps[k].phi
                           /\ buffer.transitions[k].reward = RewardOf(e, k)
  <2>1. buffer.transitions \in Seq([at : {0}, action : QAction, phi : Vectors, reward : Lowest])
    BY DEF BufferFits
  <2>2. DOMAIN buffer.transitions = 1 .. Len(buffer.transitions)
    BY ONLY <2>1
  <2> QED BY <1>1, <2>2 DEF BufferFits
<1>3. PICK rewards : rewards = [i \in DOMAIN buffer.transitions |-> buffer.transitions[i].reward]
  OBVIOUS
<1>4. Len(rewards) = n /\ \A k \in 1 .. n : rewards[k] = RewardOf(e, k)
  <2>1. rewards = [k \in 1 .. n |-> buffer.transitions[k].reward]
    BY <1>2, <1>3
  <2>2. Len(rewards) = n /\ \A k \in 1 .. n : rewards[k] = buffer.transitions[k].reward
    BY ONLY <2>1, n \in Nat
  <2> QED BY <1>2, <2>2
<1>5. \A k \in 1 .. n : Returns(rewards)[k] = ReturnOf(e, k)
  <2>1. Len(rewards) = Len(e.steps) /\ \A k \in 1 .. Len(e.steps) : rewards[k] = RewardOf(e, k)
    BY <1>1, <1>4
  <2> QED BY <1>1, <2>1, ReturnsMatch
<1>6. PICK r : r = EpisodeResult(strategy, buffer, reason, at)
  OBVIOUS
<1>7. r.transitions = buffer.transitions /\ r.returns = Returns(rewards)
  BY <1>3, <1>6 DEF EpisodeResult
<1>8. PICK f : /\ Learned(q, r) = f[n] /\ f[0] = q
               /\ \A k \in 1 .. n :
                    f[k] = QUpdated(f[k - 1], r.transitions[k].action, r.transitions[k].phi,
                                    r.returns[k])
  <2>1. Len(r.transitions) = n
    BY <1>2, <1>7
  <2>2. PICK f : Learns(f, q, r)
    BY <2>1, LearnedIs
  <2>3. /\ Learned(q, r) = f[n] /\ f[0] = q
        /\ \A k \in 1 .. n :
             f[k] = QUpdated(f[k - 1], r.transitions[k].action, r.transitions[k].phi,
                             r.returns[k])
    BY ONLY <2>1, <2>2 DEF Learns
  <2> QED BY ONLY <2>3
<1> DEFINE S == {k \in Int : Solves(f[k], list, e, k)}
<1>9. 0 \in S
  BY <1>8
<1>10. ASSUME NEW k \in 0 .. n - 1, k \in S
       PROVE  k + 1 \in S
  <2>1. k + 1 \in 1 .. n /\ (k + 1) - 1 = k /\ k + 1 \in Int /\ k \in 0 .. n /\ k < n
    OBVIOUS
  <2>2. f[k + 1] = QUpdated(f[k], e.steps[k + 1].action, e.steps[k + 1].phi, ReturnOf(e, k + 1))
    <3>1. f[k + 1] = QUpdated(f[k], r.transitions[k + 1].action, r.transitions[k + 1].phi,
                              r.returns[k + 1])
      BY <1>8, <2>1
    <3> QED BY <1>2, <1>5, <1>7, <2>1, <3>1
  <2>3. Solves(f[k], list, e, k)
    BY <1>10
  <2>4. Solves(f[k + 1], list, e, k + 1)
    BY <1>1, <2>1, <2>2, <2>3, SolvesMore
  <2> QED BY <2>1, <2>4
<1>11. 0 .. n \subseteq S
  <2>1. 0 \in Int /\ n \in Int
    OBVIOUS
  <2> HIDE DEF S
  <2> QED BY <1>9, <1>10, <2>1, IntervalInduction
<1>12. Solves(f[n], list, e, n)
  BY <1>11
<1> QED BY <1>1, <1>6, <1>8, <1>12

\* An episode that ends keeps its rewards.
LEMMA OverFits ==
  ASSUME NEW e \in EpisodeRecord, NEW buffer, BufferFits(buffer, e), NEW d,
         d = [e EXCEPT !.over = TRUE]
  PROVE  d \in EpisodeRecord /\ d.over /\ BufferFits(buffer, d)
<1>1. /\ d \in EpisodeRecord /\ d.over /\ d.steps = e.steps /\ d.from = e.from
  BY DEF EpisodeRecord
<1>2. \A k : EquityOf(d, k) = EquityOf(e, k) /\ Before(d, k) = Before(e, k)
  BY <1>1 DEF EquityOf, Before
<1>3. \A k : RewardOf(d, k) = RewardOf(e, k)
  BY <1>1, <1>2, RewardOfIs
<1> QED BY <1>1, <1>2, <1>3 DEF BufferFits

-----------------------------------------------------------------------------
(* The regression: the invariant *)

\* The buffer keeps the steps of the last episode, and the Q-function is the inverse of the Gram
\* matrix of the completed ones, their sums of returns, and the product of the two.
RegressionInv ==
  scenario = "episodes" =>
    /\ closed \in Seq(EpisodeRecord)
    /\ \A buffer \in episode :
         Len(closed) > 0 /\ ~closed[Len(closed)].over /\ BufferFits(buffer, closed[Len(closed)])
    /\ policy \in [q : {policy.q}, history : {policy.history}, decisions : {policy.decisions},
                   inflation : {policy.inflation}]
    /\ policy.q = [a \in QAction |-> policy.q[a]]
    /\ \A a \in QAction : Fits(policy.q[a], Gram(closed, a), Target(closed, a))

\* The equities, features, sizes and volatilities of episodes are fractions in lowest terms.
EpisodeFitting ==
  /\ Equities \subseteq Lowest
  /\ \A s \in Samples : s.phi \in Vectors /\ s.equity \in Lowest /\ IsFrac(s.lots) /\ IsFrac(s.volSq)

LEMMA RegressionInit == Init => RegressionInv
<1> SUFFICES ASSUME Init PROVE RegressionInv
  OBVIOUS
<1>1. closed = <<>> /\ episode = {} /\ policy = NewPolicy
  BY DEF Init
<1>2. <<>> \in Seq(EpisodeRecord) /\ Len(<<>>) = 0
  OBVIOUS
<1>3. policy \in [q : {NewQ}, history : {<<>>}, decisions : {0}, inflation : {One}]
  BY <1>1 DEF NewPolicy
<1>4. policy.q = [a \in QAction |-> Optimistic(a, NewModel)]
  BY <1>3 DEF NewQ
<1>5. \A x \in Lowest : x ++ Zero = x
  BY Ring
<1>6. ASSUME NEW a \in QAction
      PROVE  /\ Gram(<<>>, a) = Regular
             /\ Target(<<>>, a) = IF a = "Hold" THEN Origin ELSE Bias
  <2>1. \A i, sought, v : Total(<<>>, a, i, sought, v) = Zero
    BY <1>2, SumOverNone DEF Total
  <2>2. ASSUME NEW v \in Vectors, NEW i \in Coords
        PROVE  (LambdaReg ** v[i]) ++ Zero = LambdaReg ** v[i]
    <3>1. v[i] \in Lowest
      BY DEF Vectors
    <3>2. LambdaReg ** v[i] \in Lowest
      BY <3>1, LambdaIs, Ring
    <3> QED BY <1>5, <3>2
  <2>3. Gram(<<>>, a) = Regular
    BY <2>1, <2>2 DEF Gram, Regular
  <2>4. BiasOf(a) ++ Zero = BiasOf(a)
    BY <1>2, <1>5, GramIs
  <2>5. Target(<<>>, a) = [i \in Coords |-> BiasOf(a)]
    BY <2>1, <2>4 DEF Target
  <2> QED BY <2>3, <2>5 DEF BiasOf, Origin, Bias
<1>7. ASSUME NEW a \in QAction
      PROVE  Fits(policy.q[a], Gram(<<>>, a), Target(<<>>, a))
  <2>1. policy.q[a] = IF a = "Hold" THEN NewModel ELSE Biased(NewModel)
    BY <1>4 DEF Optimistic
  <2> QED BY <1>6, <2>1, NewFits
<1> QED BY <1>1, <1>2, <1>3, <1>4, <1>7 DEF RegressionInv

LEMMA RegressionStart ==
  EpisodeFitting /\ RegressionInv /\ StartEpisodeStep => RegressionInv'
<1> SUFFICES ASSUME EpisodeFitting, RegressionInv, StartEpisodeStep PROVE RegressionInv'
  OBVIOUS
<1>1. scenario = "episodes" /\ scenario' = scenario /\ policy' = policy
  BY DEF StartEpisodeStep
<1>2. PICK equity \in Equities :
        /\ episode' = {NewBuffer(0, equity)}
        /\ closed' = Append(closed, [from |-> equity, steps |-> <<>>, over |-> FALSE])
  BY DEF StartEpisodeStep
<1>3. PICK e : e = [from |-> equity, steps |-> <<>>, over |-> FALSE]
  OBVIOUS
<1>4. e \in EpisodeRecord /\ BufferFits(NewBuffer(0, equity), e) /\ ~e.over
  BY <1>3, NewBufferFits DEF EpisodeFitting
<1>5. closed \in Seq(EpisodeRecord)
  BY <1>1 DEF RegressionInv
<1>6. /\ closed' \in Seq(EpisodeRecord) /\ Len(closed') > 0 /\ closed'[Len(closed')] = e
  BY <1>2, <1>3, <1>4, <1>5
<1>7. \A buffer \in episode' : BufferFits(buffer, closed'[Len(closed')])
  BY <1>2, <1>4, <1>6
<1>8. \A a \in QAction : Gram(closed', a) = Gram(closed, a) /\ Target(closed', a) = Target(closed, a)
  BY <1>2, <1>3, <1>4, <1>5, GramOpened
<1>9. \A a \in QAction : Fits(policy'.q[a], Gram(closed', a), Target(closed', a))
  BY <1>1, <1>8 DEF RegressionInv
<1> QED BY <1>1, <1>4, <1>6, <1>7, <1>9 DEF RegressionInv

LEMMA RegressionRecord ==
  EpisodeFitting /\ RegressionInv /\ RecordStep => RegressionInv'
<1> SUFFICES ASSUME EpisodeFitting, RegressionInv, RecordStep PROVE RegressionInv'
  OBVIOUS
<1>1. scenario = "episodes" /\ scenario' = scenario /\ policy' = policy
  BY DEF RecordStep
<1>2. PICK buffer \in episode, a \in QAction, s \in Samples :
        /\ episode' = {Recorded(buffer, 0, a, s.phi, s.equity, s.lots, s.volSq)}
        /\ closed' = [closed EXCEPT ![Len(closed)].steps =
                        Append(@, [action |-> a, phi |-> s.phi, equity |-> s.equity,
                                   risk |-> (s.lots ** s.lots) ** s.volSq])]
  BY DEF RecordStep
<1>3. /\ closed \in Seq(EpisodeRecord) /\ Len(closed) > 0 /\ ~closed[Len(closed)].over
      /\ BufferFits(buffer, closed[Len(closed)])
  BY <1>1 DEF RegressionInv
<1>4. PICK n \in Nat \ {0}, e \in EpisodeRecord : n = Len(closed) /\ e = closed[n]
  <2>1. Len(closed) \in Nat \ {0} /\ Len(closed) \in 1 .. Len(closed)
    BY <1>3
  <2>2. closed[Len(closed)] \in EpisodeRecord
    BY <1>3, <2>1, ElementOfSeq
  <2> QED BY <2>1, <2>2
<1>5. PICK risk : risk = (s.lots ** s.lots) ** s.volSq
  OBVIOUS
<1>6. PICK d : d = [e EXCEPT !.steps = Append(@, [action |-> a, phi |-> s.phi,
                                                  equity |-> s.equity, risk |-> risk])]
  OBVIOUS
<1>7. /\ d \in EpisodeRecord /\ d.over = e.over
      /\ BufferFits(Recorded(buffer, 0, a, s.phi, s.equity, s.lots, s.volSq), d)
  <2>1. /\ s.phi \in Vectors /\ s.equity \in Lowest /\ IsFrac(s.lots) /\ IsFrac(s.volSq)
        /\ BufferFits(buffer, e)
    BY <1>3, <1>4 DEF EpisodeFitting
  <2>2. PICK phi, equity, lots, volSq :
          phi = s.phi /\ equity = s.equity /\ lots = s.lots /\ volSq = s.volSq
    OBVIOUS
  <2>3. /\ phi \in Vectors /\ equity \in Lowest /\ IsFrac(lots) /\ IsFrac(volSq)
        /\ risk = (lots ** lots) ** volSq /\ BufferFits(buffer, e)
        /\ d = [e EXCEPT !.steps = Append(@, [action |-> a, phi |-> phi, equity |-> equity,
                                              risk |-> risk])]
    BY <1>5, <1>6, <2>1, <2>2
  <2>4. e \in EpisodeRecord /\ a \in QAction
    OBVIOUS
  <2>5. /\ d \in EpisodeRecord /\ d.over = e.over
        /\ BufferFits(Recorded(buffer, 0, a, phi, equity, lots, volSq), d)
    BY ONLY <2>3, <2>4, RecordedFits
  <2> QED BY <2>2, <2>5
<1>8. closed' = [closed EXCEPT ![Len(closed)] = d]
  BY <1>2, <1>4, <1>5, <1>6
<1>9. Replaces(d, closed, closed') /\ ~d.over
  BY <1>3, <1>4, <1>7, <1>8 DEF Replaces
<1>10. closed' \in Seq(EpisodeRecord) /\ Len(closed') > 0 /\ closed'[Len(closed')] = d
  BY <1>3, <1>4, <1>7, <1>8, ExceptSeq
<1>11. \A b \in episode' : BufferFits(b, closed'[Len(closed')])
  BY <1>2, <1>7, <1>10
<1>12. \A x \in QAction : Gram(closed', x) = Gram(closed, x) /\ Target(closed', x) = Target(closed, x)
  BY <1>9, GramReplaced
<1>13. \A x \in QAction : Fits(policy'.q[x], Gram(closed', x), Target(closed', x))
  BY <1>1, <1>12 DEF RegressionInv
<1> QED BY <1>1, <1>9, <1>10, <1>11, <1>13 DEF RegressionInv

LEMMA RegressionEnd == RegressionInv /\ EndEpisodeStep => RegressionInv'
<1> SUFFICES ASSUME RegressionInv, EndEpisodeStep PROVE RegressionInv'
  OBVIOUS
<1>1. scenario = "episodes" /\ scenario' = scenario /\ episode' = {}
  BY DEF EndEpisodeStep
<1>2. PICK buffer \in episode, reason \in {"PositionClosed"} :
        policy' = [policy EXCEPT !.q = Learned(@, EpisodeResult("A", buffer, reason, 0))]
  BY DEF EndEpisodeStep
<1>3. /\ closed \in Seq(EpisodeRecord) /\ Len(closed) > 0 /\ ~closed[Len(closed)].over
      /\ BufferFits(buffer, closed[Len(closed)])
  BY <1>1 DEF RegressionInv
<1>4. PICK n \in Nat \ {0}, e \in EpisodeRecord : n = Len(closed) /\ e = closed[n]
  <2>1. Len(closed) \in Nat \ {0} /\ Len(closed) \in 1 .. Len(closed)
    BY <1>3
  <2>2. closed[Len(closed)] \in EpisodeRecord
    BY <1>3, <2>1, ElementOfSeq
  <2> QED BY <2>1, <2>2
<1>5. PICK d : d = [e EXCEPT !.over = TRUE]
  OBVIOUS
<1>6. d \in EpisodeRecord /\ d.over /\ BufferFits(buffer, d)
  BY <1>3, <1>4, <1>5, OverFits
<1>7. closed' = [closed EXCEPT ![Len(closed)] = d]
  BY <1>4, <1>5 DEF EndEpisodeStep
<1>8. Replaces(d, closed, closed')
  BY <1>3, <1>4, <1>6, <1>7 DEF Replaces
<1>9. closed' \in Seq(EpisodeRecord)
  BY <1>3, <1>4, <1>6, <1>7, ExceptSeq
<1>10. Solves(policy.q, closed, d, 0)
  <2>1. ASSUME NEW a \in QAction
        PROVE  Fits(policy.q[a], GramAt(closed, d, a, 0), TargetAt(closed, d, a, 0))
    BY <1>1, <1>3, <1>6, GramStarts DEF RegressionInv
  <2>2. policy.q = [a \in QAction |-> policy.q[a]]
    BY <1>1 DEF RegressionInv
  <2> QED BY <2>1, <2>2 DEF Solves
<1>11. PICK q : q = Learned(policy.q, EpisodeResult("A", buffer, reason, 0))
  OBVIOUS
<1>12. Solves(q, closed, d, Len(d.steps))
  BY <1>3, <1>6, <1>10, <1>11, EpisodeSolved
<1>13. /\ policy' \in [q : {q}, history : {policy.history}, decisions : {policy.decisions},
                       inflation : {policy.inflation}]
       /\ policy'.q = q
  <2>1. policy \in [q : {policy.q}, history : {policy.history}, decisions : {policy.decisions},
                    inflation : {policy.inflation}]
    BY <1>1 DEF RegressionInv
  <2>2. policy' = [policy EXCEPT !.q = q]
    BY <1>2, <1>11
  <2> QED BY ONLY <2>1, <2>2
<1>14. \A a \in QAction : Fits(q[a], Gram(closed', a), Target(closed', a))
  <2> TAKE a \in QAction
  <2>1. /\ Gram(closed', a) = GramAt(closed, d, a, Len(d.steps))
        /\ Target(closed', a) = TargetAt(closed, d, a, Len(d.steps))
    BY <1>6, <1>8, GramEnded
  <2> QED BY <1>12, <2>1 DEF Solves
<1>15. q = [a \in QAction |-> q[a]]
  BY <1>12 DEF Solves
<1> QED BY <1>1, <1>9, <1>13, <1>14, <1>15 DEF RegressionInv

LEMMA RegressionStep == EpisodeFitting /\ RegressionInv /\ [Next]_vars => RegressionInv'
<1> SUFFICES ASSUME EpisodeFitting, RegressionInv, [Next]_vars PROVE RegressionInv'
  OBVIOUS
<1>1. CASE StartEpisodeStep
  BY <1>1, RegressionStart
<1>2. CASE RecordStep
  BY <1>2, RegressionRecord
<1>3. CASE EndEpisodeStep
  BY <1>3, RegressionEnd
<1>4. CASE UNCHANGED <<scenario, policy, episode, closed>>
  BY <1>4 DEF RegressionInv
<1>5. CASE scenario # "episodes" /\ scenario' = scenario
  BY <1>5 DEF RegressionInv
<1> QED
  BY <1>1, <1>2, <1>3, <1>4, <1>5
     DEF Next, vars, episodeVars, DecideStep, ResetTrackerStep, ObserveStep, ClearStep, DecayStep,
         ResetFeatureStep, ResetDetectorStep, TickStep, UpdateStep, ExportStep, TamperStep,
         ImportStep

-----------------------------------------------------------------------------
(* The regression: the theorem *)

\* A sum over the steps of the completed episodes is the total of their parts.
LEMMA OverEpisode ==
  ASSUME NEW e \in EpisodeRecord, NEW a, NEW i \in Coords, NEW sought, NEW v \in Vectors
  PROVE  SumOver(Len(e.steps), [k \in 1 .. Len(e.steps) |->
                                  IF e.over /\ e.steps[k].action = a
                                    THEN e.steps[k].phi[i] ** Worth(e, k, sought, v) ELSE Zero])
           = IF e.over THEN Part(e, a, i, sought, v, Len(e.steps)) ELSE Zero
<1>1. PICK n \in Nat : n = Len(e.steps)
  BY EquitiesAre
<1>2. CASE e.over
  <2>1. \A k \in 1 .. n : (IF e.over /\ e.steps[k].action = a
                             THEN e.steps[k].phi[i] ** Worth(e, k, sought, v) ELSE Zero)
                            = Term(e, a, i, sought, v, k)
    BY <1>2 DEF Term
  <2>2. [k \in 1 .. n |-> IF e.over /\ e.steps[k].action = a
                            THEN e.steps[k].phi[i] ** Worth(e, k, sought, v) ELSE Zero]
          = [k \in 1 .. n |-> Term(e, a, i, sought, v, k)]
    BY <2>1
  <2> QED BY <1>1, <1>2, <2>2 DEF Part
<1>3. CASE ~e.over
  <2>1. PICK f \in [1 .. n -> Lowest] : /\ f = [k \in 1 .. n |-> Zero]
                                        /\ \A k \in 1 .. n : f[k] = Zero
    <3>1. Zero \in Lowest
      BY Ring
    <3>2. [k \in 1 .. n |-> Zero] \in [1 .. n -> Lowest]
      BY <3>1
    <3> QED BY <3>2
  <2>2. SumOver(n, f) = Zero
    BY <2>1, SumOverZeros
  <2>3. [k \in 1 .. n |-> IF e.over /\ e.steps[k].action = a
                            THEN e.steps[k].phi[i] ** Worth(e, k, sought, v) ELSE Zero] = f
    BY <1>3, <2>1
  <2> QED BY <1>1, <1>3, <2>2, <2>3
<1> QED BY <1>2, <1>3

LEMMA OverStepsIs ==
  ASSUME NEW a, NEW i \in Coords, NEW v \in Vectors, closed \in Seq(EpisodeRecord)
  PROVE  /\ OverSteps(a, LAMBDA e, k : e.steps[k].phi[i] ** Dot(e.steps[k].phi, v))
              = Total(closed, a, i, "weights", v)
         /\ OverSteps(a, LAMBDA e, k : e.steps[k].phi[i] ** ReturnOf(e, k))
              = Total(closed, a, i, "returns", v)
<1>1. ASSUME NEW n \in 1 .. Len(closed), NEW sought
      PROVE  SumOver(Len(closed[n].steps), [k \in 1 .. Len(closed[n].steps) |->
                 IF closed[n].over /\ closed[n].steps[k].action = a
                   THEN closed[n].steps[k].phi[i] ** Worth(closed[n], k, sought, v) ELSE Zero])
               = Parts(closed, a, i, sought, v)[n]
  <2>1. PICK e \in EpisodeRecord : e = closed[n]
    BY ElementOfSeq
  <2> QED BY <2>1, OverEpisode DEF Parts
<1>2. ASSUME NEW sought
      PROVE  [n \in 1 .. Len(closed) |->
                SumOver(Len(closed[n].steps), [k \in 1 .. Len(closed[n].steps) |->
                  IF closed[n].over /\ closed[n].steps[k].action = a
                    THEN closed[n].steps[k].phi[i] ** Worth(closed[n], k, sought, v) ELSE Zero])]
               = Parts(closed, a, i, sought, v)
  <2>1. Parts(closed, a, i, sought, v)
          = [n \in 1 .. Len(closed) |-> Parts(closed, a, i, sought, v)[n]]
    BY DEF Parts
  <2> QED BY <1>1, <2>1
<1>3. /\ \A e, k : Worth(e, k, "weights", v) = Dot(e.steps[k].phi, v)
      /\ \A e, k : Worth(e, k, "returns", v) = ReturnOf(e, k)
  BY DEF Worth
<1>4. OverSteps(a, LAMBDA e, k : e.steps[k].phi[i] ** Dot(e.steps[k].phi, v))
        = OverSteps(a, LAMBDA e, k : e.steps[k].phi[i] ** Worth(e, k, "weights", v))
  BY DEF OverSteps, Worth
<1>5. OverSteps(a, LAMBDA e, k : e.steps[k].phi[i] ** ReturnOf(e, k))
        = OverSteps(a, LAMBDA e, k : e.steps[k].phi[i] ** Worth(e, k, "returns", v))
  BY DEF OverSteps, Worth
<1>6. \A sought : OverSteps(a, LAMBDA e, k : e.steps[k].phi[i] ** Worth(e, k, sought, v))
                    = Total(closed, a, i, sought, v)
  BY <1>2 DEF OverSteps, Total
<1> QED BY <1>4, <1>5, <1>6

LEMMA RegressionHolds == RegressionInv => RegressionExact
<1>1. ASSUME RegressionInv, scenario = "episodes", NEW a \in QAction, NEW i \in Coords
      PROVE  ((LambdaReg ** policy.q[a].w[i])
                ++ OverSteps(a, LAMBDA e, k : e.steps[k].phi[i] ** Dot(e.steps[k].phi, policy.q[a].w)))
               = (BiasOf(a) ++ OverSteps(a, LAMBDA e, k : e.steps[k].phi[i] ** ReturnOf(e, k)))
  <2> DEFINE w == policy.q[a].w
  <2>1. closed \in Seq(EpisodeRecord) /\ Fits(policy.q[a], Gram(closed, a), Target(closed, a))
    BY <1>1 DEF RegressionInv
  <2>2. w \in Vectors /\ Gram(closed, a)[w] = Target(closed, a)
    BY <2>1, FitSolves
  <2>3. OverSteps(a, LAMBDA e, k : e.steps[k].phi[i] ** Dot(e.steps[k].phi, w))
          = Total(closed, a, i, "weights", w)
    BY <1>1, <2>1, <2>2, OverStepsIs
  <2>4. OverSteps(a, LAMBDA e, k : e.steps[k].phi[i] ** ReturnOf(e, k))
          = Total(closed, a, i, "returns", Origin)
    BY <1>1, <2>1, OriginIs, OverStepsIs
  <2>5. (LambdaReg ** w[i]) ++ Total(closed, a, i, "weights", w) = Gram(closed, a)[w][i]
    BY <1>1, <2>2 DEF Gram
  <2>6. BiasOf(a) ++ Total(closed, a, i, "returns", Origin) = Target(closed, a)[i]
    BY <1>1 DEF Target
  <2> QED BY <2>2, <2>3, <2>4, <2>5, <2>6
<1> QED BY <1>1 DEF RegressionExact, BiasOf

\* The weights of every action solve the regularized least squares problem of the discounted
\* returns of all completed episodes, to which the optimistic bias was added, for every dimension,
\* discount and reward and any number of episodes, as long as their numbers are fractions in
\* lowest terms (bayesian_lr.rs update, mc_eval.rs record and compute_returns).
THEOREM RegressionIsExact ==
  ASSUME EpisodeFitting
  PROVE  Spec => []RegressionExact
<1>1. Init => RegressionInv
  BY RegressionInit
<1>2. RegressionInv /\ [Next]_vars => RegressionInv'
  BY RegressionStep
<1>3. RegressionInv => RegressionExact
  BY RegressionHolds
<1> QED BY <1>1, <1>2, <1>3, PTL DEF Spec
=============================================================================
