--------------------------- MODULE OrderPathProofs ---------------------------
(***************************************************************************)
(* What an order meets on its way out, besides the risk rules: the switch  *)
(* that may refuse it (KillSwitch), for any threads, calls and sizes, and   *)
(* the choice of the LP it is sent to (LpExecution), for any number of LPs  *)
(* and any thresholds.                                                     *)
(*                                                                         *)
(* Between the two steps of a reset the statistics may count less than the *)
(* history holds, so it must be known what a thread in the middle of one   *)
(* has still to do: ResetOrdered says that the clearing of the history     *)
(* follows every clearing of the statistics, and that nothing ends such a  *)
(* call early.  A mask comes down only by a thread whose call is past the   *)
(* steps that look for its end: MaskInv says where in its call the one     *)
(* thread that sets and lifts the mask is when it may take it down.        *)
(* Agreement says that the judgement of LPs and their recalibration agree. *)
(***************************************************************************)
EXTENDS KillSwitch, LpExecution, SequenceTheorems, WellFoundedInduction, TLAPS

ResetSteps == {"withdraw", "forget", "clear_stats", "clear_history", "clear_anomaly", "zero"}

Has(w, step) == \E i \in 1 .. Len(w) : w[i] = step

\* What is left of a call: a call that has a history to clear is in a reset, and one that has
\* statistics to clear has them to clear once, and the history after them.
InReset(w) == \A i \in 1 .. Len(w) : w[i] \in ResetSteps
Ordered(w) ==
  /\ Has(w, "clear_history") => InReset(w)
  /\ \A i \in 1 .. Len(w) : w[i] = "clear_stats" =>
       /\ \E j \in i + 1 .. Len(w) : w[j] = "clear_history"
       /\ \A j \in 1 .. Len(w) : w[j] = "clear_stats" => j = i

ResetOrdered == \A t \in Threads : Ordered(work[t])

CountType ==
  /\ count \in Nat /\ recorded \in 0 .. MaxHistory
  /\ work \in [Threads -> Seq(Steps)]

CountInv == CountType /\ ResetOrdered /\ HistoryCounted

-----------------------------------------------------------------------------
(* Sequences of steps *)

\* What follows the first step keeps the order.
LEMMA TailOrdered ==
  ASSUME NEW w \in Seq(Steps), w # <<>>, Ordered(w)
  PROVE  Tail(w) \in Seq(Steps) /\ Ordered(Tail(w))
<1>1. Tail(w) \in Seq(Steps) /\ Len(Tail(w)) = Len(w) - 1 /\ Len(w) \in Nat \ {0}
  OBVIOUS
<1>2. \A i \in 1 .. Len(Tail(w)) : Tail(w)[i] = w[i + 1] /\ i + 1 \in 1 .. Len(w)
  BY <1>1
<1>3. Has(Tail(w), "clear_history") => InReset(Tail(w))
  BY <1>1, <1>2 DEF Ordered, Has, InReset
<1>4. ASSUME NEW i \in 1 .. Len(Tail(w)), Tail(w)[i] = "clear_stats"
      PROVE  /\ \E j \in i + 1 .. Len(Tail(w)) : Tail(w)[j] = "clear_history"
             /\ \A j \in 1 .. Len(Tail(w)) : Tail(w)[j] = "clear_stats" => j = i
  <2>1. i + 1 \in 1 .. Len(w) /\ w[i + 1] = "clear_stats"
    BY <1>2, <1>4
  <2>2. PICK k \in i + 2 .. Len(w) : w[k] = "clear_history"
    BY <1>1, <2>1 DEF Ordered
  <2>3. k - 1 \in i + 1 .. Len(Tail(w)) /\ Tail(w)[k - 1] = "clear_history"
    BY <1>1, <1>2, <2>2
  <2>4. \A j \in 1 .. Len(Tail(w)) : Tail(w)[j] = "clear_stats" => j + 1 = i + 1
    BY <1>2, <2>1 DEF Ordered
  <2>5. QED
    BY <1>1, <2>3, <2>4
<1>5. QED
  BY <1>1, <1>3, <1>4 DEF Ordered

\* A first step that clears neither leaves what is to be cleared.
LEMMA TailHas ==
  ASSUME NEW w \in Seq(Steps), w # <<>>, NEW step, Head(w) # step
  PROVE  Has(Tail(w), step) <=> Has(w, step)
<1>1. Len(Tail(w)) = Len(w) - 1 /\ Len(w) \in Nat \ {0} /\ Head(w) = w[1]
  OBVIOUS
<1>2. \A i \in 1 .. Len(Tail(w)) : Tail(w)[i] = w[i + 1] /\ i + 1 \in 1 .. Len(w)
  BY <1>1
<1>3. ASSUME NEW i \in 1 .. Len(w), w[i] = step
      PROVE  i - 1 \in 1 .. Len(Tail(w)) /\ Tail(w)[i - 1] = step
  <2>1. i # 1
    BY <1>1, <1>3
  <2>2. i - 1 \in 1 .. Len(Tail(w))
    BY <1>1, <2>1
  <2>3. QED
    BY <1>2, <1>3, <2>2
<1>4. QED
  BY <1>2, <1>3 DEF Has

\* A call whose next step is not of a reset has nothing to clear.
LEMMA HeadOfReset ==
  ASSUME NEW w \in Seq(Steps), w # <<>>, Ordered(w), Head(w) \notin ResetSteps
  PROVE  ~Has(w, "clear_history") /\ ~Has(w, "clear_stats")
<1>1. Head(w) = w[1] /\ 1 \in 1 .. Len(w) /\ Len(w) \in Nat
  OBVIOUS
<1>2. ~Has(w, "clear_history")
  BY <1>1 DEF Ordered, InReset
<1>3. ~Has(w, "clear_stats")
  <2> SUFFICES ASSUME NEW i \in 1 .. Len(w), w[i] = "clear_stats" PROVE FALSE
    BY DEF Has
  <2>1. PICK j \in i + 1 .. Len(w) : w[j] = "clear_history"
    BY DEF Ordered
  <2>2. j \in 1 .. Len(w)
    BY <1>1, <2>1
  <2>3. QED
    BY <1>2, <2>1, <2>2 DEF Has
<1>4. QED
  BY <1>2, <1>3

-----------------------------------------------------------------------------
(* Programs *)

\* What is after what in two sequences put together
LEMMA Joined ==
  ASSUME NEW s \in Seq(Steps), NEW r \in Seq(Steps), NEW m \in Nat, NEW n \in Nat,
         Len(s) = m, Len(r) = n
  PROVE  /\ s \o r \in Seq(Steps) /\ Len(s \o r) = m + n
         /\ \A i \in 1 .. m + n : (s \o r)[i] = IF i <= m THEN s[i] ELSE r[i - m]
BY ConcatProperties

\* A call that clears: the statistics, then the history.
Clearing(w, n, i) ==
  /\ w \in Seq(Steps) /\ Len(w) = n /\ i \in Nat /\ InReset(w)
  /\ \A j \in 1 .. n : /\ w[j] = "clear_stats" <=> j = i
                       /\ w[j] = "clear_history" <=> j = i + 1
  /\ i \in 1 .. n - 1

LEMMA ClearingOrdered ==
  ASSUME NEW w, NEW n \in Nat, NEW i, Clearing(w, n, i)
  PROVE  w \in Seq(Steps) /\ Ordered(w) /\ Has(w, "clear_stats")
<1>1. /\ w[i] = "clear_stats" /\ i \in 1 .. Len(w)
      /\ w[i + 1] = "clear_history" /\ i + 1 \in 1 .. Len(w)
  BY DEF Clearing
<1>2. \A j \in 1 .. Len(w) : w[j] = "clear_stats" => j = i
  BY DEF Clearing
<1>3. QED
  BY <1>1, <1>2 DEF Clearing, Ordered, Has

LEMMA ResetProgram ==
  Clearing(Program("reset"), 6, 3) /\ Clearing(Program("reset_stats"), 3, 1)
<1> DEFINE before == <<"withdraw", "forget">>
           both == <<"clear_stats", "clear_history">>
           after == <<"clear_anomaly", "zero">>
<1>1. /\ before \in Seq(Steps) /\ both \in Seq(Steps) /\ after \in Seq(Steps)
      /\ <<"zero">> \in Seq(Steps)
  BY DEF Steps
<1>2. Len(before) = 2 /\ Len(both) = 2 /\ Len(after) = 2 /\ Len(<<"zero">>) = 1
  OBVIOUS
<1>3. Clearing(both \o <<"zero">>, 3, 1)
  <2>1. both \o <<"zero">> \in Seq(Steps) /\ Len(both \o <<"zero">>) = 3
    BY <1>1, <1>2, Joined
  <2>2. \A i \in 1 .. 3 : (both \o <<"zero">>)[i] = IF i <= 2 THEN both[i] ELSE <<"zero">>[i - 2]
    BY <1>1, <1>2, Joined
  <2>3. QED
    BY <2>1, <2>2 DEF Clearing, InReset, ResetSteps
<1>4. Clearing(before \o both \o after, 6, 3)
  <2>1. before \o both \in Seq(Steps) /\ Len(before \o both) = 4
    BY <1>1, <1>2, Joined
  <2>2. \A i \in 1 .. 4 : (before \o both)[i] = IF i <= 2 THEN before[i] ELSE both[i - 2]
    BY <1>1, <1>2, Joined
  <2>3. before \o both \o after \in Seq(Steps) /\ Len(before \o both \o after) = 6
    BY <1>1, <1>2, <2>1, Joined
  <2>4. \A i \in 1 .. 6 : (before \o both \o after)[i]
                            = IF i <= 4 THEN (before \o both)[i] ELSE after[i - 4]
    BY <1>1, <1>2, <2>1, Joined
  <2>5. QED
    BY <2>2, <2>3, <2>4 DEF Clearing, InReset, ResetSteps
<1>5. QED
  BY <1>3, <1>4 DEF Program, Clears

\* Every call is a sequence of steps in that order, and not in the middle of a reset.
LEMMA ProgramOrdered ==
  ASSUME NEW op \in Operations
  PROVE  /\ Program(op) \in Seq(Steps) /\ Ordered(Program(op))
         /\ Has(Program(op), "clear_history") => Has(Program(op), "clear_stats")
<1>1. CASE op \in {"reset", "reset_stats"}
  BY <1>1, ResetProgram, ClearingOrdered
<1>2. CASE op \in {"validate_order", "record_tick", "trigger", "stats"}
  <2>1. Program(op) \in Seq(Steps \ {"clear_stats", "clear_history"})
    <3>1. CASE op = "validate_order"
      BY <3>1 DEF Program, Steps
    <3>2. CASE op = "record_tick"
      BY <3>2 DEF Program, Steps
    <3>3. CASE op = "trigger"
      BY <3>3 DEF Program, Steps
    <3>4. CASE op = "stats"
      <4>1. <<"lock_stats", "lock_anomaly">> \in Seq(Steps \ {"clear_stats", "clear_history"})
        BY DEF Steps
      <4>2. <<"unlock">> \in Seq(Steps \ {"clear_stats", "clear_history"})
        BY DEF Steps
      <4>3. Program(op) = <<"lock_stats", "lock_anomaly">> \o <<"unlock">>
        BY <3>4 DEF Program, StatsLocks
      <4>4. QED
        BY <4>1, <4>2, <4>3
    <3>5. QED
      BY <1>2, <3>1, <3>2, <3>3, <3>4
  <2>2. ~Has(Program(op), "clear_stats") /\ ~Has(Program(op), "clear_history")
    BY <2>1 DEF Has
  <2>3. Program(op) \in Seq(Steps)
    BY <2>1
  <2>4. QED
    BY <2>2, <2>3 DEF Ordered, Has
<1>3. QED
  BY <1>1, <1>2 DEF Operations

-----------------------------------------------------------------------------
(* Steps *)

\* A step of some thread leaves the calls in order, and the same threads in the middle of a reset.
ResetsKept ==
  /\ work' \in [Threads -> Seq(Steps)] /\ ResetOrdered'
  /\ \A u \in Threads : HalfReset(u)' <=> HalfReset(u)

\* It does when what is left to its own thread is in order and in the middle of a reset as before.
LEMMA OneMoves ==
  ASSUME CountInv, NEW t \in Threads, NEW w \in Seq(Steps), work' = [work EXCEPT ![t] = w],
         Ordered(w), Has(w, "clear_history") /\ ~Has(w, "clear_stats") <=> HalfReset(t)
  PROVE  ResetsKept
<1>1. work' \in [Threads -> Seq(Steps)]
  BY DEF CountInv, CountType
<1>2. work'[t] = w /\ \A u \in Threads \ {t} : work'[u] = work[u]
  BY DEF CountInv, CountType
<1>3. ResetOrdered'
  BY <1>2 DEF CountInv, ResetOrdered, Ordered, Has, InReset
<1>4. \A u \in Threads : HalfReset(u)' <=> HalfReset(u)
  <2>1. HalfReset(t)' <=> HalfReset(t)
    BY <1>2 DEF HalfReset, Resetting, Has
  <2>2. \A u \in Threads \ {t} : HalfReset(u)' <=> HalfReset(u)
    BY <1>2 DEF HalfReset, Resetting
  <2>3. QED
    BY <2>1, <2>2
<1>5. QED
  BY <1>1, <1>3, <1>4 DEF ResetsKept

\* A step is taken that clears neither.
LEMMA PopKeeps ==
  ASSUME CountInv, NEW t \in Threads, Busy(t),
         Head(work[t]) \notin {"clear_stats", "clear_history"},
         Proceed(t)
  PROVE  ResetsKept
<1>1. work[t] \in Seq(Steps) /\ work[t] # <<>> /\ Ordered(work[t])
  BY DEF CountInv, CountType, ResetOrdered, Busy
<1>2. Tail(work[t]) \in Seq(Steps) /\ Ordered(Tail(work[t]))
  BY <1>1, TailOrdered
<1>3. Has(Tail(work[t]), "clear_history") /\ ~Has(Tail(work[t]), "clear_stats") <=> HalfReset(t)
  BY <1>1, TailHas DEF HalfReset, Resetting, Has
<1>4. work' = [work EXCEPT ![t] = Tail(work[t])]
  BY DEF Proceed
<1>5. QED
  BY <1>2, <1>3, <1>4, OneMoves

\* A call outside a reset ends, or gets more steps that clear neither.
LEMMA OtherKeeps ==
  ASSUME CountInv, NEW t \in Threads, Busy(t), Head(work[t]) \notin ResetSteps,
         \/ Return(t)
         \/ \E steps \in Seq(Steps \ {"clear_stats", "clear_history"}) : ProceedWith(t, steps)
  PROVE  ResetsKept
<1>1. work[t] \in Seq(Steps) /\ work[t] # <<>> /\ Ordered(work[t])
  BY DEF CountInv, CountType, ResetOrdered, Busy
<1>2. ~Has(work[t], "clear_history") /\ ~Has(work[t], "clear_stats")
  BY <1>1, HeadOfReset
<1>3. ~HalfReset(t)
  BY <1>2 DEF HalfReset, Resetting, Has
<1>4. CASE Return(t)
  <2>1. <<>> \in Seq(Steps) /\ Ordered(<<>>) /\ ~Has(<<>>, "clear_history")
    BY DEF Ordered, Has
  <2>2. work' = [work EXCEPT ![t] = <<>>]
    BY <1>4 DEF Return
  <2>3. QED
    BY <1>3, <2>1, <2>2, OneMoves
<1>5. ASSUME NEW steps \in Seq(Steps \ {"clear_stats", "clear_history"}), ProceedWith(t, steps)
      PROVE  ResetsKept
  <2> DEFINE w == steps \o Tail(work[t])
             others == Steps \ {"clear_stats", "clear_history"}
  <2>1. \A i \in 1 .. Len(work[t]) : work[t][i] \in others
    BY <1>1, <1>2 DEF Has
  <2>2. Tail(work[t]) \in Seq(Steps) /\ Len(Tail(work[t])) = Len(work[t]) - 1
        /\ \A i \in 1 .. Len(Tail(work[t])) : Tail(work[t])[i] = work[t][i + 1]
    BY <1>1, HeadTailProperties
  <2>3. \A i \in 1 .. Len(Tail(work[t])) : Tail(work[t])[i] \in others
    BY <1>1, <2>1, <2>2
  <2>4. steps \in Seq(Steps) /\ Len(steps) \in Nat /\ Len(Tail(work[t])) \in Nat
        /\ \A i \in 1 .. Len(steps) : steps[i] \in others
    BY <2>2
  <2>5. /\ w \in Seq(Steps) /\ Len(w) = Len(steps) + Len(Tail(work[t]))
        /\ \A i \in 1 .. Len(w) : w[i] \in others
    <3>1. w \in Seq(Steps) /\ Len(w) = Len(steps) + Len(Tail(work[t]))
          /\ \A i \in 1 .. Len(steps) + Len(Tail(work[t])) :
               w[i] = IF i <= Len(steps) THEN steps[i] ELSE Tail(work[t])[i - Len(steps)]
      BY <2>2, <2>4, Joined
    <3> HIDE DEF w, others
    <3>2. ASSUME NEW i \in 1 .. Len(w)
          PROVE  w[i] \in others
      <4>1. CASE i <= Len(steps)
        BY <2>4, <3>1, <4>1
      <4>2. CASE i > Len(steps)
        <5>1. i - Len(steps) \in 1 .. Len(Tail(work[t])) /\ ~(i <= Len(steps))
          BY <2>4, <3>1, <4>2
        <5>2. w[i] = Tail(work[t])[i - Len(steps)]
          BY <2>4, <3>1, <5>1
        <5>3. QED
          BY <2>3, <5>1, <5>2
      <4>3. QED
        BY <2>4, <3>1, <4>1, <4>2
    <3>3. QED
      BY <3>1, <3>2
  <2> HIDE DEF w
  <2>6. w \in Seq(Steps) /\ Ordered(w) /\ ~Has(w, "clear_history")
    BY <2>5 DEF Ordered, Has
  <2>7. work' = [work EXCEPT ![t] = w]
    BY <1>5 DEF ProceedWith, w
  <2>8. QED
    BY <1>3, <2>6, <2>7, OneMoves
<1>6. QED
  BY <1>4, <1>5

LEMMA CountersStay ==
  ASSUME CountInv, ResetsKept, UNCHANGED <<count, recorded>>
  PROVE  CountInv'
BY DEF CountInv, CountType, ResetsKept, HistoryCounted

-----------------------------------------------------------------------------
(* Actions *)

\* Calls begin with a whole program.
LEMMA CallCounted ==
  ASSUME CountInv, NEW t \in Threads, NEW op \in Operations, Call(t, op)
  PROVE  CountInv'
<1>1. UNCHANGED <<count, recorded>>
  BY DEF Call, samples
<1>2. CASE UNCHANGED work
  BY <1>1, <1>2 DEF CountInv, CountType, ResetOrdered, HistoryCounted, HalfReset, Resetting
<1>3. CASE work' = [work EXCEPT ![t] = Program(op)]
  <2>1. work[t] = <<>>
    BY DEF Call, Busy
  <2>2. ~HalfReset(t)
    BY <2>1 DEF HalfReset, Resetting
  <2>3. ResetsKept
    BY <1>3, <2>2, ProgramOrdered, OneMoves
  <2>4. QED
    BY <1>1, <2>3, CountersStay
<1>4. QED
  BY <1>2, <1>3 DEF Call

\* An interval is counted and recorded, after those that leave.
LEMMA JudgeCounted ==
  ASSUME CountInv, NEW t \in Threads, Judge(t)
  PROVE  CountInv'
<1>1. ResetsKept
  <2>1. Busy(t) /\ Head(work[t]) = "judge"
    BY DEF Judge, At
  <2>2. CASE Proceed(t)
    BY <2>1, <2>2, PopKeeps
  <2>3. CASE ProceedWith(t, <<"mask", "now", "stamp", "note">>)
    <3>1. <<"mask", "now", "stamp", "note">> \in Seq(Steps \ {"clear_stats", "clear_history"})
      BY DEF Steps
    <3>2. "judge" \notin ResetSteps
      BY DEF ResetSteps
    <3>3. QED
      BY <2>1, <2>3, <3>1, <3>2, OtherKeeps
  <2>4. QED
    BY <2>2, <2>3 DEF Judge
<1>2. count \in Nat /\ recorded \in 0 .. MaxHistory /\ MaxHistory \in Nat \ {0}
  BY KillSwitchAssumption DEF CountInv, CountType, KillSwitchAssumption
<1>3. count' \in Nat /\ recorded' \in 0 .. MaxHistory
  BY <1>2 DEF Judge, Kept, Evicted
<1>4. recorded <= count => recorded' <= count'
  BY <1>2 DEF Judge, Kept, Evicted
<1>5. QED
  BY <1>1, <1>3, <1>4 DEF CountInv, CountType, ResetsKept, HistoryCounted

\* Who has cleared the statistics is in the middle of a reset.
LEMMA ClearStatsCounted ==
  ASSUME CountInv, NEW t \in Threads, ClearStats(t)
  PROVE  CountInv'
<1>1. work[t] \in Seq(Steps) /\ work[t] # <<>> /\ Ordered(work[t]) /\ Head(work[t]) = "clear_stats"
  BY DEF CountInv, CountType, ResetOrdered, ClearStats, At, Busy
<1>2. Tail(work[t]) \in Seq(Steps) /\ Ordered(Tail(work[t]))
  BY <1>1, TailOrdered
<1>3. Len(Tail(work[t])) = Len(work[t]) - 1 /\ Len(work[t]) \in Nat \ {0}
      /\ (\A i \in 1 .. Len(Tail(work[t])) : Tail(work[t])[i] = work[t][i + 1])
      /\ work[t][1] = "clear_stats"
  BY <1>1
<1>4. Has(Tail(work[t]), "clear_history")
  <2>1. PICK j \in 2 .. Len(work[t]) : work[t][j] = "clear_history"
    BY <1>1, <1>3 DEF Ordered
  <2>2. j - 1 \in 1 .. Len(Tail(work[t])) /\ Tail(work[t])[j - 1] = "clear_history"
    BY <1>3, <2>1
  <2>3. QED
    BY <2>2 DEF Has
<1>5. ~Has(Tail(work[t]), "clear_stats")
  <2> SUFFICES ASSUME NEW i \in 1 .. Len(Tail(work[t])), Tail(work[t])[i] = "clear_stats"
               PROVE  FALSE
    BY DEF Has
  <2>1. i + 1 \in 1 .. Len(work[t]) /\ work[t][i + 1] = "clear_stats" /\ 1 \in 1 .. Len(work[t])
    BY <1>3
  <2>2. i + 1 = 1
    BY <1>1, <1>3, <2>1 DEF Ordered
  <2>3. QED
    BY <2>2
<1>6. work' = [work EXCEPT ![t] = Tail(work[t])]
  BY DEF ClearStats, Proceed
<1>7. work' \in [Threads -> Seq(Steps)] /\ work'[t] = Tail(work[t])
      /\ \A u \in Threads \ {t} : work'[u] = work[u]
  BY <1>2, <1>6 DEF CountInv, CountType
<1>8. HalfReset(t)'
  BY <1>4, <1>5, <1>7 DEF HalfReset, Resetting, Has
<1>9. ResetOrdered'
  <2>1. \A u \in Threads : Ordered(work'[u])
    BY <1>2, <1>7 DEF CountInv, ResetOrdered
  <2>2. QED
    BY <2>1 DEF ResetOrdered, Ordered, Has, InReset
<1>10. count' = 0 /\ recorded' = recorded
  BY DEF ClearStats
<1>11. QED
  BY <1>7, <1>8, <1>9, <1>10 DEF CountInv, CountType, HistoryCounted

\* An empty history is covered by any statistics.
LEMMA ClearHistoryCounted ==
  ASSUME CountInv, NEW t \in Threads, ClearHistory(t)
  PROVE  CountInv'
<1>1. work[t] \in Seq(Steps) /\ work[t] # <<>> /\ Ordered(work[t])
  BY DEF CountInv, CountType, ResetOrdered, ClearHistory, At, Busy
<1>2. Tail(work[t]) \in Seq(Steps) /\ Ordered(Tail(work[t]))
  BY <1>1, TailOrdered
<1>3. work' = [work EXCEPT ![t] = Tail(work[t])]
  BY DEF ClearHistory, Proceed
<1>4. work' \in [Threads -> Seq(Steps)] /\ work'[t] = Tail(work[t])
      /\ \A u \in Threads \ {t} : work'[u] = work[u]
  BY <1>2, <1>3 DEF CountInv, CountType
<1>5. ResetOrdered'
  <2>1. \A u \in Threads : Ordered(work'[u])
    BY <1>2, <1>4 DEF CountInv, ResetOrdered
  <2>2. QED
    BY <2>1 DEF ResetOrdered, Ordered, Has, InReset
<1>6. count' = count /\ recorded' = 0 /\ MaxHistory \in Nat
  BY KillSwitchAssumption DEF ClearHistory, KillSwitchAssumption
<1>7. QED
  BY <1>4, <1>5, <1>6 DEF CountInv, CountType, HistoryCounted

\* The other steps of a call take themselves off, end it, or put two steps before the rest.
LEMMA OtherCounted ==
  ASSUME CountInv, NEW t \in Threads, Run(t), ~Judge(t), ~ClearStats(t), ~ClearHistory(t)
  PROVE  CountInv'
<1>1. UNCHANGED <<count, recorded>>
  BY DEF Run, Expiry, Unmask, Withdraw, Forget, Mask, Now, Stamp, Swap, Note, Unlock, Lock,
         ClearAnomaly, Zero, samples
<1>2. \A step \in {"expiry", "swap"} : step \notin ResetSteps
  BY DEF ResetSteps
<1>3. CASE Expiry(t)
  <2>1. Busy(t) /\ Head(work[t]) = "expiry"
    BY <1>3 DEF Expiry, At
  <2>2. <<"unmask", "forget">> \in Seq(Steps \ {"clear_stats", "clear_history"})
    BY DEF Steps
  <2>3. Return(t) \/ ProceedWith(t, <<"unmask", "forget">>)
    BY <1>3 DEF Expiry
  <2>4. ResetsKept
    BY <1>2, <2>1, <2>2, <2>3, OtherKeeps
  <2>5. QED
    BY <1>1, <2>4, CountersStay
<1>4. CASE Swap(t)
  <2>1. Busy(t) /\ Head(work[t]) = "swap"
    BY <1>4 DEF Swap, At
  <2>2. CASE Return(t)
    BY <1>1, <1>2, <2>1, <2>2, OtherKeeps, CountersStay
  <2>3. CASE Proceed(t)
    BY <1>1, <2>1, <2>3, PopKeeps, CountersStay
  <2>4. QED
    BY <1>4, <2>2, <2>3 DEF Swap
<1>5. ASSUME Busy(t), Proceed(t), Head(work[t]) \notin {"clear_stats", "clear_history"}
      PROVE  CountInv'
  BY <1>1, <1>5, PopKeeps, CountersStay
<1>6. CASE Unmask(t) \/ Withdraw(t) \/ Forget(t) \/ Mask(t) \/ Now(t) \/ Stamp(t)
  BY <1>5, <1>6 DEF Unmask, Withdraw, Forget, Mask, Now, Stamp, At
<1>7. CASE Note(t) \/ Unlock(t) \/ ClearAnomaly(t) \/ Zero(t)
  BY <1>5, <1>7 DEF Note, Unlock, ClearAnomaly, Zero, At
<1>8. CASE \/ Lock(t, "lock_stats", "stats") \/ Lock(t, "lock_history", "history")
           \/ Lock(t, "lock_anomaly", "last_anomaly")
  BY <1>5, <1>8 DEF Lock, At
<1>9. QED
  BY <1>3, <1>4, <1>6, <1>7, <1>8 DEF Run

LEMMA CountStart ==
  ASSUME Init
  PROVE  CountInv
<1>1. CountType
  BY KillSwitchAssumption DEF Init, CountType, KillSwitchAssumption
<1>2. ResetOrdered
  <2>1. Ordered(<<>>)
    BY DEF Ordered, Has
  <2>2. QED
    BY <2>1 DEF Init, ResetOrdered
<1>3. HistoryCounted
  BY DEF Init, HistoryCounted
<1>4. QED
  BY <1>1, <1>2, <1>3 DEF CountInv

\* Every step keeps the statistics covering the history.
LEMMA CountKeeps ==
  ASSUME CountInv, [Next]_vars
  PROVE  CountInv'
<1>1. ASSUME NEW t \in Threads, Run(t) PROVE CountInv'
  BY <1>1, JudgeCounted, ClearStatsCounted, ClearHistoryCounted, OtherCounted
<1>2. ASSUME NEW t \in Threads, NEW op \in Operations, Call(t, op) PROVE CountInv'
  BY <1>2, CallCounted
<1>3. CASE UNCHANGED <<count, recorded, work>>
  BY <1>3 DEF CountInv, CountType, ResetOrdered, HistoryCounted, HalfReset, Resetting
<1>4. QED
  BY <1>1, <1>2, <1>3 DEF Next, Elapse, Quiet, vars, samples

\* Outside the middle of a reset the statistics count at least the intervals of the history
\* (kill_switch.rs record_tick, reset and reset_stats), for any threads that make any calls.
THEOREM HistoryIsCounted == Spec => []HistoryCounted
<1>1. CountInv => HistoryCounted
  BY DEF CountInv
<1>2. QED
  BY CountStart, CountKeeps, <1>1, PTL DEF Spec

-----------------------------------------------------------------------------
(* Types *)

\* CountType is what of TypeOK the steps of a call may disturb.
LEMMA TypeKeeps ==
  ASSUME TypeOK, CountType', [Next]_vars
  PROVE  TypeOK'
<1>1. MaxTime \in Nat /\ MaxCalls \in Nat
  BY KillSwitchAssumption DEF KillSwitchAssumption
<1>2. CASE UNCHANGED vars
  BY <1>2 DEF TypeOK, vars, mask, samples
<1>3. ASSUME NEW t \in Threads, NEW op \in Operations, Call(t, op)
      PROVE  TypeOK'
  <2>1. made' \in [Threads -> 0 .. MaxCalls]
    BY <1>1, <1>3 DEF TypeOK, Call
  <2>2. QED
    BY <1>3, <2>1 DEF TypeOK, CountType, Call, mask, samples
<1>4. CASE Elapse
  BY <1>1, <1>4 DEF TypeOK, Elapse, mask, samples
<1>5. ASSUME NEW t \in Threads, Run(t)
      PROVE  TypeOK'
  <2>1. CASE Expiry(t) \/ Unmask(t) \/ Withdraw(t) \/ Forget(t) \/ Mask(t)
    BY <2>1 DEF TypeOK, CountType, Expiry, Unmask, Withdraw, Forget, Mask, mask, samples
  <2>2. CASE Now(t) \/ Stamp(t)
    BY <1>1, <2>2 DEF TypeOK, CountType, Now, Stamp, samples
  <2>3. CASE Swap(t) \/ Judge(t) \/ Note(t) \/ ClearAnomaly(t) \/ Zero(t)
    BY <2>3 DEF TypeOK, CountType, Swap, Judge, Note, ClearAnomaly, Zero, mask
  <2>4. CASE ClearStats(t) \/ ClearHistory(t)
    BY <2>4 DEF TypeOK, CountType, ClearStats, ClearHistory, mask
  <2>5. CASE Unlock(t)
    BY <2>5 DEF TypeOK, CountType, Unlock, mask, samples
  <2>6. ASSUME NEW step, NEW m \in Mutexes, Lock(t, step, m)
        PROVE  TypeOK'
    BY <2>6 DEF TypeOK, CountType, Lock, Acquire, mask, samples
  <2>7. CASE \/ Lock(t, "lock_stats", "stats") \/ Lock(t, "lock_history", "history")
             \/ Lock(t, "lock_anomaly", "last_anomaly")
    BY <2>6, <2>7 DEF Mutexes
  <2>8. QED
    BY <1>5, <2>1, <2>2, <2>3, <2>4, <2>5, <2>7 DEF Run
<1>6. QED
  BY <1>2, <1>3, <1>4, <1>5 DEF Next, Quiet

\* The state of the switch is well typed; its history never exceeds its maximum.
THEOREM KillSwitchTypeCorrect == Spec => []TypeOK
<1>1. Init => TypeOK
  <2> SUFFICES ASSUME Init PROVE TypeOK
    OBVIOUS
  <2>1. MaxTime \in Nat /\ MaxCalls \in Nat /\ 0 \in 0 .. MaxTime /\ 0 \in 0 .. MaxCalls
    BY KillSwitchAssumption DEF KillSwitchAssumption
  <2>2. CountType
    BY CountStart DEF CountInv
  <2>3. owner \in [Mutexes -> Threads \cup {Nobody}]
    BY DEF Init
  <2>4. instant \in [Threads -> 0 .. MaxTime] /\ made \in [Threads -> 0 .. MaxCalls]
    BY <2>1 DEF Init
  <2>5. now \in 0 .. MaxTime /\ masked \in BOOLEAN /\ seen \in BOOLEAN /\ lastAnomaly \in BOOLEAN
    BY <2>1 DEF Init
  <2>6. maskStart \in Nat \cup {Never} /\ armed \in Nat \cup {Never}
    BY DEF Init
  <2>7. QED
    BY <2>2, <2>3, <2>4, <2>5, <2>6 DEF TypeOK, CountType
<1>2. CountInv /\ TypeOK /\ [Next]_vars => TypeOK'
  BY CountKeeps, TypeKeeps DEF CountInv
<1>3. QED
  BY CountStart, CountKeeps, <1>1, <1>2, PTL DEF Spec

-----------------------------------------------------------------------------
(* The mask *)

\* No mask has been stamped that is not withdrawn or over.
Gone == armed = Never \/ now - armed >= MaskDuration

MonitorSteps == {"lock_stats", "lock_anomaly", "unlock", "clear_stats", "clear_history", "zero"}

\* In what is left of a call the steps about the mask come in their order.
Chained(w) ==
  \A i \in 1 .. Len(w) :
    /\ w[i] = "unmask" => i = 1
    /\ w[i] = "forget" => i = 1 \/ w[i - 1] \in {"withdraw", "unmask"}
    /\ w[i] = "now"    => i = 1 \/ w[i - 1] = "mask"
    /\ w[i] = "stamp"  => i = 1 \/ w[i - 1] = "now"

\* A mask is taken down only after it is gone, and stamped only while the flag is up.
Ready(w) ==
  w # <<>> =>
    /\ Head(w) \in {"unmask", "forget"} => Gone
    /\ Head(w) \in {"now", "stamp"} => masked

MaskInv(r) ==
  /\ work \in [Threads -> Seq(Steps)] /\ instant \in [Threads -> Nat] /\ now \in Nat
  /\ armed \in Nat \cup {Never}
  /\ Gone \/ (masked /\ maskStart = armed)
  /\ Chained(work[r]) /\ Ready(work[r])
  /\ \A t \in Threads \ {r} : \A i \in 1 .. Len(work[t]) : work[t][i] \in MonitorSteps

\* What follows the first step keeps the order, and the next step is ready when the first
\* one leaves it so.
LEMMA TailChained ==
  ASSUME NEW w \in Seq(Steps), w # <<>>, Chained(w)
  PROVE  /\ Tail(w) \in Seq(Steps) /\ Chained(Tail(w))
         /\ Tail(w) # <<>> =>
              /\ Head(Tail(w)) # "unmask"
              /\ Head(Tail(w)) = "forget" => Head(w) \in {"withdraw", "unmask"}
              /\ Head(Tail(w)) = "now" => Head(w) = "mask"
              /\ Head(Tail(w)) = "stamp" => Head(w) = "now"
<1>1. Tail(w) \in Seq(Steps) /\ Len(Tail(w)) = Len(w) - 1 /\ Len(w) \in Nat \ {0} /\ Head(w) = w[1]
  OBVIOUS
<1>2. \A i \in 1 .. Len(Tail(w)) : Tail(w)[i] = w[i + 1] /\ i + 1 \in 1 .. Len(w)
  BY <1>1
<1>3. ASSUME NEW i \in 1 .. Len(Tail(w))
      PROVE  /\ Tail(w)[i] # "unmask"
             /\ Tail(w)[i] = "forget" => w[i] \in {"withdraw", "unmask"}
             /\ Tail(w)[i] = "now" => w[i] = "mask"
             /\ Tail(w)[i] = "stamp" => w[i] = "now"
             /\ i > 1 => w[i] = Tail(w)[i - 1]
  <2>1. i + 1 \in 1 .. Len(w) /\ Tail(w)[i] = w[i + 1] /\ i + 1 # 1 /\ (i + 1) - 1 = i
    BY <1>2
  <2>2. i > 1 => i - 1 \in 1 .. Len(Tail(w)) /\ (i - 1) + 1 = i
    BY <1>1
  <2>3. i > 1 => w[i] = Tail(w)[i - 1]
    BY <1>2, <2>2
  <2>4. QED
    BY <2>1, <2>3 DEF Chained
<1>4. Chained(Tail(w))
  BY <1>1, <1>3 DEF Chained
<1>5. Tail(w) # <<>> => Head(Tail(w)) = Tail(w)[1] /\ 1 \in 1 .. Len(Tail(w))
  BY <1>1
<1>6. QED
  BY <1>1, <1>3, <1>4, <1>5

\* Steps put first in place of one that is followed by neither of the four keep the order.
LEMMA PutChained ==
  ASSUME NEW w \in Seq(Steps), w # <<>>, Chained(w), Head(w) \in {"expiry", "judge"},
         NEW s \in Seq(Steps), Chained(s)
  PROVE  s \o Tail(w) \in Seq(Steps) /\ Chained(s \o Tail(w))
<1> DEFINE r == Tail(w)
           m == Len(s)
           n == Len(r)
           c == s \o r
<1>1. r \in Seq(Steps) /\ Chained(r) /\ m \in Nat /\ n \in Nat
  BY TailChained
<1>2. r # <<>> => r[1] \notin {"unmask", "forget", "now", "stamp"}
  BY TailChained
<1>3. /\ c \in Seq(Steps) /\ Len(c) = m + n
      /\ \A i \in 1 .. m + n : c[i] = IF i <= m THEN s[i] ELSE r[i - m]
  BY <1>1, Joined
<1> HIDE DEF r, m, n, c
<1>4. ASSUME NEW i \in 1 .. m + n
      PROVE  /\ c[i] = "unmask" => i = 1
             /\ c[i] = "forget" => i = 1 \/ c[i - 1] \in {"withdraw", "unmask"}
             /\ c[i] = "now"    => i = 1 \/ c[i - 1] = "mask"
             /\ c[i] = "stamp"  => i = 1 \/ c[i - 1] = "now"
  <2>1. CASE i <= m
    <3>1. c[i] = s[i] /\ i \in 1 .. Len(s)
      BY <1>1, <1>3, <2>1 DEF m
    <3>2. i # 1 => i - 1 \in 1 .. m + n /\ i - 1 <= m
      BY <1>1, <2>1
    <3>3. i # 1 => c[i - 1] = s[i - 1]
      BY <1>3, <3>2
    <3>4. QED
      BY <3>1, <3>3 DEF Chained
  <2>2. CASE i = m + 1
    <3>1. c[i] = r[1] /\ r # <<>>
      BY <1>1, <1>3, <2>2 DEF n
    <3>2. QED
      BY <1>2, <3>1
  <2>3. CASE i > m + 1
    <3>1. c[i] = r[i - m] /\ i - m \in 1 .. Len(r) /\ i - m # 1
      BY <1>1, <1>3, <2>3 DEF n
    <3>2. i - 1 \in 1 .. m + n /\ ~(i - 1 <= m) /\ (i - 1) - m = (i - m) - 1
      BY <1>1, <2>3
    <3>3. c[i - 1] = r[(i - m) - 1]
      BY <1>3, <3>2
    <3>4. QED
      BY <1>1, <3>1, <3>3 DEF Chained
  <2>4. QED
    BY <1>1, <2>1, <2>2, <2>3
<1>5. QED
  BY <1>3, <1>4 DEF Chained, r, c

\* Every call has them in order, and begins with none of those that must be ready.
LEMMA ProgramChained ==
  ASSUME NEW op \in Operations
  PROVE  /\ Chained(Program(op))
         /\ Head(Program(op)) \notin {"unmask", "forget", "now", "stamp"}
         /\ op \in {"stats", "reset_stats"} =>
              \A i \in 1 .. Len(Program(op)) : Program(op)[i] \in MonitorSteps
<1> DEFINE before == <<"withdraw", "forget">>
           both == <<"clear_stats", "clear_history">>
           after == <<"clear_anomaly", "zero">>
           locks == <<"lock_stats", "lock_anomaly">>
<1>1. /\ before \in Seq(Steps) /\ both \in Seq(Steps) /\ after \in Seq(Steps)
      /\ <<"zero">> \in Seq(Steps) /\ locks \in Seq(Steps) /\ <<"unlock">> \in Seq(Steps)
  BY DEF Steps
<1>2. /\ Len(before) = 2 /\ Len(both) = 2 /\ Len(after) = 2 /\ Len(<<"zero">>) = 1
      /\ Len(locks) = 2 /\ Len(<<"unlock">>) = 1
  OBVIOUS
<1>3. CASE op = "validate_order"
  BY <1>3 DEF Program, Chained
<1>4. CASE op = "record_tick"
  BY <1>4 DEF Program, Chained
<1>5. CASE op = "trigger"
  BY <1>5 DEF Program, Chained
<1>6. CASE op = "reset"
  <2> DEFINE four == before \o both
             six == four \o after
  <2>1. four \in Seq(Steps) /\ Len(four) = 4
    BY <1>1, <1>2, Joined
  <2>2. \A i \in 1 .. 4 : four[i] = IF i <= 2 THEN before[i] ELSE both[i - 2]
    BY <1>1, <1>2, Joined
  <2>3. six \in Seq(Steps) /\ Len(six) = 6
    BY <1>1, <1>2, <2>1, Joined
  <2>4. \A i \in 1 .. 6 : six[i] = IF i <= 4 THEN four[i] ELSE after[i - 4]
    BY <1>1, <1>2, <2>1, Joined
  <2>5. Program(op) = six
    BY <1>6 DEF Program, Clears
  <2> HIDE DEF before, both, after, four, six
  <2>6. Program(op) \in Seq(Steps) /\ Len(Program(op)) = 6
    BY <2>3, <2>5
  <2>7. Program(op)[1] = "withdraw" /\ Program(op)[2] = "forget"
    BY <2>2, <2>4, <2>5 DEF before
  <2>8. /\ Program(op)[3] = "clear_stats" /\ Program(op)[4] = "clear_history"
        /\ Program(op)[5] = "clear_anomaly" /\ Program(op)[6] = "zero"
    <3>1. /\ Program(op)[3] = both[1] /\ Program(op)[4] = both[2]
          /\ Program(op)[5] = after[1] /\ Program(op)[6] = after[2]
      BY <2>2, <2>4, <2>5
    <3>2. QED
      BY <3>1 DEF both, after
  <2>9. Head(Program(op)) = Program(op)[1]
    BY <2>6
  <2>10. Chained(Program(op))
    BY <2>6, <2>7, <2>8 DEF Chained
  <2>11. QED
    BY <1>6, <2>7, <2>9, <2>10
<1>7. CASE op = "reset_stats"
  <2>1. both \o <<"zero">> \in Seq(Steps) /\ Len(both \o <<"zero">>) = 3
    BY <1>1, <1>2, Joined
  <2>2. \A i \in 1 .. 3 : (both \o <<"zero">>)[i] = IF i <= 2 THEN both[i] ELSE <<"zero">>[i - 2]
    BY <1>1, <1>2, Joined
  <2>3. \A i \in 1 .. 3 : (both \o <<"zero">>)[i] \in {"clear_stats", "clear_history", "zero"}
    BY <2>2
  <2>4. Program(op) = both \o <<"zero">>
    BY <1>7 DEF Program, Clears
  <2> HIDE DEF both
  <2>5. QED
    BY <2>1, <2>3, <2>4 DEF Chained, MonitorSteps
<1>8. CASE op = "stats"
  <2>1. locks \o <<"unlock">> \in Seq(Steps) /\ Len(locks \o <<"unlock">>) = 3
    BY <1>1, <1>2, Joined
  <2>2. \A i \in 1 .. 3 : (locks \o <<"unlock">>)[i]
                            = IF i <= 2 THEN locks[i] ELSE <<"unlock">>[i - 2]
    BY <1>1, <1>2, Joined
  <2>3. \A i \in 1 .. 3 : (locks \o <<"unlock">>)[i] \in {"lock_stats", "lock_anomaly", "unlock"}
    BY <2>2
  <2>4. Program(op) = locks \o <<"unlock">>
    BY <1>8 DEF Program, StatsLocks
  <2> HIDE DEF locks
  <2>5. QED
    BY <2>1, <2>3, <2>4 DEF Chained, MonitorSteps
<1>9. QED
  BY <1>3, <1>4, <1>5, <1>6, <1>7, <1>8 DEF Operations

-----------------------------------------------------------------------------
(* Steps and the mask *)

\* The next state is ready for w.
ReadyNext(w) ==
  w # <<>> =>
    /\ Head(w) \in {"unmask", "forget"} => Gone'
    /\ Head(w) \in {"now", "stamp"} => masked'

\* The runner goes on with what is in order and ready.
LEMMA RunnerGoesOn ==
  ASSUME NEW r \in Threads, MaskInv(r), NEW w \in Seq(Steps), work' = [work EXCEPT ![r] = w],
         Chained(w), ReadyNext(w),
         instant' \in [Threads -> Nat], now' = now, armed' \in Nat \cup {Never},
         Gone' \/ (masked' /\ maskStart' = armed')
  PROVE  MaskInv(r)'
<1>1. work' \in [Threads -> Seq(Steps)] /\ work'[r] = w
  BY DEF MaskInv
<1>2. \A t \in Threads \ {r} : work'[t] = work[t]
  BY DEF MaskInv
<1>3. Chained(work[r])' /\ Ready(work[r])'
  BY <1>1 DEF Chained, Ready, ReadyNext, Gone
<1>4. \A t \in Threads \ {r} : \A i \in 1 .. Len(work'[t]) : work'[t][i] \in MonitorSteps
  BY <1>2 DEF MaskInv
<1>5. QED
  BY <1>1, <1>3, <1>4 DEF MaskInv

\* Another thread does not touch the mask.
LEMMA MonitorKeeps ==
  ASSUME NEW r \in Threads, MaskInv(r), NEW t \in Threads \ {r}, Run(t)
  PROVE  MaskInv(r)'
<1>1. work[t] \in Seq(Steps) /\ work[t] # <<>> /\ Head(work[t]) \in MonitorSteps
  <2>1. work[t] \in Seq(Steps)
    BY DEF MaskInv
  <2>2. work[t] # <<>>
    BY DEF Run, Expiry, Unmask, Withdraw, Forget, Mask, Now, Stamp, Swap, Judge, Note, Unlock,
           Lock, ClearStats, ClearHistory, ClearAnomaly, Zero, At, Busy
  <2>3. Head(work[t]) = work[t][1] /\ 1 \in 1 .. Len(work[t])
    BY <2>1, <2>2
  <2>4. QED
    BY <2>1, <2>2, <2>3 DEF MaskInv
<1>2. UNCHANGED <<now, mask>> /\ work' = [work EXCEPT ![t] = Tail(@)]
  BY <1>1 DEF Run, Expiry, Unmask, Withdraw, Forget, Mask, Now, Stamp, Swap, Judge, Note, Unlock,
         Lock, ClearStats, ClearHistory, ClearAnomaly, Zero, At, MonitorSteps, Proceed, mask
<1>3. work' \in [Threads -> Seq(Steps)] /\ work'[r] = work[r] /\ work'[t] = Tail(work[t])
  BY <1>1, <1>2 DEF MaskInv
<1>4. \A i \in 1 .. Len(Tail(work[t])) : Tail(work[t])[i] \in MonitorSteps
  <2>1. \A i \in 1 .. Len(Tail(work[t])) : Tail(work[t])[i] = work[t][i + 1]
                                             /\ i + 1 \in 1 .. Len(work[t])
    BY <1>1
  <2>2. QED
    BY <2>1 DEF MaskInv
<1>5. \A u \in Threads \ {r} : \A i \in 1 .. Len(work'[u]) : work'[u][i] \in MonitorSteps
  BY <1>2, <1>3, <1>4 DEF MaskInv
<1>6. Chained(work[r])' /\ Ready(work[r])' /\ (Gone' \/ (masked' /\ maskStart' = armed'))
  BY <1>2, <1>3 DEF MaskInv, Chained, Ready, Gone, mask
<1>7. QED
  BY <1>2, <1>3, <1>5, <1>6 DEF MaskInv, mask

\* The runner's own steps
LEMMA RunnerKeeps ==
  ASSUME NEW r \in Threads, MaskInv(r), Run(r)
  PROVE  MaskInv(r)'
<1> DEFINE w == work[r]
<1>1. w \in Seq(Steps) /\ w # <<>> /\ Chained(w) /\ Ready(w)
  BY DEF MaskInv, Run, Expiry, Unmask, Withdraw, Forget, Mask, Now, Stamp, Swap, Judge, Note,
         Unlock, Lock, ClearStats, ClearHistory, ClearAnomaly, Zero, At, Busy
<1>2. /\ Tail(w) \in Seq(Steps) /\ Chained(Tail(w))
      /\ Tail(w) # <<>> =>
           /\ Head(Tail(w)) # "unmask"
           /\ Head(Tail(w)) = "forget" => Head(w) \in {"withdraw", "unmask"}
           /\ Head(Tail(w)) = "now" => Head(w) = "mask"
           /\ Head(Tail(w)) = "stamp" => Head(w) = "now"
  BY <1>1, TailChained
<1>3. /\ instant \in [Threads -> Nat] /\ now \in Nat /\ armed \in Nat \cup {Never}
      /\ Gone \/ (masked /\ maskStart = armed)
  BY DEF MaskInv
<1>4. MaskDuration \in Nat
  BY KillSwitchAssumption DEF KillSwitchAssumption
<1> HIDE DEF w
<1>5. CASE Expiry(r)
  <2>1. Head(w) = "expiry" /\ UNCHANGED <<now, mask>>
    BY <1>5 DEF Expiry, At, w
  <2>2. CASE /\ ProceedWith(r, <<"unmask", "forget">>)
             /\ maskStart = Never \/ now - maskStart >= MaskDuration
    <3> DEFINE v == <<"unmask", "forget">> \o Tail(w)
    <3>1. <<"unmask", "forget">> \in Seq(Steps) /\ Chained(<<"unmask", "forget">>)
      BY DEF Steps, Chained
    <3>2. v \in Seq(Steps) /\ Chained(v)
      BY <1>1, <2>1, <3>1, PutChained
    <3>3. Gone
      BY <1>3, <2>2 DEF Gone
    <3>4. Head(v) = "unmask"
      BY <1>2
    <3>5. work' = [work EXCEPT ![r] = v]
      BY <2>2 DEF ProceedWith, w, MaskInv
    <3> HIDE DEF v
    <3>6. ReadyNext(v)
      BY <2>1, <3>3, <3>4 DEF ReadyNext, Gone, mask
    <3>7. QED
      BY <1>3, <2>1, <3>2, <3>3, <3>5, <3>6, RunnerGoesOn DEF Gone, mask
  <2>3. CASE Return(r)
    <3>1. <<>> \in Seq(Steps) /\ Chained(<<>>) /\ ReadyNext(<<>>) /\ work' = [work EXCEPT ![r] = <<>>]
      BY <2>3 DEF Return, Chained, ReadyNext
    <3>2. QED
      BY <1>3, <2>1, <3>1, RunnerGoesOn DEF Gone, mask
  <2>4. QED
    BY <1>5, <2>2, <2>3 DEF Expiry
<1>6. CASE Judge(r) /\ ProceedWith(r, <<"mask", "now", "stamp", "note">>)
  <2> DEFINE s == <<"mask", "now", "stamp", "note">>
             v == s \o Tail(w)
  <2>1. Head(w) = "judge" /\ UNCHANGED <<now, mask>>
    BY <1>6 DEF Judge, At, w
  <2>2. s \in Seq(Steps) /\ Chained(s)
    BY DEF Steps, Chained
  <2>3. v \in Seq(Steps) /\ Chained(v)
    BY <1>1, <2>1, <2>2, PutChained
  <2>4. Head(v) = "mask"
    BY <1>2
  <2>5. work' = [work EXCEPT ![r] = v]
    BY <1>6 DEF ProceedWith, w, MaskInv
  <2> HIDE DEF v, s
  <2>6. ReadyNext(v)
    BY <2>4 DEF ReadyNext
  <2>7. QED
    BY <1>3, <2>1, <2>3, <2>5, <2>6, RunnerGoesOn DEF Gone, mask
<1>7. CASE Return(r) /\ UNCHANGED <<now, mask>>
  <2>1. <<>> \in Seq(Steps) /\ Chained(<<>>) /\ ReadyNext(<<>>) /\ work' = [work EXCEPT ![r] = <<>>]
    BY <1>7 DEF Return, Chained, ReadyNext
  <2>2. QED
    BY <1>3, <1>7, <2>1, RunnerGoesOn DEF Gone, mask
<1>8. CASE /\ Proceed(r) /\ UNCHANGED <<now, mask>>
           /\ Head(w) \notin {"withdraw", "unmask", "mask", "now"}
  <2>1. work' = [work EXCEPT ![r] = Tail(w)]
    BY <1>8 DEF Proceed, w, MaskInv
  <2>2. ReadyNext(Tail(w))
    BY <1>2, <1>8 DEF ReadyNext
  <2>3. QED
    BY <1>2, <1>3, <1>8, <2>1, <2>2, RunnerGoesOn DEF Gone, mask
<1>9. CASE Unmask(r) \/ Withdraw(r) \/ Forget(r)
  <2>1. Gone' /\ now' = now /\ instant' = instant /\ armed' \in Nat \cup {Never}
    BY <1>1, <1>3, <1>9 DEF Unmask, Withdraw, Forget, At, Ready, Gone, w
  <2>2. work' = [work EXCEPT ![r] = Tail(w)] /\ Head(w) \in {"unmask", "withdraw", "forget"}
    BY <1>9 DEF Unmask, Withdraw, Forget, At, Proceed, w, MaskInv
  <2>3. ReadyNext(Tail(w))
    BY <1>2, <2>1, <2>2 DEF ReadyNext, Gone
  <2>4. QED
    BY <1>2, <1>3, <2>1, <2>2, <2>3, RunnerGoesOn
<1>10. CASE Mask(r) \/ Now(r) \/ Stamp(r)
  <2>1. /\ masked' /\ now' = now /\ instant' \in [Threads -> Nat] /\ armed' \in Nat \cup {Never}
        /\ Gone' \/ maskStart' = armed'
    <3>1. CASE Mask(r)
      BY <1>3, <3>1 DEF Mask, Gone
    <3>2. CASE Now(r)
      BY <1>1, <1>3, <3>2 DEF Now, At, Ready, Gone, w
    <3>3. CASE Stamp(r)
      BY <1>1, <1>3, <3>3 DEF Stamp, At, Ready, w
    <3>4. QED
      BY <1>10, <3>1, <3>2, <3>3
  <2>2. work' = [work EXCEPT ![r] = Tail(w)] /\ Head(w) \in {"mask", "now", "stamp"}
    BY <1>10 DEF Mask, Now, Stamp, At, Proceed, w, MaskInv
  <2>3. ReadyNext(Tail(w))
    BY <1>2, <2>1, <2>2 DEF ReadyNext
  <2>4. QED
    BY <1>2, <2>1, <2>2, <2>3, RunnerGoesOn
<1>11. ASSUME NEW step \in {"lock_stats", "lock_history", "lock_anomaly"}, NEW m, Lock(r, step, m)
       PROVE  MaskInv(r)'
  BY <1>8, <1>11 DEF Lock, At, w
<1>12. CASE Swap(r)
  BY <1>7, <1>8, <1>12 DEF Swap, At, w
<1>13. CASE Judge(r)
  BY <1>6, <1>8, <1>13 DEF Judge, At, w
<1>14. CASE Note(r) \/ Unlock(r) \/ ClearStats(r) \/ ClearHistory(r) \/ ClearAnomaly(r) \/ Zero(r)
  BY <1>8, <1>14 DEF Note, Unlock, ClearStats, ClearHistory, ClearAnomaly, Zero, At, w
<1>15. QED
  BY <1>5, <1>9, <1>10, <1>11, <1>12, <1>13, <1>14 DEF Run

\* A call begins.
LEMMA CallKeepsMask ==
  ASSUME NEW r \in Threads, MaskInv(r),
         \A t \in Threads \ {r} : Calls[t] \subseteq {"stats", "reset_stats"},
         NEW t \in Threads, NEW op \in Operations, Call(t, op)
  PROVE  MaskInv(r)'
<1>1. UNCHANGED <<now, mask>>
  BY DEF Call
<1>2. CASE UNCHANGED work
  BY <1>1, <1>2 DEF MaskInv, Chained, Ready, Gone, mask
<1>3. CASE work' = [work EXCEPT ![t] = Program(op)]
  <2>1. /\ Program(op) \in Seq(Steps) /\ Chained(Program(op))
        /\ Head(Program(op)) \notin {"unmask", "forget", "now", "stamp"}
    BY ProgramOrdered, ProgramChained
  <2>2. CASE t = r
    <3>1. ReadyNext(Program(op))
      BY <2>1 DEF ReadyNext
    <3>2. QED
      BY <1>1, <1>3, <2>1, <2>2, <3>1, RunnerGoesOn DEF MaskInv, Gone, mask
  <2>3. CASE t # r
    <3>1. \A i \in 1 .. Len(Program(op)) : Program(op)[i] \in MonitorSteps
      BY <2>3, ProgramChained DEF Call
    <3>2. work' \in [Threads -> Seq(Steps)] /\ work'[r] = work[r] /\ work'[t] = Program(op)
      BY <1>3, <2>1, <2>3 DEF MaskInv
    <3>3. \A u \in Threads \ {r} : \A i \in 1 .. Len(work'[u]) : work'[u][i] \in MonitorSteps
      BY <1>3, <3>1, <3>2 DEF MaskInv
    <3>4. Chained(work[r])' /\ Ready(work[r])' /\ (Gone' \/ (masked' /\ maskStart' = armed'))
      BY <1>1, <3>2 DEF MaskInv, Chained, Ready, Gone, mask
    <3>5. QED
      BY <1>1, <3>2, <3>3, <3>4 DEF MaskInv, mask
  <2>4. QED
    BY <2>2, <2>3
<1>4. QED
  BY <1>2, <1>3 DEF Call

\* For its whole duration a mask refuses orders (kill_switch.rs activate_mask, validate_order),
\* when one thread only makes the calls that set or lift it, whatever the others read or clear.
THEOREM MaskIsHeld ==
  ASSUME NEW r \in Threads, \A t \in Threads \ {r} : Calls[t] \subseteq {"stats", "reset_stats"}
  PROVE  Spec => []MaskHolds
<1>1. Init => MaskInv(r)
  BY DEF Init, MaskInv, Gone, Chained, Ready
<1>2. ASSUME MaskInv(r), [Next]_vars
      PROVE  MaskInv(r)'
  <2>1. ASSUME NEW t \in Threads, Run(t) PROVE MaskInv(r)'
    BY <1>2, <2>1, RunnerKeeps, MonitorKeeps
  <2>2. ASSUME NEW t \in Threads, NEW op \in Operations, Call(t, op) PROVE MaskInv(r)'
    BY <1>2, <2>2, CallKeepsMask
  <2>3. CASE Elapse
    <3>1. MaskDuration \in Nat
      BY KillSwitchAssumption DEF KillSwitchAssumption
    <3>2. Gone => Gone'
      BY <1>2, <2>3, <3>1 DEF MaskInv, Elapse, Gone, mask, Never
    <3>3. Ready(work[r])' /\ Chained(work[r])'
      BY <1>2, <2>3, <3>2 DEF MaskInv, Elapse, Ready, Chained, mask
    <3>4. QED
      BY <1>2, <2>3, <3>2, <3>3 DEF MaskInv, Elapse, mask
  <2>4. CASE UNCHANGED vars
    BY <1>2, <2>4 DEF MaskInv, Chained, Ready, Gone, vars, mask
  <2>5. QED
    BY <1>2, <2>1, <2>2, <2>3, <2>4 DEF Next, Quiet
<1>3. MaskInv(r) => MaskHolds
  <2>1. MaskDuration \in Nat
    BY KillSwitchAssumption DEF KillSwitchAssumption
  <2>2. QED
    BY <2>1 DEF MaskInv, MaskHolds, Gone, Never
<1>4. QED
  BY <1>1, <1>2, <1>3, PTL DEF Spec

-----------------------------------------------------------------------------
(* The choice of an LP: its operators *)

\* The average stays between none and all.
LEMMA RateType ==
  ASSUME NEW rate \in Rates
  PROVE  Risen(rate) \in Rates /\ Fallen(rate) \in Rates
<1>1. Scale \in Nat /\ Weight \in Nat \ {0} /\ rate \in Nat /\ rate <= Scale
  BY LpAssumption DEF Rates
<1>2. rate \div Weight \in 0 .. rate
  BY <1>1
<1>3. (Scale - rate + Weight - 1) \div Weight \in 0 .. Scale - rate
  BY <1>1
<1> QED BY <1>1, <1>2, <1>3 DEF Rates, Risen, Fallen

\* The LPs switch_lp tries are LPs other than the active one.
LEMMA NthOther ==
  ASSUME active \in LPs, NEW i \in 1 .. N - 1
  PROVE  Nth(i) \in LPs /\ Nth(i) # active
BY LpAssumption DEF Nth, LPs

\* Recording one execution keeps the states of the LPs, and convicts and acquits nobody.
LEMMA RecordedType ==
  ASSUME lp \in [LPs -> State], NEW p \in LPs, NEW filled \in BOOLEAN
  PROVE  /\ Recorded(p, filled) \in [LPs -> State]
         /\ \A q \in LPs : Recorded(p, filled)[q].adversarial = lp[q].adversarial
<1>1. lp[p] \in State
  OBVIOUS
<1>2. Risen(lp[p].fillRate) \in Rates /\ Fallen(lp[p].fillRate) \in Rates
  BY <1>1, RateType DEF State
<1>3. Filled(lp[p]) \in State /\ Filled(lp[p]).adversarial = lp[p].adversarial
  BY <1>1, <1>2, LpAssumption DEF Filled, State, Counted
<1>4. Rejected(lp[p]) \in State /\ Rejected(lp[p]).adversarial = lp[p].adversarial
  BY <1>1, <1>2, LpAssumption DEF Rejected, State, Counted
<1> QED BY <1>3, <1>4 DEF Recorded

\* The nearest candidate is one of them.
LEMMA NearestOther ==
  ASSUME active \in LPs, NEW book, Candidates(book) # {}
  PROVE  LET next == Nth(Nearest(Candidates(book)))
         IN  next \in LPs /\ next # active /\ ~book[next].adversarial
<1> DEFINE S == Candidates(book)
<1>1. S \subseteq 1 .. N - 1
  BY DEF Candidates
<1>2. \E i \in S : \A j \in S : i <= j
  <2>1. S \subseteq Nat /\ S # {}
    BY <1>1, LpAssumption
  <2>2. PICK i \in S : \A j \in S : <<j, i>> \notin OpToRel(<, Nat)
    BY <2>1, NatLessThanWellFounded, WFMin
  <2>3. \A j \in S : ~(j < i)
    <3>1. \A x, y \in Nat : x < y => <<x, y>> \in OpToRel(<, Nat)
      BY Zenon DEF OpToRel
    <3> QED BY <2>1, <2>2, <3>1
  <2> QED BY <2>1, <2>3
<1>3. Nearest(S) \in S
  BY <1>2 DEF Nearest
<1> QED BY <1>1, <1>3, NthOther DEF Candidates
-----------------------------------------------------------------------------
(* Types of the choice of an LP *)

\* Judging the active LP keeps the states of the LPs and touches nobody else.
LEMMA JudgedType ==
  ASSUME active \in LPs, NEW book \in [LPs -> State]
  PROVE  LET judged == [book EXCEPT ![active] = Judged(@)]
         IN  /\ judged \in [LPs -> State]
             /\ \A q \in LPs : q # active => judged[q] = book[q]
<1>1. book[active] \in State
  OBVIOUS
<1>2. /\ (book[active].fillRate < AdversarialRate \/ book[active].rejections >= MaxRejections) \in BOOLEAN
      /\ (book[active].fillRate < RecoveryRate) \in BOOLEAN
  OBVIOUS
<1>3. Judged(book[active]) \in State
  BY <1>1, <1>2 DEF Judged, State
<1> QED BY <1>3

\* A judgement, and the switch it may lead to, keep the types, whoever asked for it.
LEMMA SwitchType ==
  ASSUME LpTypeOK, NEW book \in [LPs -> State], SwitchFrom(book)
  PROVE  LpTypeOK'
<1> DEFINE judged == [book EXCEPT ![active] = Judged(@)]
<1> DEFINE next   == Nth(Nearest(Candidates(judged)))
<1>1. active \in LPs /\ recal \in Recalibration /\ reports \in 0 .. MinRecalibration
  BY DEF LpTypeOK
<1>2. lp' = judged /\ judged \in [LPs -> State]
  BY <1>1, JudgedType DEF SwitchFrom
<1>3. CASE UNCHANGED <<active, recal, reports>>
  BY <1>1, <1>2, <1>3 DEF LpTypeOK
<1>4. CASE /\ Candidates(judged) # {} /\ active' = next
           /\ recal' = EnterSafeMode(next) /\ reports' = 0
  <2>1. next \in LPs
    BY <1>1, <1>4, NearestOther
  <2>2. EnterSafeMode(next) \in Recalibration
    BY <2>1, LpAssumption DEF EnterSafeMode, Idle, Recalibration
  <2> QED BY <1>2, <1>4, <2>1, <2>2, LpAssumption DEF LpTypeOK
<1> QED BY <1>3, <1>4 DEF SwitchFrom

LEMMA TypeInit == LpInit => LpTypeOK
<1> SUFFICES ASSUME LpInit PROVE LpTypeOK
  OBVIOUS
<1>1. 0 \in LPs
  BY LpAssumption DEF LPs
<1>2. Unknown \in State
  BY LpAssumption DEF Unknown, State, Rates
<1>3. Idle \in Recalibration
  BY LpAssumption DEF Idle, Recalibration
<1> QED BY <1>1, <1>2, <1>3, LpAssumption DEF LpInit, LpTypeOK

LEMMA TypeStep == LpTypeOK /\ [LpNext]_lpVars => LpTypeOK'
<1> SUFFICES ASSUME LpTypeOK, [LpNext]_lpVars PROVE LpTypeOK'
  OBVIOUS
<1>0. active \in LPs /\ lp \in [LPs -> State] /\ recal \in Recalibration
  BY DEF LpTypeOK
<1>1. ASSUME NEW filled \in BOOLEAN, SimulateExecution(filled) PROVE LpTypeOK'
  BY <1>0, <1>1, RecordedType, SwitchType DEF SimulateExecution
<1>2. ASSUME NEW p \in LPs, NEW filled \in BOOLEAN, Process(p, filled) PROVE LpTypeOK'
  BY <1>0, <1>2, RecordedType DEF Process, LpTypeOK
<1>3. ASSUME NEW p \in LPs, NEW filled \in BOOLEAN, ProcessWithTimestamp(p, filled)
      PROVE  LpTypeOK'
  <2>1. Observed(p, filled) \in Recalibration
    <3>1. Counted(recal.observations, MinRecalibration) \in 0 .. MinRecalibration
      BY <1>0, LpAssumption DEF Recalibration, Counted
    <3>2. [recal EXCEPT !.observations = Counted(@, MinRecalibration)] \in Recalibration
      BY <1>0, <3>1 DEF Recalibration
    <3>3. (IF filled THEN TRUE ELSE recal.filled) \in BOOLEAN
      BY <1>0 DEF Recalibration
    <3> QED BY <1>0, <3>2, <3>3 DEF Observed, Recalibration
  <2>2. reports' \in 0 .. MinRecalibration
    BY <1>3, LpAssumption DEF ProcessWithTimestamp, Counted, LpTypeOK
  <2> QED BY <1>0, <1>3, <2>1, <2>2, RecordedType DEF ProcessWithTimestamp, LpTypeOK
<1>4. CASE CheckLpSwitch
  BY <1>0, <1>4, SwitchType DEF CheckLpSwitch
<1>5. ASSUME NEW fits \in BOOLEAN, CheckRecalibration(fits) PROVE LpTypeOK'
  BY <1>5, LpAssumption DEF CheckRecalibration, LpTypeOK, Idle, Recalibration
<1>6. CASE Pass
  BY <1>6, LpAssumption DEF Pass, LpTypeOK, Recalibration
<1>7. CASE UNCHANGED lpVars
  BY <1>7 DEF lpVars, LpTypeOK
<1> QED BY <1>1, <1>2, <1>3, <1>4, <1>5, <1>6, <1>7 DEF LpNext

\* Every counter of monitor and manager, every rate and the index of the active LP stay in
\* range through any sequence of calls of the gateway.
THEOREM LpTypeCorrect == LpSpec => []LpTypeOK
BY TypeInit, TypeStep, PTL DEF LpSpec
-----------------------------------------------------------------------------
(* Monitor and manager agree *)

\* The LPs switch_lp tries are all but the active one.
LEMMA NthAll ==
  ASSUME active \in LPs, NEW p \in LPs, p # active
  PROVE  \E i \in 1 .. N - 1 : Nth(i) = p
<1>1. CASE p > active
  <2>1. p - active \in 1 .. N - 1 /\ Nth(p - active) = p
    BY <1>1, LpAssumption DEF Nth, LPs
  <2> QED BY <2>1
<1>2. CASE p < active
  <2>1. p - active + N \in 1 .. N - 1 /\ Nth(p - active + N) = p
    BY <1>2, LpAssumption DEF Nth, LPs
  <2> QED BY <2>1
<1> QED BY <1>1, <1>2, LpAssumption DEF LPs

\* Every observation that counts was reported of the active LP since the last switch.
ObservationsReported == recal.status = "SafeMode" => recal.observations <= reports

Agreement ==
  LpTypeOK /\ SafeModeIsOfActive /\ AdversarialOnlyAsLastResort /\ ObservationsReported

\* What a judgement does when the executions recorded before it have convicted nobody: the
\* manager's target follows a switch, those left before stay left, and an adversarial LP is
\* kept only when there is no other.
LEMMA SwitchAgrees ==
  ASSUME Agreement, NEW book \in [LPs -> State],
         \A q \in LPs : book[q].adversarial = lp[q].adversarial, SwitchFrom(book)
  PROVE  /\ SafeModeIsOfActive' /\ AdversarialOnlyAsLastResort' /\ ObservationsReported'
         /\ \A p \in LPs : (lp[p].adversarial /\ p # active)
                             => (lp'[p].adversarial /\ p # active')
         /\ recal.status = "SafeMode" => recal'.status = "SafeMode"
<1> DEFINE judged == [book EXCEPT ![active] = Judged(@)]
<1> DEFINE next   == Nth(Nearest(Candidates(judged)))
<1>1. active \in LPs
  BY DEF Agreement, LpTypeOK
<1>2. /\ lp' = judged /\ judged \in [LPs -> State]
      /\ \A q \in LPs : q # active => judged[q].adversarial = lp[q].adversarial
  BY <1>1, JudgedType DEF SwitchFrom
<1>3. CASE /\ Candidates(judged) # {} /\ active' = next
           /\ recal' = EnterSafeMode(next) /\ reports' = 0
  <2>1. next \in LPs /\ next # active /\ ~judged[next].adversarial
    BY <1>1, <1>3, NearestOther
  <2>2. recal'.status = "SafeMode" /\ recal'.target = next /\ recal'.observations = 0
    BY <1>3 DEF EnterSafeMode
  <2>3. SafeModeIsOfActive' /\ ObservationsReported'
    <3>1. 0 <= 0
      OBVIOUS
    <3> QED BY <1>3, <2>2, <3>1 DEF SafeModeIsOfActive, ObservationsReported
  <2>4. AdversarialOnlyAsLastResort'
    BY <1>2, <1>3, <2>1 DEF AdversarialOnlyAsLastResort
  <2>5. ASSUME NEW p \in LPs, lp[p].adversarial, p # active
        PROVE  lp'[p].adversarial /\ p # active'
    <3>1. judged[p].adversarial
      BY <1>2, <2>5
    <3> QED BY <1>2, <1>3, <2>1, <3>1
  <2> QED BY <2>2, <2>3, <2>4, <2>5
<1>4. CASE /\ UNCHANGED <<active, recal, reports>>
           /\ ~(judged[active].adversarial /\ ~book[active].adversarial)
               \/ Candidates(judged) = {}
  <2>1. AdversarialOnlyAsLastResort'
    <3> SUFFICES ASSUME judged[active].adversarial, NEW p \in LPs, p # active
                 PROVE  judged[p].adversarial
      BY <1>2, <1>4 DEF AdversarialOnlyAsLastResort
    <3>1. CASE book[active].adversarial
      BY <1>1, <1>2, <3>1 DEF Agreement, AdversarialOnlyAsLastResort
    <3>2. CASE Candidates(judged) = {}
      <4>1. PICK i \in 1 .. N - 1 : Nth(i) = p
        BY <1>1, NthAll
      <4> QED BY <3>2, <4>1 DEF Candidates
    <3> QED BY <1>4, <3>1, <3>2
  <2> QED BY <1>2, <1>4, <2>1 DEF Agreement, SafeModeIsOfActive, ObservationsReported
<1> QED BY <1>3, <1>4 DEF SwitchFrom

\* The judgement of an LP that no execution was recorded of, and that of one that was.
LEMMA JudgementAgrees ==
  ASSUME Agreement,
         CheckLpSwitch \/ \E filled \in BOOLEAN : SimulateExecution(filled)
  PROVE  /\ SafeModeIsOfActive' /\ AdversarialOnlyAsLastResort' /\ ObservationsReported'
         /\ \A p \in LPs : (lp[p].adversarial /\ p # active)
                             => (lp'[p].adversarial /\ p # active')
         /\ recal.status = "SafeMode" => recal'.status = "SafeMode"
<1>1. lp \in [LPs -> State] /\ active \in LPs
  BY DEF Agreement, LpTypeOK
<1>2. CASE CheckLpSwitch
  BY <1>1, <1>2, SwitchAgrees DEF CheckLpSwitch
<1>3. ASSUME NEW filled \in BOOLEAN, SimulateExecution(filled)
      PROVE  \E book \in [LPs -> State] :
                SwitchFrom(book) /\ \A q \in LPs : book[q].adversarial = lp[q].adversarial
  BY <1>1, <1>3, RecordedType DEF SimulateExecution
<1>4. CASE \E filled \in BOOLEAN : SimulateExecution(filled)
  <2>1. PICK book \in [LPs -> State] :
              SwitchFrom(book) /\ \A q \in LPs : book[q].adversarial = lp[q].adversarial
    BY <1>3, <1>4
  <2> QED BY <2>1, SwitchAgrees
<1> QED BY <1>2, <1>4

\* Recording an execution convicts and acquits nobody.
LEMMA RecordingAgrees ==
  ASSUME Agreement, NEW p \in LPs, NEW filled \in BOOLEAN, lp' = Recorded(p, filled),
         active' = active
  PROVE  AdversarialOnlyAsLastResort' /\ \A q \in LPs : lp'[q].adversarial = lp[q].adversarial
BY RecordedType DEF Agreement, LpTypeOK, AdversarialOnlyAsLastResort

\* A report counts as an observation only if it is one of the active LP.
LEMMA ReportAgrees ==
  ASSUME Agreement, NEW p \in LPs, NEW filled \in BOOLEAN, ProcessWithTimestamp(p, filled)
  PROVE  SafeModeIsOfActive' /\ ObservationsReported' /\ recal'.status = recal.status
<1>1. recal \in Recalibration /\ reports \in 0 .. MinRecalibration
  BY DEF Agreement, LpTypeOK
<1>2. CASE recal.status = "SafeMode" /\ recal.target = p
  <2>1. /\ recal'.status = recal.status /\ recal'.target = recal.target
        /\ recal'.observations = Counted(recal.observations, MinRecalibration)
    BY <1>1, <1>2 DEF ProcessWithTimestamp, Observed, Recalibration
  <2>2. p = active /\ active' = active /\ reports' = Counted(reports, MinRecalibration)
    BY <1>2 DEF Agreement, SafeModeIsOfActive, ProcessWithTimestamp
  <2>3. Counted(recal.observations, MinRecalibration) <= Counted(reports, MinRecalibration)
    BY <1>1, <1>2, LpAssumption DEF Agreement, ObservationsReported, Counted, Recalibration
  <2> QED BY <1>2, <2>1, <2>2, <2>3 DEF SafeModeIsOfActive, ObservationsReported
<1>3. CASE ~(recal.status = "SafeMode" /\ recal.target = p)
  <2>1. recal' = recal /\ active' = active
    BY <1>3 DEF ProcessWithTimestamp, Observed
  <2>2. recal.status = "SafeMode" => reports' = reports
    BY <1>3 DEF ProcessWithTimestamp, Agreement, SafeModeIsOfActive
  <2> QED BY <2>1, <2>2 DEF Agreement, SafeModeIsOfActive, ObservationsReported
<1> QED BY <1>2, <1>3

LEMMA AgreementInit == LpInit => Agreement
<1> SUFFICES ASSUME LpInit PROVE Agreement
  OBVIOUS
<1>1. 0 \in LPs
  BY LpAssumption DEF LPs
<1> QED BY <1>1, TypeInit
    DEF LpInit, Agreement, SafeModeIsOfActive, AdversarialOnlyAsLastResort,
        ObservationsReported, Unknown, Idle

\* The agreement is inductive, and with it no step takes back a conviction of an LP that was
\* left, or ends safe mode without the reports it takes.
LEMMA AgreementStep ==
  Agreement /\ [LpNext]_lpVars =>
    /\ Agreement'
    /\ \A p \in LPs : (lp[p].adversarial /\ p # active) => (lp'[p].adversarial /\ p # active')
    /\ recal.status = "SafeMode" /\ recal'.status # "SafeMode" => reports >= MinRecalibration
<1> SUFFICES ASSUME Agreement, [LpNext]_lpVars
             PROVE  /\ Agreement'
                    /\ \A p \in LPs : (lp[p].adversarial /\ p # active)
                                        => (lp'[p].adversarial /\ p # active')
                    /\ recal.status = "SafeMode" /\ recal'.status # "SafeMode"
                          => reports >= MinRecalibration
  OBVIOUS
<1>1. LpTypeOK'
  BY TypeStep DEF Agreement
<1>2. recal \in Recalibration /\ reports \in 0 .. MinRecalibration
  BY DEF Agreement, LpTypeOK
<1>3. CASE CheckLpSwitch \/ \E filled \in BOOLEAN : SimulateExecution(filled)
  BY <1>1, <1>3, JudgementAgrees DEF Agreement
<1>4. ASSUME NEW p \in LPs, NEW filled \in BOOLEAN, Process(p, filled)
      PROVE  /\ Agreement' /\ UNCHANGED <<active, recal>>
             /\ \A q \in LPs : lp'[q].adversarial = lp[q].adversarial
  <2>1. AdversarialOnlyAsLastResort' /\ \A q \in LPs : lp'[q].adversarial = lp[q].adversarial
    BY <1>4, RecordingAgrees DEF Process
  <2>2. UNCHANGED <<active, recal, reports>>
    BY <1>4 DEF Process
  <2> QED BY <1>1, <2>1, <2>2 DEF Agreement, SafeModeIsOfActive, ObservationsReported
<1>5. ASSUME NEW p \in LPs, NEW filled \in BOOLEAN, ProcessWithTimestamp(p, filled)
      PROVE  /\ Agreement' /\ active' = active /\ recal'.status = recal.status
             /\ \A q \in LPs : lp'[q].adversarial = lp[q].adversarial
  <2>1. AdversarialOnlyAsLastResort' /\ \A q \in LPs : lp'[q].adversarial = lp[q].adversarial
    BY <1>5, RecordingAgrees DEF ProcessWithTimestamp
  <2>2. SafeModeIsOfActive' /\ ObservationsReported' /\ recal'.status = recal.status
    BY <1>5, ReportAgrees
  <2>3. active' = active
    BY <1>5 DEF ProcessWithTimestamp
  <2> QED BY <1>1, <2>1, <2>2, <2>3 DEF Agreement
<1>6. ASSUME NEW fits \in BOOLEAN, CheckRecalibration(fits)
      PROVE  Agreement' /\ UNCHANGED <<active, lp>> /\ reports >= MinRecalibration
  <2>1. reports >= MinRecalibration
    BY <1>2, <1>6, LpAssumption
       DEF Agreement, CheckRecalibration, Completes, ObservationsReported, Recalibration
  <2>2. UNCHANGED <<active, lp>> /\ recal'.status = "Idle"
    BY <1>6 DEF CheckRecalibration, Idle
  <2> QED BY <1>1, <2>1, <2>2
          DEF Agreement, SafeModeIsOfActive, ObservationsReported, AdversarialOnlyAsLastResort
<1>7. CASE Pass
  <2>1. /\ UNCHANGED <<active, lp, reports>> /\ recal'.status = recal.status
        /\ recal'.target = recal.target /\ recal'.observations = recal.observations
    BY <1>2, <1>7 DEF Pass, Recalibration
  <2> QED BY <1>1, <2>1
          DEF Agreement, SafeModeIsOfActive, ObservationsReported, AdversarialOnlyAsLastResort
<1>8. CASE UNCHANGED lpVars
  BY <1>1, <1>8
     DEF lpVars, Agreement, SafeModeIsOfActive, ObservationsReported, AdversarialOnlyAsLastResort
<1>9. CASE \E p \in LPs, filled \in BOOLEAN : Process(p, filled)
  BY <1>4, <1>9
<1>10. CASE \E p \in LPs, filled \in BOOLEAN : ProcessWithTimestamp(p, filled)
  BY <1>5, <1>10
<1>11. CASE \E fits \in BOOLEAN : CheckRecalibration(fits)
  BY <1>6, <1>11
<1> QED BY <1>3, <1>7, <1>8, <1>9, <1>10, <1>11 DEF LpNext

\* In safe mode the manager's target is the LP orders go to, for any number of LPs and however
\* switches, reports and recalibrations alternate.
THEOREM TargetFollowsSwitch == LpSpec => []SafeModeIsOfActive
<1>1. Agreement => SafeModeIsOfActive
  BY DEF Agreement
<1> QED BY <1>1, AgreementInit, AgreementStep, PTL DEF LpSpec

\* Orders go to an adversarial LP only when every LP is adversarial.
THEOREM LastResort == LpSpec => []AdversarialOnlyAsLastResort
<1>1. Agreement => AdversarialOnlyAsLastResort
  BY DEF Agreement
<1> QED BY <1>1, AgreementInit, AgreementStep, PTL DEF LpSpec

\* An LP that was left as adversarial never comes back: there are at most as many switches as
\* LPs to switch to.
THEOREM NeverReturns == LpSpec => LeftForGood
<1>1. Agreement /\ [LpNext]_lpVars =>
        [\A p \in LPs : (lp[p].adversarial /\ p # active) => (lp'[p].adversarial /\ p # active')]_lpVars
  BY AgreementStep
<1> QED BY <1>1, AgreementInit, AgreementStep, PTL DEF LpSpec, LeftForGood

\* Safe mode ends only after enough reports of the LP in use, made since it came into use.
THEOREM SafeModeIsEarned == LpSpec => CompletionEarned
<1>1. Agreement /\ [LpNext]_lpVars =>
        [recal.status = "SafeMode" /\ recal'.status # "SafeMode" => reports >= MinRecalibration]_lpVars
  BY AgreementStep
<1> QED BY <1>1, AgreementInit, AgreementStep, PTL DEF LpSpec, CompletionEarned
=============================================================================
