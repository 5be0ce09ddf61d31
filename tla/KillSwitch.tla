------------------------------ MODULE KillSwitch ------------------------------
(***************************************************************************)
(* KillSwitch (risk/kill_switch.rs): an order mask shared by threads.  The *)
(* mask is an atomic flag and, behind a mutex, the instant it was set; the *)
(* statistics that set it are behind two more mutexes.  A call is a program*)
(* of steps, each of which one thread takes at once: an atomic operation,  *)
(* the acquisition of a mutex, or what is done while a mutex is held.  The *)
(* mutex of mask_start is held for one assignment or read only, so that    *)
(* these are steps of their own and the mutex needs no owner.              *)
(*                                                                         *)
(* The switch is enabled (a disabled one neither records nor refuses).     *)
(* Whether an interval is anomalous, and whether a tick is older than the  *)
(* last one, are inputs; totals kept for diagnostics are left out.         *)
(***************************************************************************)
EXTENDS Integers, Sequences

CONSTANTS Threads,
          Calls,          \* the calls each thread makes: [Threads -> SUBSET Operations]
          MaskDuration, MinSamples, MaxHistory,   \* KillSwitchConfig
          MaxTime, MaxCalls                       \* bounds: the clock, calls of a thread

Operations == {"validate_order", "record_tick", "trigger", "reset", "reset_stats", "stats"}

\* With max_history = 0 the first eviction would pop from an empty history.
ASSUME KillSwitchAssumption ==
  /\ Calls \in [Threads -> SUBSET Operations]
  /\ MaskDuration \in Nat /\ MinSamples \in Nat /\ MaxHistory \in Nat \ {0}
  /\ MaxTime \in Nat /\ MaxCalls \in Nat

VARIABLES
  now,           \* Instant::now()
  masked,        \* masked
  maskStart,     \* mask_start
  seen,          \* last_tick_ns is not 0
  count,         \* stats.count
  recorded,      \* history.len()
  lastAnomaly,   \* last_anomaly is Some
  owner,         \* which thread holds each of the other mutexes
  work,          \* the steps each thread has still to take in its call
  instant,       \* the value of Instant::now() it is about to store
  made,          \* calls it has made
  armed          \* history: start of the last mask no reset has withdrawn

mask    == <<masked, maskStart, instant, armed>>
samples == <<seen, count, recorded, lastAnomaly>>
vars    == <<now, mask, samples, owner, work, made>>

-----------------------------------------------------------------------------
Never == -1
Nobody == "nobody"
Mutexes == {"stats", "history", "last_anomaly"}

Steps == {"swap", "lock_stats", "lock_history", "lock_anomaly", "judge", "note", "unlock",
          "mask", "now", "stamp", "expiry", "unmask", "forget", "withdraw",
          "clear_stats", "clear_history", "clear_anomaly", "zero"}

\* Fault: a reset clears the history before the statistics.
ClearsReversed == <<"clear_history", "clear_stats">>

Clears == <<"clear_stats", "clear_history">>

\* Fault: stats takes its two mutexes in the opposite order.
StatsLocksReversed == <<"lock_anomaly", "lock_stats">>

StatsLocks == <<"lock_stats", "lock_anomaly">>

\* The calls, as sequences of steps.  expiry and judge may put more steps first.
Program(op) ==
  CASE op = "validate_order" -> <<"expiry">>
    [] op = "record_tick"    -> <<"swap", "lock_stats", "lock_history", "judge", "unlock">>
    [] op = "trigger"        -> <<"mask", "now", "stamp">>
    [] op = "reset"          -> <<"withdraw", "forget">> \o Clears \o <<"clear_anomaly", "zero">>
    [] op = "reset_stats"    -> Clears \o <<"zero">>
    [] op = "stats"          -> StatsLocks \o <<"unlock">>

Busy(t) == work[t] # <<>>
At(t, step) == Busy(t) /\ Head(work[t]) = step
Proceed(t) == work' = [work EXCEPT ![t] = Tail(@)]
ProceedWith(t, steps) == work' = [work EXCEPT ![t] = steps \o Tail(@)]
Return(t) == work' = [work EXCEPT ![t] = <<>>]

Free(m) == owner[m] = Nobody
Acquire(t, m) == Free(m) /\ owner' = [owner EXCEPT ![m] = t]

-----------------------------------------------------------------------------
\* A call of validate_order that finds the flag down allows the order and ends.
Call(t, op) ==
  /\ ~Busy(t) /\ made[t] < MaxCalls /\ op \in Calls[t]
  /\ made' = [made EXCEPT ![t] = @ + 1]
  /\ IF op = "validate_order" /\ ~masked THEN UNCHANGED work
     ELSE work' = [work EXCEPT ![t] = Program(op)]
  /\ UNCHANGED <<now, mask, samples, owner>>

(* validate_order *)

\* Expired, or no instant stored: the mask is removed and the order allowed.
\* Otherwise the order is refused.
Expiry(t) ==
  /\ At(t, "expiry")
  /\ IF maskStart = Never \/ now - maskStart >= MaskDuration
     THEN ProceedWith(t, <<"unmask", "forget">>)
     ELSE Return(t)
  /\ UNCHANGED <<now, mask, samples, owner, made>>

(* deactivate_mask, in validate_order and in reset *)

Unmask(t) ==
  /\ At(t, "unmask")
  /\ masked' = FALSE
  /\ Proceed(t)
  /\ UNCHANGED <<now, maskStart, instant, armed, samples, owner, made>>

Withdraw(t) ==
  /\ At(t, "withdraw")
  /\ masked' = FALSE /\ armed' = Never
  /\ Proceed(t)
  /\ UNCHANGED <<now, maskStart, instant, samples, owner, made>>

Forget(t) ==
  /\ At(t, "forget")
  /\ maskStart' = Never
  /\ Proceed(t)
  /\ UNCHANGED <<now, masked, instant, armed, samples, owner, made>>

(* activate_mask, in trigger and in record_tick: the flag, then Instant::now(),  *)
(* which is evaluated before the mutex of mask_start is taken                    *)

Mask(t) ==
  /\ At(t, "mask")
  /\ masked' = TRUE
  /\ Proceed(t)
  /\ UNCHANGED <<now, maskStart, instant, armed, samples, owner, made>>

Now(t) ==
  /\ At(t, "now")
  /\ instant' = [instant EXCEPT ![t] = now]
  /\ Proceed(t)
  /\ UNCHANGED <<now, masked, maskStart, armed, samples, owner, made>>

\* Fault: a mask that is already in force keeps its start.
StampOnce(t) ==
  /\ At(t, "stamp")
  /\ maskStart' = IF maskStart = Never THEN instant[t] ELSE maskStart
  /\ armed' = instant[t]
  /\ Proceed(t)
  /\ UNCHANGED <<now, masked, instant, samples, owner, made>>

Stamp(t) ==
  /\ At(t, "stamp")
  /\ maskStart' = instant[t]
  /\ armed' = instant[t]
  /\ Proceed(t)
  /\ UNCHANGED <<now, masked, instant, samples, owner, made>>

-----------------------------------------------------------------------------
(* record_tick *)

\* The first tick, and one no newer than the last, end the call here.
Swap(t) ==
  /\ At(t, "swap")
  /\ seen' = TRUE
  /\ Return(t) \/ (seen /\ Proceed(t))
  /\ UNCHANGED <<now, mask, count, recorded, lastAnomaly, owner, made>>

Lock(t, step, mutex) ==
  /\ At(t, step)
  /\ Acquire(t, mutex)
  /\ Proceed(t)
  /\ UNCHANGED <<now, mask, samples, made>>

\* The end of the call drops its guards.
Unlock(t) ==
  /\ At(t, "unlock")
  /\ owner' = [m \in Mutexes |-> IF owner[m] = t THEN Nobody ELSE owner[m]]
  /\ Proceed(t)
  /\ UNCHANGED <<now, mask, samples, made>>

\* The oldest intervals leave the history until there is room for one more, and
\* the statistics as long as they count more than one.
Evicted == IF recorded >= MaxHistory THEN recorded - MaxHistory + 1 ELSE 0
Kept == IF count - Evicted >= 1 THEN count - Evicted ELSE IF count = 0 THEN 0 ELSE 1

\* After min_samples intervals one may be an anomaly, which sets the mask while
\* both mutexes are held.
Judge(t) ==
  /\ At(t, "judge")
  /\ recorded' = recorded - Evicted + 1
  /\ count' = Kept + 1
  /\ \/ Proceed(t)
     \/ Kept >= MinSamples /\ ProceedWith(t, <<"mask", "now", "stamp", "note">>)
  /\ UNCHANGED <<now, mask, seen, lastAnomaly, owner, made>>

Note(t) ==
  /\ At(t, "note") /\ Free("last_anomaly")
  /\ lastAnomaly' = TRUE
  /\ Proceed(t)
  /\ UNCHANGED <<now, mask, seen, count, recorded, owner, made>>

-----------------------------------------------------------------------------
(* reset and reset_stats: one mutex after the other *)

ClearStats(t) ==
  /\ At(t, "clear_stats") /\ Free("stats")
  /\ count' = 0
  /\ Proceed(t)
  /\ UNCHANGED <<now, mask, seen, recorded, lastAnomaly, owner, made>>

ClearHistory(t) ==
  /\ At(t, "clear_history") /\ Free("history")
  /\ recorded' = 0
  /\ Proceed(t)
  /\ UNCHANGED <<now, mask, seen, count, lastAnomaly, owner, made>>

ClearAnomaly(t) ==
  /\ At(t, "clear_anomaly") /\ Free("last_anomaly")
  /\ lastAnomaly' = FALSE
  /\ Proceed(t)
  /\ UNCHANGED <<now, mask, seen, count, recorded, owner, made>>

Zero(t) ==
  /\ At(t, "zero")
  /\ seen' = FALSE
  /\ Proceed(t)
  /\ UNCHANGED <<now, mask, count, recorded, lastAnomaly, owner, made>>

-----------------------------------------------------------------------------
Init ==
  /\ now = 0
  /\ masked = FALSE /\ maskStart = Never /\ armed = Never
  /\ seen = FALSE /\ count = 0 /\ recorded = 0 /\ lastAnomaly = FALSE
  /\ owner = [m \in Mutexes |-> Nobody]
  /\ work = [t \in Threads |-> <<>>]
  /\ instant = [t \in Threads |-> 0]
  /\ made = [t \in Threads |-> 0]

\* What thread t does inside a call, of the switch or of a KillSwitchHandle, whose methods
\* repeat those of the switch on the same shared state
Run(t) ==
  \/ Expiry(t) \/ Unmask(t) \/ Withdraw(t) \/ Forget(t)
  \/ Mask(t) \/ Now(t) \/ Stamp(t)
  \/ Swap(t) \/ Judge(t) \/ Note(t) \/ Unlock(t)
  \/ Lock(t, "lock_stats", "stats") \/ Lock(t, "lock_history", "history")
  \/ Lock(t, "lock_anomaly", "last_anomaly")
  \/ ClearStats(t) \/ ClearHistory(t) \/ ClearAnomaly(t) \/ Zero(t)

Elapse ==
  /\ now < MaxTime
  /\ now' = now + 1
  /\ UNCHANGED <<mask, samples, owner, work, made>>

\* Every thread has made its calls.
Quiet == /\ \A t \in Threads : ~Busy(t) /\ made[t] = MaxCalls
         /\ now = MaxTime
         /\ UNCHANGED vars

Next ==
  \/ \E t \in Threads : Run(t) \/ (\E op \in Operations : Call(t, op))
  \/ Elapse
  \/ Quiet

Spec == Init /\ [][Next]_vars

\* A thread that can take a step inside a call is scheduled some time.
FairSpec == Spec /\ \A t \in Threads : WF_vars(Run(t))

-----------------------------------------------------------------------------
(* Correctness *)

TypeOK ==
  /\ now \in 0 .. MaxTime
  /\ masked \in BOOLEAN /\ maskStart \in Nat \cup {Never} /\ armed \in Nat \cup {Never}
  /\ seen \in BOOLEAN /\ lastAnomaly \in BOOLEAN
  /\ count \in Nat /\ recorded \in 0 .. MaxHistory
  /\ owner \in [Mutexes -> Threads \cup {Nobody}]
  /\ work \in [Threads -> Seq(Steps)]
  /\ instant \in [Threads -> 0 .. MaxTime]
  /\ made \in [Threads -> 0 .. MaxCalls]

\* "Masks all outgoing orders for a configurable duration", says the comment on
\* the struct: from the moment the mask is stamped, validate_order's fast path
\* finds the flag up for the whole duration.  It holds when the thread that
\* validates orders is the one that records ticks.  It does not when another one
\* may trigger the switch: a call of validate_order that has found the last mask
\* expired takes the new one down.
MaskHolds ==
  armed # Never /\ now - armed < MaskDuration => masked

\* The statistics count at least the intervals of the history, except between the
\* two steps of a reset: otherwise an eviction would take an interval out of
\* statistics it never entered.  (They may count more: a tick recorded between
\* those two steps stays in the statistics.)
Resetting(t) == \E i \in 1 .. Len(work[t]) : work[t][i] = "clear_history"
HalfReset(t) == Resetting(t) /\ ~\E i \in 1 .. Len(work[t]) : work[t][i] = "clear_stats"
HistoryCounted ==
  (\A t \in Threads : ~HalfReset(t)) => recorded <= count

\* Every call returns: no two calls wait for each other's mutexes.
CallsReturn == \A t \in Threads : Busy(t) ~> ~Busy(t)
=============================================================================
