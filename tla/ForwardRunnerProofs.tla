------------------------- MODULE ForwardRunnerProofs -------------------------
(***************************************************************************)
(* Theorems about ForwardRunner, for every value of its constants: its own *)
(* invariants, and that it keeps the promises of a TradingSession.         *)
(***************************************************************************)
EXTENDS ForwardRunner, RiskRulesProofs, TLAPS

-----------------------------------------------------------------------------
(* The inductive invariant *)

\* The phases of a tick that the gates have let through
Open == {"breach", "maxHold", "decide", "execute"}

\* The copy is the book itself until the first decision is executed.
CopyFresh == pc = "decide" => seen.pos = pos

\* What is still to be executed has been decided.
TodoDecided == pc = "execute" => todo \subseteq DOMAIN decision

\* No halt is on while a tick is worked on, and the positions are closed by
\* force because a hard limit is broken.
Unhalted == pc \in Open => halt = NoHalt
Breached == pc = "breach" => HardBreach(limits)

Inv ==
  /\ TypeOK
  /\ EpisodeMatchesPosition
  /\ OwnPositionFresh /\ CopyFresh /\ TodoDecided
  /\ Unhalted /\ Breached

-----------------------------------------------------------------------------
(* The steps that change the book *)

\* The limits follow the book.
LEMMA SyncType ==
  ASSUME RiskType, now' \in Nat, totalRealized' \in Int, totalUnrealized' \in Int,
         SyncLimitState
  PROVE  tracker' \in [Periods -> Period] /\ limits' \in LimitState
BY RollType, LimitsType DEF RiskType, SyncLimitState

\* Close orders make the positions flat whose orders are filled, and end exactly
\* their episodes.
LEMMA CloseStep ==
  ASSUME TypeOK, now' = now, NEW S \in SUBSET OpenPositions, Close(S)
  PROVE  /\ BookType'
         /\ tracker' \in [Periods -> Period] /\ limits' \in LimitState
         /\ \E F \in SUBSET S :
              /\ OpenPositions' = OpenPositions \ F /\ mc' = mc \ F
              /\ \A s \in Strategies \ F : pos'[s] = pos[s]
              /\ \A s \in F : pos'[s].size = 0
<1>1. PICK F \in Filled(S) : \E slip \in [F -> Slippages] :
        /\ pos' = [s \in Strategies |->
                    IF s \in F
                    THEN UpdatePositionFromFill(pos[s], -pos[s].size, mid + slip[s], now)
                    ELSE pos[s]]
        /\ Recomputed
        /\ SyncLimitState
        /\ mc' = mc \ F
  BY DEF Close
<1>2. PICK slip \in [F -> Slippages] :
        pos' = [s \in Strategies |->
                  IF s \in F
                  THEN UpdatePositionFromFill(pos[s], -pos[s].size, mid + slip[s], now)
                  ELSE pos[s]]
  BY <1>1
<1>3. F \in SUBSET S /\ F \subseteq Strategies
  BY <1>1 DEF Filled, OpenPositions
<1>4. now \in Nat /\ mid \in Int /\ pos \in [Strategies -> Position]
  BY DEF TypeOK, ClockType, BookType
<1>5. ASSUME NEW s \in F
      PROVE  pos'[s] \in Position /\ pos'[s].size = 0
  <2>1. pos[s] \in Position /\ pos[s].size \in Int
    BY <1>3, <1>4 DEF Position
  <2>2. mid + slip[s] \in Int
    <3>1. slip[s] \in Slippages /\ Slippages \subseteq Int
      BY <1>5, RunnerAssumption
    <3>2. slip[s] \in Int
      BY <3>1
    <3> QED BY <1>4, <3>2
  <2>3. -pos[s].size \in Int /\ pos[s].size + (-pos[s].size) = 0
    BY <2>1
  <2> DEFINE price == mid + slip[s]
             size  == -pos[s].size
  <2>4. pos'[s] = UpdatePositionFromFill(pos[s], size, price, now)
    BY <1>2, <1>3
  <2>5. price \in Int /\ size \in Int /\ pos[s].size + size = 0
    BY <2>2, <2>3
  <2> HIDE DEF price, size
  <2> QED BY <1>4, <2>1, <2>4, <2>5, FillType, FullCloseIsFlat
<1>6. \A s \in Strategies \ F : pos'[s] = pos[s]
  BY <1>2
<1>7. pos' \in [Strategies -> Position]
  <2>1. \A s \in Strategies : pos'[s] \in Position
    BY <1>4, <1>5, <1>6
  <2>2. pos' = [s \in Strategies |-> pos'[s]]
    BY <1>2
  <2> QED BY <2>1, <2>2
<1>8. BookType'
  BY <1>1, <1>7, NetType DEF Recomputed, TypeOK, BookType
<1>9. tracker' \in [Periods -> Period] /\ limits' \in LimitState
  BY <1>1, <1>4, <1>8, SyncType DEF TypeOK, BookType
<1>10. OpenPositions' = OpenPositions \ F
  BY <1>5, <1>6 DEF OpenPositions, IsOpen
<1> QED BY <1>1, <1>3, <1>5, <1>6, <1>8, <1>9, <1>10

\* A tick marks the positions, and opens or closes none.
LEMMA ArriveStep ==
  ASSUME Inv, Arrive
  PROVE  /\ ClockType' /\ BookType' /\ AgentType' /\ JudgedType'
         /\ tracker' \in [Periods -> Period] /\ limits' \in LimitState
         /\ gapHalted' \in BOOLEAN
         /\ now' > now /\ todo' = todo /\ mc' = mc /\ OpenPositions' = OpenPositions
         /\ \A s \in Strategies : pos'[s].size = pos[s].size
<1>1. now \in Nat /\ now' \in Nat /\ now' > now /\ mid' \in Int
  <2>1. now \in Nat /\ mid' \in Int
    BY RunnerAssumption DEF Inv, TypeOK, ClockType, Arrive
  <2>2. CASE now = 0
    BY <2>1, <2>2, RunnerAssumption DEF Arrive
  <2>3. CASE now # 0
    <3>1. PICK d \in Steps : now' = now + d
      BY <2>3 DEF Arrive
    <3> QED BY <2>1, <3>1, RunnerAssumption
  <2> QED BY <2>1, <2>2, <2>3
<1>2. ClockType'
  BY <1>1, RunnerAssumption DEF Inv, TypeOK, ClockType, Arrive
<1>3. /\ pos' \in [Strategies -> Position]
      /\ \A s \in Strategies : pos'[s].size = pos[s].size
  BY <1>1, MarkToMarketType DEF Inv, TypeOK, BookType, Arrive
<1>4. BookType'
  BY <1>3, NetType DEF Inv, TypeOK, BookType, Arrive
<1>5. tracker' \in [Periods -> Period] /\ limits' \in LimitState
  BY <1>1, <1>4, SyncType DEF Inv, TypeOK, BookType, Arrive
<1>6. OpenPositions' = OpenPositions
  BY <1>3 DEF OpenPositions, IsOpen
<1>7. gapHalted' \in BOOLEAN
  BY DEF Inv, TypeOK, GatesType, Arrive
<1>8. AgentType' /\ JudgedType' /\ todo' = todo /\ mc' = mc
  BY DEF Inv, TypeOK, AgentType, JudgedType, Arrive, culling, judged
<1> QED BY <1>1, <1>2, <1>3, <1>4, <1>5, <1>6, <1>7, <1>8

-----------------------------------------------------------------------------
(* Every step keeps the invariant *)

LEMMA InitInv == Init => Inv
<1> SUFFICES ASSUME Init PROVE Inv
  OBVIOUS
<1>1. FlatBook \in [Strategies -> Position] /\ Newborn \in Life
  BY DEF FlatBook, NoPosition, Position, Newborn, Life
<1>2. ClockType /\ BookType
  BY <1>1, RunnerAssumption DEF Init, ClockType, BookType
<1>3. RiskType
  BY DEF Init, RiskType, FreshTracker, Period, NoKey, NoLosses, LimitState, NoHalt, Halt
<1>4. GatesType /\ AgentType /\ todo \subseteq Strategies
  BY <1>1 DEF Init, GatesType, AgentType
<1>5. JudgedType
  <2>1. decision = [s \in {} |-> [side |-> 0, point |-> 0]]
    BY DEF Init, NoDecisions
  <2>2. DOMAIN decision \subseteq Strategies /\ decision \in [DOMAIN decision -> Decision]
    BY <2>1
  <2>3. seen \in [pos : [Strategies -> Position], net : Int]
    BY <1>1 DEF Init, NoCopy
  <2> QED BY <2>2, <2>3 DEF JudgedType
<1>6. EpisodeMatchesPosition
  BY DEF Init, EpisodeMatchesPosition, OpenPositions, FlatBook, NoPosition, IsOpen
<1> QED BY <1>2, <1>3, <1>4, <1>5, <1>6
     DEF Init, Inv, TypeOK, Phases, Open, OwnPositionFresh, CopyFresh, TodoDecided, Unhalted,
         Breached

\* A tick that is skipped leaves the runner ready; one that is not lifts the halt.
LEMMA TickInv ==
  ASSUME Inv, Arrive, masked' \in BOOLEAN,
         \/ pc' = pc /\ halt' \in {halt, NoHalt}
         \/ pc' = "breach" /\ halt' = NoHalt /\ HardBreach(limits')
         \/ pc' = "maxHold" /\ halt' = NoHalt
  PROVE  Inv'
<1>1. /\ ClockType' /\ BookType' /\ AgentType' /\ JudgedType'
      /\ tracker' \in [Periods -> Period] /\ limits' \in LimitState
      /\ gapHalted' \in BOOLEAN
      /\ todo' = todo /\ mc' = mc /\ OpenPositions' = OpenPositions
  BY ArriveStep
<1>2. halt' \in Halt
  BY DEF Inv, TypeOK, RiskType, NoHalt, NoKey, Halt
<1>3. RiskType' /\ GatesType'
  BY <1>1, <1>2 DEF RiskType, GatesType
<1>4. pc' \in {"ready", "breach", "maxHold"}
  BY DEF Arrive
<1>5. TypeOK'
  BY <1>1, <1>3, <1>4 DEF Inv, TypeOK, Phases
<1>6. EpisodeMatchesPosition'
  BY <1>1 DEF Inv, EpisodeMatchesPosition
<1>7. OwnPositionFresh' /\ CopyFresh' /\ TodoDecided'
  BY <1>4 DEF OwnPositionFresh, CopyFresh, TodoDecided
<1>8. Unhalted' /\ Breached'
  BY DEF Arrive, Unhalted, Breached, Open
<1> QED BY <1>5, <1>6, <1>7, <1>8 DEF Inv

LEMMA TicksInv ==
  Inv /\ (HaltedTick \/ SkippedTick \/ BreachTick \/ UnknownRegimeTick \/ TradingTick) => Inv'
<1> SUFFICES ASSUME Inv,
                    HaltedTick \/ SkippedTick \/ BreachTick \/ UnknownRegimeTick \/ TradingTick
             PROVE  Inv'
  OBVIOUS
<1>1. \A m \in MaskSeen \cup {FALSE} : m \in BOOLEAN
  BY RunnerAssumption DEF Inv, TypeOK, GatesType, MaskSeen
<1>2. CASE HaltedTick
  <2>1. Arrive /\ masked' \in BOOLEAN /\ pc' = pc /\ halt' = halt
    BY <1>1, <1>2 DEF HaltedTick
  <2> QED BY <2>1, TickInv
<1>3. CASE SkippedTick
  <2>1. Arrive /\ masked' \in BOOLEAN /\ pc' = pc /\ halt' = NoHalt
    BY <1>1, <1>3 DEF SkippedTick
  <2> QED BY <2>1, TickInv
<1>4. CASE BreachTick
  <2>1. Arrive /\ masked' \in BOOLEAN /\ pc' = "breach" /\ halt' = NoHalt /\ HardBreach(limits')
    BY <1>4 DEF BreachTick, OpenTick
  <2> QED BY <2>1, TickInv
<1>5. CASE UnknownRegimeTick
  <2>1. Arrive /\ masked' \in BOOLEAN /\ pc' = pc /\ halt' = NoHalt
    BY <1>5 DEF UnknownRegimeTick, OpenTick
  <2> QED BY <2>1, TickInv
<1>6. CASE TradingTick
  <2>1. Arrive /\ masked' \in BOOLEAN /\ pc' = "maxHold" /\ halt' = NoHalt
    BY <1>6 DEF TradingTick, OpenTick
  <2> QED BY <2>1, TickInv
<1> QED BY <1>2, <1>3, <1>4, <1>5, <1>6

\* What is the same after each of the three closes that are not a decision's
LEMMA ClosedInv ==
  ASSUME Inv, now' = now, NEW S \in SUBSET OpenPositions, Close(S),
         UNCHANGED <<todo, tick, lost, mid, gates, culling, decision>>,
         seen' = seen \/ seen' = [pos |-> pos', net |-> globalPosition'],
         halt' \in Halt, pc' \in {"ready", "decide", "done"},
         pc' = "decide" => seen'.pos = pos' /\ halt' = NoHalt
  PROVE  Inv'
<1>1. /\ BookType'
      /\ tracker' \in [Periods -> Period] /\ limits' \in LimitState
      /\ \E F \in SUBSET S : OpenPositions' = OpenPositions \ F /\ mc' = mc \ F
  BY CloseStep DEF Inv
<1>2. ClockType' /\ GatesType' /\ RiskType'
  BY <1>1 DEF Inv, TypeOK, ClockType, GatesType, RiskType, gates
<1>3. AgentType'
  BY <1>1 DEF Inv, TypeOK, AgentType, culling
<1>4. JudgedType'
  <2>1. CASE seen' = seen
    BY <2>1 DEF Inv, TypeOK, JudgedType
  <2>2. CASE seen' = [pos |-> pos', net |-> globalPosition']
    BY <1>1, <2>2 DEF Inv, TypeOK, JudgedType, BookType
  <2> QED BY <2>1, <2>2
<1>5. TypeOK'
  BY <1>1, <1>2, <1>3, <1>4 DEF Inv, TypeOK, Phases
<1>6. EpisodeMatchesPosition'
  BY <1>1 DEF Inv, EpisodeMatchesPosition
<1> QED BY <1>5, <1>6
     DEF Inv, OwnPositionFresh, CopyFresh, TodoDecided, Unhalted, Breached, Open

LEMMA ForceCloseInv == Inv /\ ForceCloseOpenPositions => Inv'
<1> SUFFICES ASSUME Inv, ForceCloseOpenPositions PROVE Inv'
  OBVIOUS
<1>1. now \in Nat /\ limits \in LimitState /\ HardBreach(limits)
  BY DEF Inv, TypeOK, ClockType, RiskType, Breached, ForceCloseOpenPositions
<1>2. PICK p \in Periods : HaltFor(limits, now) = [period |-> p, key |-> PeriodKey(p, now)]
  BY <1>1, BreachHalts
<1>3. halt' \in Halt
  BY <1>1, <1>2, PeriodKeyType DEF ForceCloseOpenPositions, Halt
<1> QED BY <1>3, ClosedInv DEF ForceCloseOpenPositions, judged

\* The copy is made after the closes.
LEMMA CloseMaxHoldInv == Inv /\ CloseMaxHold => Inv'
<1> SUFFICES ASSUME Inv, CloseMaxHold PROVE Inv'
  OBVIOUS
<1>1. Overdue \in SUBSET OpenPositions
  BY DEF Overdue
<1>2. halt' = NoHalt /\ halt' \in Halt
  BY DEF Inv, TypeOK, RiskType, Unhalted, Open, CloseMaxHold
<1> QED BY <1>1, <1>2, ClosedInv DEF CloseMaxHold

LEMMA ShutdownInv == Inv /\ Shutdown => Inv'
<1> SUFFICES ASSUME Inv, Shutdown PROVE Inv'
  OBVIOUS
<1>1. halt' \in Halt /\ seen' = seen /\ pc' = "done"
  BY DEF Inv, TypeOK, RiskType, Shutdown, judged
<1>2. CASE OpenPositions # {}
  BY <1>1, <1>2, ClosedInv DEF Shutdown, judged
<1>3. CASE OpenPositions = {}
  BY <1>1, <1>3 DEF Inv, TypeOK, ClockType, BookType, RiskType, GatesType, AgentType, JudgedType,
       Phases, EpisodeMatchesPosition, OpenPositions, OwnPositionFresh, CopyFresh, TodoDecided,
       Unhalted, Breached, Open, Shutdown, book, risk, gates, culling, judged
<1> QED BY <1>2, <1>3

LEMMA DecideInv == Inv /\ Decide => Inv'
<1> SUFFICES ASSUME Inv, Decide PROVE Inv'
  OBVIOUS
<1>1. /\ decision' \in [{s \in Enabled : life[s].alive} -> Decisions]
      /\ todo' = DOMAIN decision' /\ pc = "decide" /\ pc' = "execute"
  BY DEF Decide
<1>2. Decisions \subseteq Decision
  BY RunnerAssumption DEF Decisions, Decision
<1>3. DOMAIN decision' \subseteq Strategies /\ decision' \in [DOMAIN decision' -> Decision]
  BY <1>1, <1>2, RunnerAssumption
<1>4. ClockType' /\ BookType' /\ RiskType' /\ GatesType' /\ AgentType' /\ JudgedType'
  BY <1>3 DEF Inv, TypeOK, ClockType, BookType, RiskType, GatesType, AgentType, JudgedType,
       Decide, clock, book, risk, gates, culling
<1>5. TypeOK'
  BY <1>1, <1>3, <1>4 DEF TypeOK, Phases
<1>6. EpisodeMatchesPosition'
  BY DEF Inv, EpisodeMatchesPosition, OpenPositions, Decide, book
<1>7. OwnPositionFresh' /\ CopyFresh' /\ TodoDecided'
  BY <1>1 DEF Inv, OwnPositionFresh, CopyFresh, TodoDecided, Decide, book
<1>8. Unhalted' /\ Breached'
  BY <1>1 DEF Inv, Unhalted, Breached, Open, Decide
<1> QED BY <1>5, <1>6, <1>7, <1>8 DEF Inv

-----------------------------------------------------------------------------
(* The execution of the decisions *)

\* An executed decision leaves the positions of the other strategies as they are,
\* so that the copy stays fresh for those whose turn is still to come.
LEMMA ExecutedInv ==
  ASSUME Inv, NEW s \in Enabled, Executing(s), Done(s), BookType',
         tracker' \in [Periods -> Period], limits' \in LimitState,
         mc' = OpenPositions',
         \A x \in Strategies \ {s} : pos'[x] = pos[x],
         life' \in [Strategies -> Life], earned' \subseteq Strategies
  PROVE  Inv'
<1>1. /\ pc = "execute" /\ pc' = "execute" /\ s \in Strategies
      /\ todo' = todo \ {s} /\ todo' \subseteq Strategies
      /\ seen' = seen /\ decision' = decision
  BY RunnerAssumption DEF Inv, TypeOK, Executing, Done, judged
<1>2. ClockType' /\ GatesType' /\ JudgedType'
  BY DEF Inv, TypeOK, ClockType, GatesType, JudgedType, Done, clock, gates, judged
<1>3. RiskType'
  BY DEF Inv, TypeOK, RiskType, Done
<1>4. AgentType'
  BY DEF AgentType, OpenPositions
<1>5. TypeOK'
  BY <1>1, <1>2, <1>3, <1>4 DEF TypeOK, Phases
<1>6. EpisodeMatchesPosition'
  BY DEF EpisodeMatchesPosition
<1>7. OwnPositionFresh'
  BY <1>1 DEF Inv, TypeOK, OwnPositionFresh
<1>8. CopyFresh' /\ TodoDecided' /\ Unhalted' /\ Breached'
  BY <1>1 DEF Inv, CopyFresh, TodoDecided, Unhalted, Breached, Open, Done
<1> QED BY <1>5, <1>6, <1>7, <1>8 DEF Inv

LEMMA TriggerExitInv ==
  ASSUME Inv, NEW s \in Enabled, TriggerExit(s)
  PROVE  Inv'
<1>1. /\ Executing(s) /\ Done(s) /\ now' = now
      /\ life' \in [Strategies -> Life] /\ earned' \subseteq Strategies
  BY DEF Inv, TypeOK, AgentType, TriggerExit, Done, clock, culling
<1> DEFINE S == {s} \cap OpenPositions
<1>2. S \in SUBSET OpenPositions /\ Close(S)
  BY DEF TriggerExit
<1> HIDE DEF S
<1>3. /\ BookType'
      /\ tracker' \in [Periods -> Period] /\ limits' \in LimitState
      /\ \E F \in SUBSET S :
           /\ OpenPositions' = OpenPositions \ F /\ mc' = mc \ F
           /\ \A x \in Strategies \ F : pos'[x] = pos[x]
  BY <1>1, <1>2, CloseStep DEF Inv
<1>4. mc' = OpenPositions' /\ \A x \in Strategies \ {s} : pos'[x] = pos[x]
  BY <1>3 DEF Inv, EpisodeMatchesPosition, S
<1> QED BY <1>1, <1>3, <1>4, ExecutedInv

\* What is reported to the LifecycleManager leaves its counters counters.
LEMMA ReportType ==
  ASSUME AgentType, NEW s \in Strategies, NEW pnl, ReportEpisode(s, pnl)
  PROVE  life' \in [Strategies -> Life] /\ earned' \subseteq Strategies
<1>1. PICK bad \in BOOLEAN, breach \in BOOLEAN :
        life' = [life EXCEPT ![s] = RecordEpisode(@, bad, breach)]
  BY DEF ReportEpisode
<1>2. RecordEpisode(life[s], bad, breach) \in Life
  BY RecordEpisodeType DEF AgentType
<1>3. life' \in [Strategies -> Life]
  BY <1>1, <1>2 DEF AgentType
<1>4. earned' \subseteq Strategies
  BY DEF AgentType, ReportEpisode
<1> QED BY <1>3, <1>4

\* A strategy that decided nothing, or whose order is refused or rejected, keeps
\* the book as it is.
LEMMA NoFillInv ==
  ASSUME Inv, NEW s \in Enabled, Nothing(s) \/ EntryRejected(s)
  PROVE  Inv'
<1>1. Executing(s) /\ Done(s) /\ UNCHANGED <<book, risk, mc>>
  BY DEF Nothing, EntryRejected
<1>2. life' \in [Strategies -> Life] /\ earned' \subseteq Strategies
  <2>1. AgentType /\ s \in Strategies
    BY RunnerAssumption DEF Inv, TypeOK
  <2>2. CASE Nothing(s)
    BY <2>1, <2>2 DEF AgentType, Nothing, culling
  <2>3. CASE EntryRejected(s)
    BY <2>1, <2>3, ReportType DEF EntryRejected
  <2> QED BY <2>2, <2>3
<1>3. BookType' /\ tracker' \in [Periods -> Period] /\ limits' \in LimitState
  BY <1>1 DEF Inv, TypeOK, BookType, RiskType, book, risk
<1>4. mc' = OpenPositions' /\ pos' = pos
  BY <1>1 DEF Inv, EpisodeMatchesPosition, OpenPositions, book
<1> QED BY <1>1, <1>2, <1>3, <1>4, ExecutedInv

\* An entry is judged by the copy, and the copy is right about the one who enters:
\* it opens a position from flat.
LEMMA EnterStep ==
  ASSUME Inv, NEW s \in Enabled, Enter(s)
  PROVE  /\ BookType'
         /\ tracker' \in [Periods -> Period] /\ limits' \in LimitState
         /\ ~IsOpen(pos[s])
         /\ OpenPositions' = OpenPositions \cup {s} /\ mc' = mc \cup {s}
         /\ \A x \in Strategies \ {s} : pos'[x] = pos[x]
<1>1. /\ s \in Strategies /\ s \in todo /\ pc = "execute"
      /\ now \in Nat /\ now' = now /\ mid \in Int
      /\ pos \in [Strategies -> Position]
  BY RunnerAssumption DEF Inv, TypeOK, ClockType, BookType, Enter, Executing, Done, clock
<1>2. ~IsOpen(pos[s]) /\ pos[s] \in Position /\ pos[s].size = 0
  BY <1>1 DEF Inv, OwnPositionFresh, Enter, Attempt, IsOpen
<1>3. decision[s] \in Decision
  BY <1>1 DEF Inv, TypeOK, JudgedType, TodoDecided
<1> DEFINE divisor == LotDivisor(seen.net, Rank(s))
           lots    == Lots(s)
           size    == Side(s) * lots
<1>4. lots \in Int /\ lots > 0
  <2>1. divisor \in Nat \ {0}
    BY DEF LotDivisor, RankDivisor
  <2>2. lots = LotSize \div divisor
    BY DEF Lots
  <2>3. lots > 0
    BY DEF Enter, Attempt
  <2> HIDE DEF divisor, lots
  <2> QED BY <2>1, <2>2, <2>3, SizesAssumption
<1>5. Side(s) \in {-1, 1}
  BY <1>3 DEF Side, Decision, Enter, Attempt
<1>6. size \in Int /\ size # 0
  <2> HIDE DEF lots
  <2> QED BY <1>4, <1>5
<1> HIDE DEF size, lots
<1>7. PICK slip \in Slippages :
        pos' = [pos EXCEPT ![s] = UpdatePositionFromFill(@, size, mid + slip, now)]
  BY DEF Enter, size, lots
<1> DEFINE price == mid + slip
<1>8. price \in Int
  BY <1>1, RunnerAssumption
<1> HIDE DEF price
<1>9. /\ pos'[s] = UpdatePositionFromFill(pos[s], size, price, now)
      /\ \A x \in Strategies \ {s} : pos'[x] = pos[x]
  BY <1>1, <1>7 DEF price
<1>10. pos'[s] \in Position /\ pos'[s].size # 0
  BY <1>1, <1>2, <1>6, <1>8, <1>9, FillType, FillOpens
<1>11. pos' \in [Strategies -> Position]
  BY <1>1, <1>7, <1>9, <1>10
<1>12. BookType'
  BY <1>11, NetType DEF Inv, TypeOK, BookType, Recomputed, Enter
<1>13. tracker' \in [Periods -> Period] /\ limits' \in LimitState
  BY <1>1, <1>12, SyncType DEF Inv, TypeOK, BookType, Enter
<1>14. OpenPositions' = OpenPositions \cup {s}
  BY <1>1, <1>9, <1>10 DEF OpenPositions, IsOpen
<1> QED BY <1>2, <1>9, <1>12, <1>13, <1>14 DEF Enter

LEMMA EnterInv ==
  ASSUME Inv, NEW s \in Enabled, Enter(s)
  PROVE  Inv'
<1>1. Executing(s) /\ Done(s)
  BY DEF Enter
<1>2. life' \in [Strategies -> Life] /\ earned' \subseteq Strategies
  BY ReportType, RunnerAssumption DEF Inv, TypeOK, Enter
<1>3. /\ BookType' /\ tracker' \in [Periods -> Period] /\ limits' \in LimitState
      /\ \A x \in Strategies \ {s} : pos'[x] = pos[x]
      /\ OpenPositions' = OpenPositions \cup {s} /\ mc' = mc \cup {s}
  BY EnterStep
<1>4. mc' = OpenPositions'
  BY <1>3 DEF Inv, EpisodeMatchesPosition
<1> QED BY <1>1, <1>2, <1>3, <1>4, ExecutedInv

LEMMA TickDoneInv == Inv /\ TickDone => Inv'
<1> SUFFICES ASSUME Inv, TickDone PROVE Inv'
  OBVIOUS
<1>1. ClockType' /\ BookType' /\ RiskType' /\ GatesType' /\ AgentType'
  BY DEF Inv, TypeOK, ClockType, BookType, RiskType, GatesType, AgentType, TickDone,
         clock, book, risk, gates, culling
<1>2. JudgedType'
  <2>1. decision' = [s \in {} |-> [side |-> 0, point |-> 0]] /\ seen' = NoCopy
    BY DEF TickDone, NoDecisions
  <2>2. NoCopy \in [pos : [Strategies -> Position], net : Int]
    BY DEF NoCopy, FlatBook, NoPosition, Position
  <2>3. DOMAIN decision' = {}
    BY <2>1
  <2> QED BY <2>1, <2>2, <2>3 DEF JudgedType
<1>3. EpisodeMatchesPosition'
  BY DEF Inv, EpisodeMatchesPosition, OpenPositions, TickDone, book
<1> QED BY <1>1, <1>2, <1>3
     DEF Inv, TypeOK, Phases, OwnPositionFresh, CopyFresh, TodoDecided, Unhalted, Breached, Open,
         TickDone

\* The failure of the feed, and stuttering
LEMMA FeedFailsInv == Inv /\ FeedFails => Inv'
BY DEF Inv, TypeOK, ClockType, BookType, RiskType, GatesType, AgentType, JudgedType, Phases,
       EpisodeMatchesPosition, OpenPositions, OwnPositionFresh, CopyFresh, TodoDecided, Unhalted,
       Breached, Open, FeedFails, clock, book, risk, gates, culling, judged

LEMMA StutterInv == Inv /\ UNCHANGED vars => Inv'
BY DEF Inv, TypeOK, ClockType, BookType, RiskType, GatesType, AgentType, JudgedType,
       EpisodeMatchesPosition, OpenPositions, OwnPositionFresh, CopyFresh, TodoDecided, Unhalted,
       Breached, vars, clock, book, risk, gates, culling, judged

LEMMA NextInv == Inv /\ [Next]_vars => Inv'
<1> SUFFICES ASSUME Inv, [Next]_vars PROVE Inv'
  OBVIOUS
<1>1. CASE HaltedTick \/ SkippedTick \/ BreachTick \/ UnknownRegimeTick \/ TradingTick
  BY <1>1, TicksInv
<1>2. CASE ForceCloseOpenPositions
  BY <1>2, ForceCloseInv
<1>3. CASE CloseMaxHold
  BY <1>3, CloseMaxHoldInv
<1>4. CASE Decide
  BY <1>4, DecideInv
<1>5. ASSUME NEW s \in Enabled, TriggerExit(s) \/ Nothing(s) \/ Enter(s) \/ EntryRejected(s)
      PROVE  Inv'
  BY <1>5, TriggerExitInv, NoFillInv, EnterInv
<1>6. CASE TickDone
  BY <1>6, TickDoneInv
<1>7. CASE Shutdown
  BY <1>7, ShutdownInv
<1>8. CASE FeedFails
  BY <1>8, FeedFailsInv
<1>9. CASE Finished \/ UNCHANGED vars
  BY <1>9, StutterInv DEF Finished
<1> QED BY <1>1, <1>2, <1>3, <1>4, <1>5, <1>6, <1>7, <1>8, <1>9 DEF Next

LEMMA Invariance == Spec => []Inv
<1> QED BY InitInv, NextInv, PTL DEF Spec

-----------------------------------------------------------------------------
(* What each step does to the positions *)

Ticks == HaltedTick \/ SkippedTick \/ BreachTick \/ UnknownRegimeTick \/ TradingTick

LEMMA TicksArrive == Ticks => Arrive
BY DEF Ticks, HaltedTick, SkippedTick, BreachTick, UnknownRegimeTick, TradingTick, OpenTick

\* A step is a tick, it closes some of the positions, opens one, or leaves them alone.
LEMMA StepKinds ==
  ASSUME Inv, [Next]_vars
  PROVE  \/ Ticks
         \/ \E S \in SUBSET OpenPositions : Close(S) /\ now' = now /\ UNCHANGED halt
         \/ ForceCloseOpenPositions
         \/ \E s \in Enabled : Enter(s)
         \/ UNCHANGED <<now, halt, pos, mc>>
<1>1. CASE Ticks
  BY <1>1
<1>2. CASE ForceCloseOpenPositions
  BY <1>2
<1>3. CASE CloseMaxHold
  BY <1>3 DEF CloseMaxHold, Overdue
<1>4. CASE Decide \/ TickDone \/ FeedFails
  BY <1>4 DEF Decide, TickDone, FeedFails, clock, book
<1>5. ASSUME NEW s \in Enabled, TriggerExit(s)
      PROVE  \E S \in SUBSET OpenPositions : Close(S) /\ now' = now /\ UNCHANGED halt
  BY <1>5 DEF TriggerExit, Done, clock
<1>6. ASSUME NEW s \in Enabled, Nothing(s) \/ EntryRejected(s)
      PROVE  UNCHANGED <<now, halt, pos, mc>>
  BY <1>6 DEF Nothing, EntryRejected, Done, clock, book
<1>7. CASE Shutdown
  BY <1>7 DEF Shutdown, book
<1>8. CASE Finished \/ UNCHANGED vars
  BY <1>8 DEF Finished, vars, clock, book
<1> QED BY <1>1, <1>2, <1>3, <1>4, <1>5, <1>6, <1>7, <1>8 DEF Next, Ticks

\* A size changes from flat or to flat.
LEMMA FillStep ==
  ASSUME Inv, [Next]_vars, NEW s \in Strategies, pos'[s].size # pos[s].size
  PROVE  ~IsOpen(pos[s]) \/ ~IsOpen(pos[s])'
<1>1. CASE Ticks
  BY <1>1, TicksArrive, ArriveStep
<1>2. ASSUME NEW S \in SUBSET OpenPositions, Close(S), now' = now
      PROVE  ~IsOpen(pos[s])'
  <2>1. PICK F \in SUBSET S : /\ \A x \in Strategies \ F : pos'[x] = pos[x]
                              /\ \A x \in F : pos'[x].size = 0
    BY <1>2, CloseStep DEF Inv
  <2> QED BY <2>1 DEF IsOpen
<1>3. CASE ForceCloseOpenPositions
  BY <1>2, <1>3 DEF ForceCloseOpenPositions
<1>4. ASSUME NEW x \in Enabled, Enter(x)
      PROVE  ~IsOpen(pos[s])
  BY <1>4, EnterStep
<1> QED BY <1>1, <1>2, <1>3, <1>4, StepKinds

-----------------------------------------------------------------------------
(* The refinement of TradingSession *)

LEMMA SessionPeriods ==
  /\ Session!Periods = Periods /\ Session!NoHalt = NoHalt
  /\ Session!Strategies = Strategies
  /\ \A p, t : Session!PeriodKey(p, t) = PeriodKey(p, t)
  /\ \A h, t : Session!HaltActive(h, t) = HaltActive(h, t)
<1>1. Session!Periods = Periods /\ Session!NoHalt = NoHalt /\ Session!Strategies = Strategies
  BY DEF Session!Periods, Periods, Session!NoHalt, NoHalt, Session!NoKey, NoKey,
         Session!Strategies, Strategies
<1>2. \A p, t : Session!PeriodKey(p, t) = PeriodKey(p, t)
  BY Zenon DEF Session!PeriodKey, PeriodKey
<1> QED BY <1>1, <1>2, Zenon DEF Session!HaltActive, HaltActive

LEMMA SessionInit == Init => Session!Init
BY DEF Init, Session!Init, NoHalt, Session!NoHalt, NoKey, Session!NoKey, OpenPositions, IsOpen,
       FlatBook, NoPosition

\* A tick is a tick of the session: while the halt lasts it is kept, and a tick that
\* finds it over lifts it, the skipped one too.
LEMMA TickRefines == Inv /\ Ticks => Session!Tick
<1> SUFFICES ASSUME Inv, Ticks PROVE Session!Tick
  OBVIOUS
<1>1. Arrive
  BY TicksArrive
<1>2. now' \in Nat /\ now' > now /\ OpenPositions' = OpenPositions /\ mc' = mc
  BY <1>1, ArriveStep DEF ClockType
<1>3. halt' = IF HaltActive(halt, now') THEN halt ELSE NoHalt
  BY DEF Ticks, HaltedTick, SkippedTick, BreachTick, UnknownRegimeTick, TradingTick, OpenTick
<1>4. halt' = IF Session!HaltActive(halt, now') THEN halt ELSE Session!NoHalt
  BY <1>3, SessionPeriods
<1> QED BY <1>2, <1>4 DEF Session!Tick

\* A close is a leave of those whose orders were filled.
LEMMA CloseRefines ==
  ASSUME Inv, NEW S \in SUBSET OpenPositions, Close(S), now' = now, halt' = halt
  PROVE  \E F \in SUBSET Session!Strategies : Session!Leave(F)
<1>1. PICK F \in SUBSET S : OpenPositions' = OpenPositions \ F /\ mc' = mc \ F
  BY CloseStep DEF Inv
<1>2. F \in SUBSET Session!Strategies
  BY SessionPeriods DEF OpenPositions
<1> QED BY <1>1, <1>2 DEF Session!Leave

\* The closes of a broken limit stop the session for one of its periods.
LEMMA BreachRefines ==
  Inv /\ ForceCloseOpenPositions => \E F \in SUBSET Session!Strategies : Session!Stop(F)
<1> SUFFICES ASSUME Inv, ForceCloseOpenPositions
             PROVE  \E F \in SUBSET Session!Strategies : Session!Stop(F)
  OBVIOUS
<1>1. PICK F \in SUBSET OpenPositions : OpenPositions' = OpenPositions \ F /\ mc' = mc \ F
  BY CloseStep DEF Inv, ForceCloseOpenPositions
<1>2. F \in SUBSET Session!Strategies
  BY SessionPeriods DEF OpenPositions
<1>3. halt = Session!NoHalt
  BY SessionPeriods DEF Inv, Unhalted, Open, ForceCloseOpenPositions
<1>4. now \in Nat /\ limits \in LimitState /\ HardBreach(limits)
  BY DEF Inv, TypeOK, ClockType, RiskType, Breached, ForceCloseOpenPositions
<1>5. \E p \in Periods : halt' = [period |-> p, key |-> PeriodKey(p, now)]
  BY <1>4, BreachHalts DEF ForceCloseOpenPositions
<1>6. \E p \in Session!Periods : halt' = [period |-> p, key |-> Session!PeriodKey(p, now)]
  BY <1>5, SessionPeriods
<1>7. Session!Stop(F)
  BY <1>1, <1>3, <1>6 DEF Session!Stop, ForceCloseOpenPositions
<1> QED BY <1>2, <1>7

\* Nobody enters while a halt is on, and who enters holds nothing.
LEMMA EnterRefines ==
  ASSUME Inv, NEW s \in Enabled, Enter(s)
  PROVE  s \in Session!Strategies /\ Session!Enter(s)
<1>1. /\ ~IsOpen(pos[s])
      /\ OpenPositions' = OpenPositions \cup {s} /\ mc' = mc \cup {s}
  BY EnterStep
<1>2. halt = Session!NoHalt
  BY SessionPeriods DEF Inv, Unhalted, Open, Enter, Executing
<1>3. s \in Session!Strategies \ OpenPositions
  BY <1>1, SessionPeriods, RunnerAssumption DEF OpenPositions
<1>4. now' = now /\ halt' = halt
  BY DEF Enter, Done, clock
<1> QED BY <1>1, <1>2, <1>3, <1>4 DEF Session!Enter

LEMMA StepRefines == Inv /\ [Next]_vars => [Session!Next]_(Session!vars)
<1> SUFFICES ASSUME Inv, [Next]_vars PROVE [Session!Next]_(Session!vars)
  OBVIOUS
<1>1. CASE Ticks
  BY <1>1, TickRefines DEF Session!Next
<1>2. ASSUME NEW S \in SUBSET OpenPositions, Close(S), now' = now, halt' = halt
      PROVE  Session!Next
  BY <1>2, CloseRefines DEF Session!Next
<1>3. CASE ForceCloseOpenPositions
  BY <1>3, BreachRefines DEF Session!Next
<1>4. ASSUME NEW s \in Enabled, Enter(s)
      PROVE  Session!Next
  BY <1>4, EnterRefines DEF Session!Next
<1>5. CASE UNCHANGED <<now, halt, pos, mc>>
  BY <1>5 DEF Session!vars, OpenPositions
<1> QED BY <1>1, <1>2, <1>3, <1>4, <1>5, StepKinds

-----------------------------------------------------------------------------
(* The theorems *)

\* Every variable of the runner keeps its type, whatever is filled or rejected.
THEOREM RunnerTypeCorrect == Spec => []TypeOK
<1>1. Inv => TypeOK
  BY DEF Inv
<1> QED BY <1>1, Invariance, PTL

\* A strategy has an active Monte Carlo episode exactly when it has an open position.
THEOREM RunnerEpisodesMatch == Spec => []EpisodeMatchesPosition
<1>1. Inv => EpisodeMatchesPosition
  BY DEF Inv
<1> QED BY <1>1, Invariance, PTL

\* The copy of the book never misleads a strategy about its own position, however
\* many orders of the tick have been filled before its turn.
THEOREM OwnPositionStaysFresh == Spec => []OwnPositionFresh
<1>1. Inv => OwnPositionFresh
  BY DEF Inv
<1> QED BY <1>1, Invariance, PTL

\* Every fill opens a position from flat or closes one completely.
THEOREM RunnerFills == Spec => FillsOpenOrClose
<1>1. Inv /\ [Next]_vars =>
        [\A s \in Strategies :
           pos'[s].size # pos[s].size => ~IsOpen(pos[s]) \/ ~IsOpen(pos[s])']_vars
  BY FillStep
<1> QED BY <1>1, Invariance, PTL DEF Spec, FillsOpenOrClose

\* The forward runner implements TradingSession: it stops for the whole period of a
\* broken hard limit, nobody enters before that is over, and every strategy learns
\* from exactly the position it holds.
THEOREM RunnerKeepsSession == Spec => KeepsSession
<1> QED BY SessionInit, StepRefines, Invariance, PTL DEF Spec, KeepsSession, Session!Spec
=============================================================================
