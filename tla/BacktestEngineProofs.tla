------------------------- MODULE BacktestEngineProofs -------------------------
(***************************************************************************)
(* Theorems about BacktestEngine, for every value of its constants.        *)
(***************************************************************************)
EXTENDS BacktestEngine, RiskRulesProofs, TLAPS

-----------------------------------------------------------------------------
(* The steps the phases share *)

LEMMA UpdateLimitsType ==
  ASSUME RiskType, now' \in Nat, totalRealized' \in Int, totalUnrealized' \in Int,
         UpdateLimits
  PROVE  RiskType'
<1>1. tracker' \in [Periods -> Period]
  BY PeriodKeyType DEF RiskType, UpdateLimits, Roll, Period
<1>2. \A p \in Periods : tracker'[p].start \in Int
  BY <1>1 DEF Period
<1>3. limits' \in LimitState
  BY <1>2 DEF UpdateLimits, LimitsOf, LimitState, Periods
<1> QED BY <1>1, <1>3 DEF RiskType

\* A fill changes the position of one strategy.
LEMMA FillStep ==
  ASSUME BookType, now \in Nat, NEW s \in Strategies,
         NEW size \in Int, NEW price \in Int,
         ProcessExecutionResult(s, size, price)
  PROVE  /\ BookType'
         /\ pos'[s] = UpdatePositionFromFill(pos[s], size, price, now)
         /\ \A x \in Strategies \ {s} : pos'[x] = pos[x]
<1>1. pos[s] \in Position
  BY DEF BookType
<1>2. UpdatePositionFromFill(pos[s], size, price, now) \in Position
  BY <1>1, FillType
<1>3. /\ pos' \in [Strategies -> Position]
      /\ pos'[s] = UpdatePositionFromFill(pos[s], size, price, now)
      /\ \A x \in Strategies \ {s} : pos'[x] = pos[x]
  BY <1>2 DEF BookType, ProcessExecutionResult
<1>4. \A x \in Strategies : pos'[x].size \in Int /\ pos'[x].realized \in Int
  BY <1>3 DEF Position
<1>5. globalPosition' \in Int /\ totalRealized' \in Int
  BY <1>4 DEF ProcessExecutionResult, NetSize, NetRealized, Strategies
<1>6. totalUnrealized' \in Int
  BY DEF BookType, ProcessExecutionResult
<1> QED BY <1>3, <1>5, <1>6 DEF BookType

\* A close order that is filled makes one position flat.
LEMMA CloseStep ==
  ASSUME BookType, now \in Nat, mid \in Int, NEW s \in Strategies, CloseFill(s)
  PROVE  /\ BookType'
         /\ OpenPositions' = OpenPositions \ {s}
<1>1. PICK slip \in Slippages : ProcessExecutionResult(s, -pos[s].size, mid + slip)
  BY DEF CloseFill
<1>2. /\ pos[s] \in Position
      /\ -pos[s].size \in Int /\ pos[s].size + (-pos[s].size) = 0
      /\ mid + slip \in Int
  BY EngineAssumption DEF BookType, Position
<1>3. /\ BookType'
      /\ pos'[s] = UpdatePositionFromFill(pos[s], -pos[s].size, mid + slip, now)
      /\ \A x \in Strategies \ {s} : pos'[x] = pos[x]
  BY <1>1, <1>2, FillStep
<1>4. pos'[s].size = 0
  BY <1>2, <1>3, FullCloseIsFlat
<1> QED BY <1>3, <1>4 DEF OpenPositions, IsOpen

LEMMA EndEpisodeStep ==
  ASSUME AgentType, NEW s \in Strategies, NEW l, EndStrategyEpisode(s, l)
  PROVE  /\ AgentType'
         /\ mc' = mc \ {s}
         /\ \A x \in Strategies \ {s} : life'[x] = life[x]
<1>1. life' \in [Strategies -> Life] /\ \A x \in Strategies \ {s} : life'[x] = life[x]
  <2>1. CASE s \in mc /\ Learning
    <3>1. PICK bad \in BOOLEAN, breach \in BOOLEAN :
            life' = [life EXCEPT ![s] = RecordEpisode(@, bad, breach)]
      BY <2>1 DEF EndStrategyEpisode
    <3>2. RecordEpisode(life[s], bad, breach) \in Life
      BY RecordEpisodeType DEF AgentType
    <3> QED BY <3>1, <3>2 DEF AgentType
  <2>2. CASE ~(s \in mc /\ Learning)
    BY <2>2 DEF EndStrategyEpisode, AgentType
  <2> QED BY <2>1, <2>2
<1>2. mc' = mc \ {s} /\ episode' = [episode EXCEPT ![s] = Idle]
  BY DEF EndStrategyEpisode
<1> QED BY <1>1, <1>2 DEF AgentType, Idle

-----------------------------------------------------------------------------
(* The inductive invariant *)

\* At the end of the data an episode is still active only when its position is
\* still to be closed, and what did not decode came from a store.
EndClosesEpisodes == pc = "endOfData" /\ decoded => mc \subseteq todo
StreamsDecode == ~UndecodableTicks => decoded

\* EpisodeMatchesPosition and CulledIsFlat, without the phase
Matched == mc = OpenPositions
CulledFlat == \A s \in Strategies : ~life[s].alive => ~IsOpen(pos[s])

Inv ==
  /\ TypeOK
  /\ Replaying => Matched /\ CulledFlat
  /\ EndClosesEpisodes
  /\ StreamsDecode

\* What a filled close of s does, whichever phase it is in.
LEMMA CloseAndEnd ==
  ASSUME TypeOK, NEW s \in Strategies, CloseFill(s), NEW l, EndStrategyEpisode(s, l)
  PROVE  /\ BookType' /\ AgentType'
         /\ mc' = mc \ {s}
         /\ Matched => Matched'
         /\ CulledFlat => CulledFlat'
<1>1. BookType' /\ OpenPositions' = OpenPositions \ {s}
  BY CloseStep DEF TypeOK, ClockType
<1>2. /\ AgentType' /\ mc' = mc \ {s}
      /\ \A x \in Strategies \ {s} : life'[x] = life[x]
  BY EndEpisodeStep DEF TypeOK
<1>3. \A x \in Strategies : IsOpen(pos'[x]) <=> x # s /\ IsOpen(pos[x])
  BY <1>1 DEF OpenPositions
<1> QED BY <1>1, <1>2, <1>3 DEF Matched, CulledFlat

\* close_strategy_position, in Phase 1 or Phase 3
LEMMA CloseStrategyPositionStep ==
  ASSUME TypeOK, now' = now, NEW s \in Strategies, CloseStrategyPosition(s)
  PROVE  /\ BookType' /\ AgentType' /\ RiskType'
         /\ Matched => Matched'
         /\ CulledFlat => CulledFlat'
<1>1. CASE CloseFill(s) /\ EndStrategyEpisode(s, limits) /\ UpdateLimits
  <2>1. /\ BookType' /\ AgentType'
        /\ Matched => Matched'
        /\ CulledFlat => CulledFlat'
    BY <1>1, CloseAndEnd
  <2>2. RiskType'
    BY <1>1, <2>1, UpdateLimitsType DEF TypeOK, ClockType, BookType
  <2> QED BY <2>1, <2>2
<1>2. CASE UNCHANGED <<book, agent, risk>>
  BY <1>2 DEF TypeOK, BookType, AgentType, RiskType, book, agent, risk,
              Matched, CulledFlat, OpenPositions
<1> QED BY <1>1, <1>2 DEF CloseStrategyPosition

LEMMA InitInv == Init => Inv
<1> SUFFICES ASSUME Init PROVE Inv
  OBVIOUS
<1>1. NoPosition \in Position /\ Newborn \in Life /\ NoDecision \in Decision
  BY DEF NoPosition, Position, Newborn, Life, NoDecision, Decision
<1>2. TypeOK
  <2>1. ClockType
    <3>1. tick \in 0 .. MaxTicks /\ batch \in 1 .. MaxBatches
      BY EngineAssumption DEF Init
    <3>2. now \in Nat /\ prev \in Nat /\ mid \in Int
      BY DEF Init
    <3> QED BY <3>1, <3>2, Zenon DEF Init, ClockType
  <2>4. GatesType /\ pc \in Phases /\ todo \subseteq Strategies
    BY Zenon DEF Init, GatesType, Phases
  <2>2. BookType /\ AgentType /\ decision \in [Strategies -> Decision]
    BY <1>1 DEF Init, BookType, AgentType, FlatBook, NoDecisions, Idle
  <2>3. RiskType
    BY DEF Init, RiskType, FreshTracker, Period, NoKey, NoLosses, LimitState
  <2> QED BY <2>1, <2>2, <2>3, <2>4 DEF TypeOK
<1>3. Matched /\ CulledFlat
  BY DEF Init, Matched, CulledFlat, OpenPositions, FlatBook, NoPosition, IsOpen
<1> QED BY <1>2, <1>3 DEF Init, Inv, EndClosesEpisodes, StreamsDecode

\* A tick that decodes marks the positions and opens or closes none.
LEMMA MarketTickInv == Inv /\ MarketTick => Inv'
<1> SUFFICES ASSUME Inv, MarketTick PROVE Inv'
  OBVIOUS
<1>1. now' \in Nat /\ mid' \in Int
  BY EngineAssumption DEF Inv, TypeOK, ClockType, MarketTick, Arrive
<1>2. ClockType' /\ GatesType'
  BY <1>1, EngineAssumption
     DEF Inv, TypeOK, ClockType, GatesType, MarketTick, Arrive
<1>3. /\ pos' \in [Strategies -> Position]
      /\ \A s \in Strategies : pos'[s].size = pos[s].size
  BY <1>1, MarkToMarketType DEF Inv, TypeOK, BookType, MarketTick
<1>4. BookType'
  <2>1. \A s \in Strategies : pos'[s].unrealized \in Int
    BY <1>3 DEF Position
  <2>2. totalUnrealized' \in Int
    BY <2>1 DEF MarketTick, NetUnrealized, Strategies
  <2> QED BY <1>3, <2>2 DEF Inv, TypeOK, BookType, MarketTick
<1>5. RiskType'
  BY <1>1, <1>4, UpdateLimitsType DEF Inv, TypeOK, BookType, MarketTick
<1>6. pc' \in {"weekend", "maxHold"} /\ todo' \subseteq Strategies
  BY EngineAssumption DEF MarketTick
<1>7. decision' \in [Strategies -> Decision]
  BY DEF MarketTick, NoDecisions, NoDecision, Decision
<1>8. AgentType' /\ Matched' /\ CulledFlat'
  BY <1>3 DEF Inv, TypeOK, AgentType, Replaying, Matched, CulledFlat, OpenPositions,
              IsOpen, MarketTick, Arrive, agent
<1> QED BY <1>2, <1>4, <1>5, <1>6, <1>7, <1>8
     DEF Inv, TypeOK, Phases, EndClosesEpisodes, StreamsDecode, MarketTick

LEMMA UndecodableTickInv == Inv /\ UndecodableTick => Inv'
<1> SUFFICES ASSUME Inv, UndecodableTick PROVE Inv'
  OBVIOUS
<1>0. Arrive /\ decoded' = FALSE /\ mid' = mid
  BY Zenon DEF UndecodableTick
<1>1. now' \in Nat
  BY <1>0, EngineAssumption DEF Inv, TypeOK, ClockType, Arrive
<1>2. ClockType'
  <2>1. tick' \in 0 .. MaxTicks /\ batch' \in 1 .. MaxBatches /\ prev' \in Nat /\ mid' \in Int
    BY <1>0, EngineAssumption DEF Inv, TypeOK, ClockType, Arrive
  <2> QED BY <1>0, <1>1, <2>1, Zenon DEF ClockType
<1>10. GatesType'
  BY <1>0, EngineAssumption DEF Inv, TypeOK, GatesType, Arrive
<1>3. UNCHANGED <<pc, todo, pos, globalPosition, totalRealized, totalUnrealized,
                 tracker, limits, life, mc, episode, decision>>
  BY DEF UndecodableTick, book, risk, agent
<1>4. pc = "ready"
  BY DEF UndecodableTick, Arrive
<1>5. BookType' /\ RiskType' /\ AgentType' /\ decision' \in [Strategies -> Decision]
  BY <1>3 DEF Inv, TypeOK, BookType, RiskType, AgentType
<1>6. Matched' /\ CulledFlat'
  BY <1>3, <1>4 DEF Inv, Replaying, Matched, CulledFlat, OpenPositions
<1>7. pc' \in Phases /\ todo' \subseteq Strategies
  BY <1>3 DEF Inv, TypeOK
<1>8. EndClosesEpisodes'
  BY <1>3, <1>4 DEF EndClosesEpisodes
<1>9. StreamsDecode'
  BY Zenon DEF UndecodableTick, StreamsDecode
<1> QED BY <1>2, <1>5, <1>6, <1>7, <1>8, <1>9, <1>10, Zenon DEF Inv, TypeOK

LEMMA CloseAllPositionsInv == Inv /\ CloseAllPositions => Inv'
<1> SUFFICES ASSUME Inv, CloseAllPositions PROVE Inv'
  OBVIOUS
<1>1. PICK s \in todo :
        /\ todo' = todo \ {s}
        /\ \/ CloseFill(s) /\ EndStrategyEpisode(s, limits)
           \/ UNCHANGED <<book, agent>>
  BY DEF CloseAllPositions
<1>2. s \in Strategies
  BY DEF Inv, TypeOK
<1>3. BookType' /\ AgentType' /\ Matched' /\ CulledFlat'
  <2>1. CASE CloseFill(s) /\ EndStrategyEpisode(s, limits)
    BY <1>2, <2>1, CloseAndEnd DEF Inv, Replaying, CloseAllPositions
  <2>2. CASE UNCHANGED <<book, agent>>
    BY <2>2 DEF Inv, TypeOK, BookType, AgentType, Replaying, Matched, CulledFlat,
                OpenPositions, CloseAllPositions, book, agent
  <2> QED BY <1>1, <2>1, <2>2
<1>4. ClockType' /\ RiskType' /\ GatesType'
  BY DEF Inv, TypeOK, ClockType, RiskType, GatesType, CloseAllPositions, clock, risk, gates
<1> QED BY <1>1, <1>3, <1>4
     DEF Inv, TypeOK, EndClosesEpisodes, StreamsDecode, CloseAllPositions, clock

\* The steps that only revive strategies or move to the next phase
LEMMA WeekendClosedInv == Inv /\ WeekendClosed => Inv'
<1> SUFFICES ASSUME Inv, WeekendClosed PROVE Inv'
  OBVIOUS
<1>1. ClockType' /\ BookType' /\ GatesType'
  BY DEF Inv, TypeOK, ClockType, BookType, GatesType, WeekendClosed, clock, book, gates
<1>2. RiskType'
  BY <1>1, UpdateLimitsType DEF Inv, TypeOK, ClockType, BookType, WeekendClosed
<1>3. AgentType'
  BY DEF Inv, TypeOK, AgentType, WeekendClosed, Revive, Newborn, Life
<1>4. Matched' /\ CulledFlat'
  BY DEF Inv, TypeOK, AgentType, Replaying, Matched, CulledFlat, OpenPositions, WeekendClosed, book,
         Revive, Newborn
<1>5. pc' = "maxHold" /\ todo' \subseteq Strategies
  BY EngineAssumption DEF WeekendClosed
<1> QED BY <1>1, <1>2, <1>3, <1>4, <1>5
     DEF Inv, TypeOK, Phases, EndClosesEpisodes, StreamsDecode, WeekendClosed, clock

LEMMA HaltClosedInv == Inv /\ HaltClosed => Inv'
<1> SUFFICES ASSUME Inv, HaltClosed PROVE Inv'
  OBVIOUS
<1>1. ClockType' /\ BookType' /\ GatesType' /\ AgentType'
  BY DEF Inv, TypeOK, ClockType, BookType, GatesType, AgentType, HaltClosed, book, gates, agent
<1>2. RiskType'
  BY <1>1, UpdateLimitsType DEF Inv, TypeOK, ClockType, BookType, HaltClosed
<1>3. Matched' /\ CulledFlat'
  BY DEF Inv, Replaying, Matched, CulledFlat, OpenPositions, HaltClosed, book, agent
<1> QED BY <1>1, <1>2, <1>3
     DEF Inv, TypeOK, Phases, EndClosesEpisodes, StreamsDecode, HaltClosed

LEMMA CloseMaxHoldInv == Inv /\ CloseMaxHold => Inv'
<1> SUFFICES ASSUME Inv, CloseMaxHold PROVE Inv'
  OBVIOUS
<1> DEFINE s == First(todo)
<1>1. s \in Strategies /\ todo' = todo \ {s}
  BY FirstIsMember DEF Inv, TypeOK, CloseMaxHold
<1>2. CloseStrategyPosition(s) \/ UNCHANGED <<book, agent, risk>>
  BY DEF CloseMaxHold
<1>3. BookType' /\ AgentType' /\ RiskType' /\ Matched' /\ CulledFlat'
  <2>1. CASE CloseStrategyPosition(s)
    <3>1. now' = now
      BY DEF CloseMaxHold, clock
    <3> HIDE DEF s
    <3> QED BY <1>1, <2>1, <3>1, CloseStrategyPositionStep DEF Inv, Replaying, CloseMaxHold
  <2>2. CASE UNCHANGED <<book, agent, risk>>
    BY <2>2 DEF Inv, TypeOK, BookType, AgentType, RiskType, Replaying, Matched, CulledFlat,
                OpenPositions, CloseMaxHold, book, agent, risk
  <2> QED BY <1>2, <2>1, <2>2
<1>4. ClockType' /\ GatesType'
  BY DEF Inv, TypeOK, ClockType, GatesType, CloseMaxHold, clock, gates
<1> QED BY <1>1, <1>3, <1>4
     DEF Inv, TypeOK, EndClosesEpisodes, StreamsDecode, CloseMaxHold, clock

LEMMA UpdateRegimeInv == Inv /\ UpdateRegime => Inv'
<1> SUFFICES ASSUME Inv, UpdateRegime PROVE Inv'
  OBVIOUS
<1>1. ClockType' /\ BookType' /\ RiskType' /\ AgentType' /\ Matched' /\ CulledFlat'
  BY DEF Inv, TypeOK, ClockType, BookType, RiskType, AgentType, Replaying, Matched, CulledFlat,
         OpenPositions, UpdateRegime, clock, book, risk, agent
<1>2. GatesType'
  BY EngineAssumption DEF Inv, TypeOK, GatesType, UpdateRegime
<1>3. todo' \subseteq Strategies
  BY EngineAssumption DEF UpdateRegime
<1> QED BY <1>1, <1>2, <1>3
     DEF Inv, TypeOK, Phases, EndClosesEpisodes, StreamsDecode, UpdateRegime, clock

\* A decision touches the strategy's own episode and nothing else.
LEMMA GetStrategyDecisionInv == Inv /\ GetStrategyDecision => Inv'
<1> SUFFICES ASSUME Inv, GetStrategyDecision PROVE Inv'
  OBVIOUS
<1> DEFINE s == First(todo)
<1>1. s \in Strategies /\ todo' = todo \ {s}
  BY FirstIsMember DEF Inv, TypeOK, GetStrategyDecision
<1>2. DecideTimeout(s) \/ DecideNotTriggered(s) \/ DecideAction(s)
  BY DEF GetStrategyDecision
<1>3. pos[s].size \in Int /\ episode[s] \in Nat /\ now \in Nat
  BY <1>1 DEF Inv, TypeOK, BookType, AgentType, ClockType, Position
<1>4. /\ episode' \in [Strategies -> Nat]
      /\ decision' \in [Strategies -> Decision]
  <2> HIDE DEF s
  <2>1. CASE DecideTimeout(s)
    <3>1. -Sign(pos[s].size) \in {-1, 0, 1}
      <4> DEFINE direction == Sign(pos[s].size)
      <4>1. direction \in {-1, 0, 1}
        BY <1>3, MagnitudeType
      <4> HIDE DEF direction
      <4>2. -direction \in {-1, 0, 1}
        BY <4>1
      <4> QED BY <4>2 DEF direction
    <3>2. [made |-> TRUE, side |-> -Sign(pos[s].size), q |-> 0, close |-> TRUE] \in Decision
      BY <3>1 DEF Decision
    <3> QED BY <1>1, <2>1, <3>2 DEF Inv, TypeOK, AgentType, DecideTimeout, Idle
  <2>2. CASE DecideNotTriggered(s)
    <3>1. HoldDecision \in Decision
      BY DEF HoldDecision, Decision
    <3> QED BY <1>1, <2>2, <3>1 DEF Inv, TypeOK, AgentType, DecideNotTriggered, Idle
  <2>3. CASE DecideAction(s)
    <3>1. PICK side \in SidesAllowed, q \in QValues :
            /\ episode' = [episode EXCEPT ![s] =
                 IF Synced(s) = Idle /\ side # 0 THEN now ELSE Synced(s)]
            /\ decision' = [decision EXCEPT ![s] =
                 [made |-> TRUE, side |-> side, q |-> q,
                  close |-> Synced(s) # Idle /\ side * pos[s].size < 0]]
      BY <2>3 DEF DecideAction
    <3>2. side \in {-1, 0, 1} /\ q \in Int /\ Synced(s) \in Nat
      BY <1>3, EngineAssumption DEF SidesAllowed, Synced, Idle
    <3>3. episode' \in [Strategies -> Nat]
      BY <1>1, <1>3, <3>1, <3>2 DEF Inv, TypeOK, AgentType
    <3> DEFINE closes == Synced(s) # Idle /\ side * pos[s].size < 0
    <3>4. [made |-> TRUE, side |-> side, q |-> q, close |-> closes] \in Decision
      BY <3>2 DEF Decision
    <3> QED BY <1>1, <3>1, <3>3, <3>4 DEF Inv, TypeOK
  <2> QED BY <1>2, <2>1, <2>2, <2>3
<1>5. ClockType' /\ BookType' /\ RiskType' /\ GatesType' /\ Matched' /\ CulledFlat'
  BY DEF Inv, TypeOK, ClockType, BookType, RiskType, GatesType, Replaying, Matched, CulledFlat,
         OpenPositions, GetStrategyDecision, clock, book, risk, gates
<1>6. AgentType'
  BY <1>4 DEF Inv, TypeOK, AgentType, GetStrategyDecision
<1> QED BY <1>1, <1>4, <1>5, <1>6
     DEF Inv, TypeOK, EndClosesEpisodes, StreamsDecode, GetStrategyDecision, clock

\* The steps that leave the book and the episodes alone: they only move the
\* engine to another phase or to the next decision.
LEMMA BookUntouched ==
  ASSUME TypeOK, UNCHANGED <<pos, globalPosition, totalRealized, totalUnrealized, life, mc, episode>>
  PROVE  /\ BookType' /\ AgentType'
         /\ Matched => Matched'
         /\ CulledFlat => CulledFlat'
BY DEF TypeOK, BookType, AgentType, Matched, CulledFlat, OpenPositions

LEMMA DecisionsMadeInv == Inv /\ DecisionsMade => Inv'
<1> SUFFICES ASSUME Inv, DecisionsMade PROVE Inv'
  OBVIOUS
<1>1. BookType' /\ AgentType' /\ Matched' /\ CulledFlat'
  BY BookUntouched DEF Inv, Replaying, DecisionsMade, book, agent
<1>2. ClockType' /\ RiskType' /\ GatesType'
  BY DEF Inv, TypeOK, ClockType, RiskType, GatesType, DecisionsMade, clock, risk, gates
<1>3. pc' = "execute" /\ todo' \subseteq Strategies
  BY DEF DecisionsMade, Decided
<1> QED BY <1>1, <1>2, <1>3
     DEF Inv, TypeOK, Phases, EndClosesEpisodes, StreamsDecode, DecisionsMade, clock

\* What every decision's execution leaves as it is.
LEMMA DoneStep ==
  ASSUME Inv, NEW s \in Strategies, Executing(s), Done(s), masked' \in BOOLEAN
  PROVE  /\ ClockType' /\ GatesType' /\ now' = now
         /\ pc' = pc /\ pc = "execute" /\ todo' \subseteq Strategies
         /\ decision' \in [Strategies -> Decision]
         /\ EndClosesEpisodes' /\ StreamsDecode'
<1>1. ClockType' /\ GatesType' /\ now' = now
  BY DEF Inv, TypeOK, ClockType, GatesType, Done, clock
<1>2. pc' = pc /\ pc = "execute" /\ todo' \subseteq Strategies
  BY DEF Inv, TypeOK, Executing, Done
<1>3. decision' \in [Strategies -> Decision]
  BY DEF Inv, TypeOK, Done
<1>4. EndClosesEpisodes' /\ StreamsDecode'
  BY <1>2 DEF Inv, EndClosesEpisodes, StreamsDecode, Done, clock
<1> QED BY <1>1, <1>2, <1>3, <1>4

LEMMA ExecuteCloseInv ==
  ASSUME Inv, NEW s \in Strategies, ExecuteClose(s)
  PROVE  Inv'
<1>1. masked' \in BOOLEAN
  BY DEF Inv, TypeOK, GatesType, ExecuteClose
<1>2. /\ ClockType' /\ GatesType' /\ now' = now
      /\ pc' = pc /\ pc = "execute" /\ todo' \subseteq Strategies
      /\ decision' \in [Strategies -> Decision]
      /\ EndClosesEpisodes' /\ StreamsDecode'
  BY <1>1, DoneStep DEF ExecuteClose
<1>3. BookType' /\ AgentType' /\ RiskType' /\ Matched' /\ CulledFlat'
  BY <1>2, CloseStrategyPositionStep DEF Inv, Replaying, ExecuteClose
<1> QED BY <1>2, <1>3 DEF Inv, TypeOK

\* Hold, a position already open, the mask, a refusal or a rejection
LEMMA NoOrderInv ==
  ASSUME Inv, NEW s \in Strategies, ExecuteNothing(s) \/ KillSwitchMasked(s) \/ Refused(s)
  PROVE  Inv'
<1>1. /\ Executing(s) /\ Done(s) /\ UNCHANGED <<book, risk, agent>>
      /\ masked' = masked \/ masked' = FALSE
  BY DEF ExecuteNothing, KillSwitchMasked, Refused, Ordered
<1>2. masked' \in BOOLEAN
  BY <1>1 DEF Inv, TypeOK, GatesType
<1>3. /\ ClockType' /\ GatesType' /\ now' = now
      /\ pc' = pc /\ pc = "execute" /\ todo' \subseteq Strategies
      /\ decision' \in [Strategies -> Decision]
      /\ EndClosesEpisodes' /\ StreamsDecode'
  BY <1>1, <1>2, DoneStep
<1>4. BookType' /\ AgentType' /\ RiskType' /\ Matched' /\ CulledFlat'
  BY <1>1, <1>3, BookUntouched DEF Inv, TypeOK, RiskType, Replaying, book, risk, agent
<1> QED BY <1>3, <1>4 DEF Inv, TypeOK

LEMMA HardLimitInv ==
  ASSUME Inv, NEW s \in Strategies, HardLimit(s)
  PROVE  Inv'
<1>1. pc = "execute" /\ pc' = "halt" /\ todo' \subseteq Strategies
  BY DEF HardLimit, Ordered, Executing, OpenPositions
<1>2. BookType' /\ AgentType' /\ Matched' /\ CulledFlat'
  BY <1>1, BookUntouched DEF Inv, Replaying, HardLimit, book, agent
<1>3. ClockType' /\ RiskType' /\ GatesType'
  BY DEF Inv, TypeOK, ClockType, RiskType, GatesType, HardLimit, Ordered, clock, risk
<1>4. decision' \in [Strategies -> Decision]
  BY DEF Inv, TypeOK, HardLimit
<1> QED BY <1>1, <1>2, <1>3, <1>4
     DEF Inv, TypeOK, Phases, EndClosesEpisodes, StreamsDecode, HardLimit, clock

\* An entry opens a position for a strategy that is alive and has none.
LEMMA EnterInv ==
  ASSUME Inv, NEW s \in Strategies, Enter(s)
  PROVE  Inv'
<1>1. masked' \in BOOLEAN
  BY DEF Enter, Ordered
<1>2. /\ ClockType' /\ GatesType' /\ now' = now
      /\ pc' = pc /\ pc = "execute" /\ todo' \subseteq Strategies
      /\ decision' \in [Strategies -> Decision]
      /\ EndClosesEpisodes' /\ StreamsDecode'
  BY <1>1, DoneStep DEF Enter, Ordered
<1>3. PICK slip \in Slippages :
        ProcessExecutionResult(s, decision[s].side * Lots(s), mid + slip)
  BY DEF Enter
<1> DEFINE lots == Lots(s)
<1>4. lots \in Int /\ lots > 0
  BY LotsType DEF Inv, TypeOK, RiskType, BookType, Lots, Enter, RiskPassed
<1>5. decision[s].side \in {-1, 1}
  BY DEF Inv, TypeOK, Decision, Enter, Ordered, Attempt
<1> DEFINE size == decision[s].side * lots
<1>6. size \in Int /\ size # 0
  <2> HIDE DEF lots
  <2> QED BY <1>4, <1>5
<1> HIDE DEF size
<1>7. mid + slip \in Int /\ now \in Nat
  BY EngineAssumption DEF Inv, TypeOK, ClockType
<1>8. pos[s] \in Position /\ pos[s].size = 0
  BY DEF Inv, TypeOK, BookType, Enter, Ordered, IsOpen
<1>9. /\ BookType'
      /\ pos'[s] = UpdatePositionFromFill(pos[s], size, mid + slip, now)
      /\ \A x \in Strategies \ {s} : pos'[x] = pos[x]
  BY <1>3, <1>6, <1>7, FillStep DEF Inv, TypeOK, size
<1>10. pos'[s].size # 0
  BY <1>6, <1>7, <1>8, <1>9, FillOpens
<1>11. life' = life /\ life[s].alive /\ mc' = mc \cup {s}
  BY DEF Enter, RiskPassed
<1>12. AgentType'
  BY <1>7, <1>11 DEF Inv, TypeOK, AgentType, Enter
<1>13. Matched' /\ CulledFlat'
  BY <1>2, <1>9, <1>10, <1>11
     DEF Inv, Replaying, Matched, CulledFlat, OpenPositions, IsOpen
<1>14. RiskType'
  BY <1>2, <1>7, <1>9, UpdateLimitsType DEF Inv, TypeOK, BookType, Enter
<1> QED BY <1>2, <1>9, <1>12, <1>13, <1>14 DEF Inv, TypeOK

LEMMA TickDoneInv == Inv /\ TickDone => Inv'
<1> SUFFICES ASSUME Inv, TickDone PROVE Inv'
  OBVIOUS
<1>1. BookType' /\ AgentType' /\ Matched' /\ CulledFlat'
  BY BookUntouched DEF Inv, Replaying, TickDone, book, agent
<1>2. ClockType' /\ RiskType' /\ GatesType'
  BY DEF Inv, TypeOK, ClockType, RiskType, GatesType, TickDone, risk, gates
<1> QED BY <1>1, <1>2
     DEF Inv, TypeOK, Phases, EndClosesEpisodes, StreamsDecode, TickDone

\* When the data end with a tick that decodes, every active episode belongs to a
\* position that is still to be closed.
LEMMA EndOfDataInv == Inv /\ EndOfData => Inv'
<1> SUFFICES ASSUME Inv, EndOfData PROVE Inv'
  OBVIOUS
<1>1. BookType' /\ AgentType' /\ Matched /\ Matched'
  BY BookUntouched DEF Inv, Replaying, EndOfData, book, agent
<1>2. ClockType' /\ RiskType' /\ GatesType' /\ decision' \in [Strategies -> Decision]
  BY DEF Inv, TypeOK, ClockType, RiskType, GatesType, EndOfData, clock, risk, gates
<1>3. pc' = "endOfData" /\ todo' \subseteq Strategies
  BY DEF EndOfData, OpenPositions
<1>4. EndClosesEpisodes'
  BY <1>1 DEF EndClosesEpisodes, Matched, EndOfData, clock, agent
<1>5. StreamsDecode'
  BY DEF Inv, StreamsDecode, EndOfData, clock
<1> QED BY <1>1, <1>2, <1>3, <1>4, <1>5 DEF Inv, TypeOK, Phases, Replaying

LEMMA CloseAtEndInv == Inv /\ CloseAtEnd => Inv'
<1> SUFFICES ASSUME Inv, CloseAtEnd PROVE Inv'
  OBVIOUS
<1>1. PICK s \in todo :
        /\ todo' = todo \ {s}
        /\ (CloseFill(s) /\ UpdateLimits) \/ UNCHANGED <<book, risk>>
        /\ EndStrategyEpisode(s, limits')
  BY DEF CloseAtEnd
<1>2. s \in Strategies
  BY DEF Inv, TypeOK
<1>3. BookType' /\ RiskType'
  <2>1. CASE CloseFill(s) /\ UpdateLimits
    <3>1. BookType'
      BY <1>2, <2>1, CloseStep DEF Inv, TypeOK, ClockType
    <3>2. now' \in Nat
      BY DEF Inv, TypeOK, ClockType, CloseAtEnd, clock
    <3> QED BY <2>1, <3>1, <3>2, UpdateLimitsType DEF Inv, TypeOK, BookType
  <2>2. CASE UNCHANGED <<book, risk>>
    BY <2>2 DEF Inv, TypeOK, BookType, RiskType, book, risk
  <2> QED BY <1>1, <2>1, <2>2
<1>4. AgentType' /\ mc' = mc \ {s}
  BY <1>1, <1>2, EndEpisodeStep DEF Inv, TypeOK
<1>5. ClockType' /\ GatesType' /\ decision' \in [Strategies -> Decision]
  BY DEF Inv, TypeOK, ClockType, GatesType, CloseAtEnd, clock, gates
<1>6. pc = "endOfData" /\ pc' = pc /\ todo' \subseteq Strategies
  BY <1>1 DEF Inv, TypeOK, CloseAtEnd
<1>7. EndClosesEpisodes'
  BY <1>1, <1>4, <1>6 DEF Inv, EndClosesEpisodes, CloseAtEnd, clock
<1>8. StreamsDecode'
  BY DEF Inv, StreamsDecode, CloseAtEnd, clock
<1> QED BY <1>3, <1>4, <1>5, <1>6, <1>7, <1>8 DEF Inv, TypeOK, Replaying

\* No episode is left when a batch is followed by another.
LEMMA NextBatchInv == Inv /\ NextBatch => Inv'
<1> SUFFICES ASSUME Inv, NextBatch PROVE Inv'
  OBVIOUS
<1>1. decoded
  <2>1. MaxBatches # 1
    BY EngineAssumption DEF Inv, TypeOK, ClockType, NextBatch
  <2> QED BY <2>1, BatchAssumption DEF Inv, StreamsDecode
<1>2. mc = {}
  BY <1>1 DEF Inv, EndClosesEpisodes, NextBatch
<1>3. NoPosition \in Position /\ NoPosition.size = 0
  BY DEF NoPosition, Position
<1>4. BookType' /\ RiskType'
  BY <1>3 DEF NextBatch, BookType, FlatBook, RiskType, FreshTracker, Period, NoKey,
              NoLosses, LimitState
<1>5. AgentType' /\ mc' = {}
  BY <1>2 DEF Inv, TypeOK, AgentType, NextBatch, agent
<1>6. Matched' /\ CulledFlat'
  BY <1>3, <1>5 DEF NextBatch, Matched, CulledFlat, OpenPositions, FlatBook, IsOpen
<1>7. ClockType'
  BY EngineAssumption DEF Inv, TypeOK, ClockType, NextBatch
<1>8. GatesType'
  BY DEF Inv, TypeOK, GatesType, NextBatch
<1>9. decision' \in [Strategies -> Decision]
  BY DEF NextBatch, NoDecisions, NoDecision, Decision
<1>10. pc' = "ready" /\ todo' = todo /\ decoded' = decoded
  BY DEF NextBatch
<1>11. EndClosesEpisodes' /\ StreamsDecode'
  BY <1>10 DEF Inv, EndClosesEpisodes, StreamsDecode
<1> QED BY <1>4, <1>5, <1>6, <1>7, <1>8, <1>9, <1>10, <1>11 DEF Inv, TypeOK, Phases

\* The steps after the last batch, and stuttering
LEMMA FinishInv == Inv /\ Finish => Inv'
BY DEF Inv, TypeOK, ClockType, BookType, RiskType, GatesType, AgentType, Phases, Replaying,
       EndClosesEpisodes, StreamsDecode, Finish, clock, book, risk, gates, agent

LEMMA StutterInv == Inv /\ UNCHANGED vars => Inv'
BY DEF Inv, TypeOK, ClockType, BookType, RiskType, GatesType, AgentType, Replaying, Matched,
       CulledFlat, OpenPositions, EndClosesEpisodes, StreamsDecode,
       vars, clock, book, risk, gates, agent

LEMMA NextInv == Inv /\ [Next]_vars => Inv'
<1> SUFFICES ASSUME Inv, [Next]_vars PROVE Inv'
  OBVIOUS
<1>1. CASE MarketTick
  BY <1>1, MarketTickInv
<1>2. CASE UndecodableTick
  BY <1>2, UndecodableTickInv
<1>3. CASE CloseAllPositions
  BY <1>3, CloseAllPositionsInv
<1>4. CASE WeekendClosed
  BY <1>4, WeekendClosedInv
<1>5. CASE HaltClosed
  BY <1>5, HaltClosedInv
<1>6. CASE CloseMaxHold
  BY <1>6, CloseMaxHoldInv
<1>7. CASE UpdateRegime
  BY <1>7, UpdateRegimeInv
<1>8. CASE GetStrategyDecision
  BY <1>8, GetStrategyDecisionInv
<1>9. CASE DecisionsMade
  BY <1>9, DecisionsMadeInv
<1>10. ASSUME NEW s \in Strategies,
              \/ ExecuteClose(s) \/ ExecuteNothing(s) \/ KillSwitchMasked(s)
              \/ HardLimit(s) \/ Refused(s) \/ Enter(s)
       PROVE  Inv'
  BY <1>10, ExecuteCloseInv, NoOrderInv, HardLimitInv, EnterInv
<1>11. CASE TickDone
  BY <1>11, TickDoneInv
<1>12. CASE EndOfData
  BY <1>12, EndOfDataInv
<1>13. CASE CloseAtEnd
  BY <1>13, CloseAtEndInv
<1>14. CASE NextBatch
  BY <1>14, NextBatchInv
<1>15. CASE Finish
  BY <1>15, FinishInv
<1>16. CASE Finished \/ UNCHANGED vars
  BY <1>16, StutterInv DEF Finished
<1> QED
  BY <1>1, <1>2, <1>3, <1>4, <1>5, <1>6, <1>7, <1>8, <1>9, <1>10, <1>11, <1>12, <1>13,
     <1>14, <1>15, <1>16 DEF Next

-----------------------------------------------------------------------------
(* The theorems *)

LEMMA Invariance == Spec => []Inv
<1> QED BY InitInv, NextInv, PTL DEF Spec

\* Every variable of the engine keeps its type, whatever is filled or rejected.
THEOREM TypeCorrect == Spec => []TypeOK
<1>1. Inv => TypeOK
  BY DEF Inv
<1> QED BY <1>1, Invariance, PTL

\* The Monte Carlo evaluator has an active episode for exactly the strategies
\* with an open position, for any strategies, sizes, limits and calendar: the
\* assertions in start_episode and end_episode never fail during a replay.
THEOREM EpisodesMatch == Spec => []EpisodeMatchesPosition
<1>1. Inv => EpisodeMatchesPosition
  BY DEF Inv, Matched, EpisodeMatchesPosition
<1> QED BY <1>1, Invariance, PTL

\* A culled strategy holds nothing, although nothing in the engine closes the
\* positions of culled strategies.
THEOREM CulledAreFlat == Spec => []CulledIsFlat
<1>1. Inv => CulledIsFlat
  BY DEF Inv, CulledFlat, CulledIsFlat
<1> QED BY <1>1, Invariance, PTL

-----------------------------------------------------------------------------
(* What each step does to the positions *)

\* A step marks the book, fills a close, fills an entry, starts a new book, or leaves
\* the book alone.
LEMMA BookSteps ==
  ASSUME Inv, [Next]_vars
  PROVE  \/ MarketTick
         \/ \E s \in Strategies : CloseFill(s) /\ now' = now
         \/ \E s \in Strategies : Enter(s)
         \/ NextBatch
         \/ UNCHANGED book
<1>1. CASE MarketTick \/ NextBatch
  BY <1>1
<1>2. CASE UndecodableTick \/ WeekendClosed \/ HaltClosed \/ UpdateRegime \/ GetStrategyDecision
           \/ DecisionsMade \/ TickDone \/ EndOfData \/ Finish
  BY <1>2 DEF UndecodableTick, WeekendClosed, HaltClosed, UpdateRegime, GetStrategyDecision,
              DecisionsMade, TickDone, EndOfData, Finish
<1>3. CASE CloseAllPositions
  BY <1>3 DEF CloseAllPositions, Inv, TypeOK, clock
<1>4. CASE CloseMaxHold
  <2>1. First(todo) \in Strategies
    BY <1>4, FirstIsMember DEF Inv, TypeOK, CloseMaxHold
  <2> QED BY <1>4, <2>1 DEF CloseMaxHold, CloseStrategyPosition, clock
<1>5. ASSUME NEW s \in Strategies, ExecuteClose(s)
      PROVE  (CloseFill(s) /\ now' = now) \/ UNCHANGED book
  BY <1>5 DEF ExecuteClose, CloseStrategyPosition, Done, clock
<1>6. ASSUME NEW s \in Strategies,
             ExecuteNothing(s) \/ KillSwitchMasked(s) \/ HardLimit(s) \/ Refused(s)
      PROVE  UNCHANGED book
  BY <1>6 DEF ExecuteNothing, KillSwitchMasked, HardLimit, Refused
<1>7. CASE CloseAtEnd
  BY <1>7 DEF CloseAtEnd, Inv, TypeOK, clock
<1>8. CASE Finished \/ UNCHANGED vars
  BY <1>8 DEF Finished, vars
<1> QED BY <1>1, <1>2, <1>3, <1>4, <1>5, <1>6, <1>7, <1>8 DEF Next

\* A close order that is filled changes one position, to none.
LEMMA CloseFillStep ==
  ASSUME Inv, NEW s \in Strategies, CloseFill(s)
  PROVE  /\ ~IsOpen(pos'[s])
         /\ \A x \in Strategies \ {s} : pos'[x] = pos[x]
         /\ OpenPositions' = OpenPositions \ {s}
<1>1. OpenPositions' = OpenPositions \ {s}
  BY CloseStep DEF Inv, TypeOK, ClockType
<1>2. \A x \in Strategies \ {s} : pos'[x] = pos[x]
  BY DEF Inv, TypeOK, BookType, CloseFill, ProcessExecutionResult
<1> QED BY <1>1, <1>2 DEF OpenPositions

\* An entry that is filled opens a position of the size ordered, at the time of the tick.
LEMMA EntryStep ==
  ASSUME Inv, NEW s \in Strategies, Enter(s)
  PROVE  /\ ~IsOpen(pos[s]) /\ now' = now
         /\ Lots(s) \in Int /\ Lots(s) > 0 /\ decision[s].side \in {-1, 1}
         /\ pos'[s].size = decision[s].side * Lots(s)
         /\ pos'[s].since = now
         /\ pos'[s].realized = pos[s].realized
         /\ \A x \in Strategies \ {s} : pos'[x] = pos[x]
         /\ OpenPositions' = OpenPositions \cup {s}
<1>1. PICK slip \in Slippages :
        ProcessExecutionResult(s, decision[s].side * Lots(s), mid + slip)
  BY DEF Enter
<1> DEFINE lots == Lots(s)
<1>2. lots \in Int /\ lots > 0
  BY LotsType DEF Inv, TypeOK, RiskType, BookType, Lots, Enter, RiskPassed
<1>3. decision[s].side \in {-1, 1}
  BY DEF Inv, TypeOK, Decision, Enter, Ordered, Attempt
<1> DEFINE size == decision[s].side * lots
<1>4. size \in Int /\ size # 0
  <2> HIDE DEF lots
  <2> QED BY <1>2, <1>3
<1>5. pos[s] \in Position /\ pos[s].size = 0 /\ now' = now
  BY DEF Inv, TypeOK, BookType, Enter, Ordered, IsOpen, Done, clock
<1>6. pos' = [pos EXCEPT ![s] = UpdatePositionFromFill(@, size, mid + slip, now)]
  BY <1>1 DEF ProcessExecutionResult
<1> HIDE DEF size
<1>7. /\ pos'[s] = [pos[s] EXCEPT !.size = size, !.entry = mid + slip, !.since = now]
      /\ \A x \in Strategies \ {s} : pos'[x] = pos[x]
  BY <1>4, <1>5, <1>6 DEF UpdatePositionFromFill, Inv, TypeOK, BookType
<1>8. pos'[s].size = size /\ pos'[s].since = now /\ pos'[s].realized = pos[s].realized
  BY <1>5, <1>7 DEF Position
<1>9. OpenPositions' = OpenPositions \cup {s}
  BY <1>4, <1>7, <1>8 DEF OpenPositions, IsOpen
<1> QED BY <1>2, <1>3, <1>5, <1>7, <1>8, <1>9 DEF size, IsOpen

LEMMA TickStep ==
  ASSUME Inv, MarketTick
  PROVE  /\ now' > now /\ now' > 0
         /\ \A s \in Strategies : /\ pos'[s].size = pos[s].size
                                  /\ pos'[s].since = pos[s].since
                                  /\ pos'[s].realized = pos[s].realized
         /\ OpenPositions' = OpenPositions
<1>1. now \in Nat /\ mid' \in Int
  BY EngineAssumption DEF Inv, TypeOK, ClockType, MarketTick
<1>2. now' > now /\ now' > 0
  <2>1. CASE now = 0
    <3>1. now' \in StartTimes
      BY <2>1 DEF MarketTick, Arrive
    <3>2. StartTimes \subseteq Nat \ {0}
      BY EngineAssumption
    <3> QED BY <2>1, <3>1, <3>2
  <2>2. CASE now # 0
    <3>1. PICK d \in Steps : now' = now + d
      BY <2>2 DEF MarketTick, Arrive
    <3> QED BY <1>1, <3>1, EngineAssumption
  <2> QED BY <2>1, <2>2
<1>3. \A s \in Strategies : /\ pos'[s].size = pos[s].size
                            /\ pos'[s].since = pos[s].since
                            /\ pos'[s].realized = pos[s].realized
  BY DEF Inv, TypeOK, BookType, Position, MarketTick, MarkToMarket
<1>4. OpenPositions' = OpenPositions
  BY <1>3 DEF OpenPositions, IsOpen
<1> QED BY <1>2, <1>3, <1>4

LEMMA SizeStep ==
  ASSUME Inv, [Next]_vars, NEW s \in Strategies, pos'[s].size # pos[s].size
  PROVE  ~IsOpen(pos[s]) \/ ~IsOpen(pos[s])'
<1>1. CASE MarketTick
  BY <1>1, TickStep
<1>2. ASSUME NEW x \in Strategies, CloseFill(x)
      PROVE  ~IsOpen(pos[s])'
  BY <1>2, CloseFillStep
<1>3. ASSUME NEW x \in Strategies, Enter(x)
      PROVE  ~IsOpen(pos[s])
  BY <1>3, EntryStep
<1>4. CASE NextBatch
  BY <1>4 DEF NextBatch, FlatBook, NoPosition, IsOpen
<1>5. CASE UNCHANGED book
  BY <1>5 DEF book
<1> QED BY <1>1, <1>2, <1>3, <1>4, <1>5, BookSteps

\* A fill opens a position from flat or closes one completely, for every lot size,
\* limit and order of decisions.
THEOREM FillsOpenOrCloseAlways == Spec => FillsOpenOrClose
<1>1. Inv /\ [Next]_vars =>
        [\A s \in Strategies :
           pos'[s].size # pos[s].size => ~IsOpen(pos[s]) \/ ~IsOpen(pos[s])']_vars
  BY SizeStep
<1> QED BY <1>1, Invariance, PTL DEF Spec, FillsOpenOrClose

-----------------------------------------------------------------------------
(* What is known at the moment of an entry *)

\* Only enabled strategies are asked, and they have decided when the loop of Phase 3
\* begins; who has not decided wants nothing.
Asked ==
  /\ pc = "maxHold" => todo \subseteq Enabled
  /\ pc \in {"weekend", "maxHold"} => Decided = {}
  /\ pc = "decide" => todo \subseteq Enabled
  /\ pc \in {"decide", "execute"} => Decided \subseteq Enabled
UndecidedWantNothing == \A s \in Strategies : ~decision[s].made => decision[s].side = 0

\* Nobody is asked in a gap halt or an unknown regime.
Known ==
  /\ pc = "decide" /\ todo # {} => ~gapHalted /\ ~unknown
  /\ pc \in {"decide", "execute"} /\ Decided # {} => ~gapHalted /\ ~unknown

\* From Phase 1 on the limits are those of the book and of the periods of this tick.
LimitsCurrent ==
  pc \in {"maxHold", "decide", "execute"} =>
    /\ limits = LimitsOf(tracker, totalRealized, totalUnrealized)
    /\ \A p \in Periods : tracker[p].key = PeriodKey(p, now)

GateInv == Asked /\ UndecidedWantNothing /\ Known /\ LimitsCurrent

LEMMA UpdateMakesCurrent ==
  ASSUME UpdateLimits
  PROVE  /\ limits' = LimitsOf(tracker', totalRealized', totalUnrealized')
         /\ \A p \in Periods : tracker'[p].key = PeriodKey(p, now')
BY DEF UpdateLimits, Roll

\* A close of Phase 1 or Phase 3 brings the limits up to date, and decides nothing.
LEMMA CloseKeepsCurrent ==
  ASSUME LimitsCurrent, pc \in {"maxHold", "decide", "execute"}, now' = now,
         NEW s \in Strategies, CloseStrategyPosition(s) \/ UNCHANGED <<book, agent, risk>>
  PROVE  LimitsCurrent'
<1>1. CASE UpdateLimits
  BY <1>1, UpdateMakesCurrent DEF LimitsCurrent
<1>2. CASE UNCHANGED <<book, agent, risk>>
  BY <1>2 DEF LimitsCurrent, book, risk
<1> QED BY <1>1, <1>2 DEF CloseStrategyPosition

\* The steps that decide nothing and leave the gates as they are
LEMMA AskedKept ==
  ASSUME GateInv, UNCHANGED <<decision, gapHalted, unknown>>, todo' \subseteq todo,
         pc' = pc \/ pc' \notin {"weekend", "maxHold", "decide", "execute"}
  PROVE  Asked' /\ UndecidedWantNothing' /\ Known'
BY DEF GateInv, Asked, UndecidedWantNothing, Known, Decided

LEMMA GateInit == Init => GateInv
BY DEF Init, GateInv, Asked, UndecidedWantNothing, Known, LimitsCurrent, NoDecisions, NoDecision

LEMMA GateStep == Inv /\ GateInv /\ [Next]_vars => GateInv'
<1> SUFFICES ASSUME Inv, GateInv, [Next]_vars PROVE GateInv'
  OBVIOUS
<1>1. CASE MarketTick
  <2>1. Decided' = {} /\ UndecidedWantNothing'
    BY <1>1 DEF MarketTick, Decided, NoDecisions, NoDecision, UndecidedWantNothing
  <2>2. pc' = "weekend" \/ (pc' = "maxHold" /\ todo' = Enabled)
    BY <1>1 DEF MarketTick
  <2>3. LimitsCurrent'
    BY <1>1, UpdateMakesCurrent DEF MarketTick, LimitsCurrent
  <2> QED BY <2>1, <2>2, <2>3 DEF GateInv, Asked, Known
<1>2. CASE UndecodableTick
  BY <1>2 DEF UndecodableTick, Arrive, GateInv, Asked, UndecidedWantNothing, Known, LimitsCurrent,
              Decided
<1>3. CASE CloseAllPositions
  <2>1. pc \in {"weekend", "halt"} /\ pc' = pc /\ todo' \subseteq todo
        /\ UNCHANGED <<decision, gapHalted, unknown>>
    BY <1>3 DEF CloseAllPositions, gates
  <2> QED BY <2>1, AskedKept DEF GateInv, LimitsCurrent
<1>4. CASE WeekendClosed
  <2>1. pc = "weekend" /\ pc' = "maxHold" /\ todo' = Enabled /\ decision' = decision
    BY <1>4 DEF WeekendClosed
  <2>2. LimitsCurrent'
    BY <1>4, UpdateMakesCurrent DEF WeekendClosed, LimitsCurrent
  <2> QED BY <2>1, <2>2 DEF GateInv, Asked, UndecidedWantNothing, Known, Decided
<1>5. CASE HaltClosed
  BY <1>5 DEF HaltClosed, gates, GateInv, Asked, UndecidedWantNothing, Known, LimitsCurrent, Decided
<1>6. CASE CloseMaxHold
  <2>1. pc = "maxHold" /\ pc' = pc /\ todo' \subseteq todo /\ now' = now
        /\ UNCHANGED <<decision, gapHalted, unknown>>
    BY <1>6 DEF CloseMaxHold, gates, clock
  <2>2. First(todo) \in Strategies
    BY <1>6, FirstIsMember DEF Inv, TypeOK, CloseMaxHold
  <2>3. LimitsCurrent'
    BY <1>6, <2>1, <2>2, CloseKeepsCurrent DEF CloseMaxHold, GateInv
  <2> QED BY <2>1, <2>3, AskedKept DEF GateInv
<1>7. CASE UpdateRegime
  <2>1. Decided = {} /\ Decided' = {} /\ pc' = "decide" /\ gapHalted' = gapHalted
        /\ decision' = decision
    BY <1>7 DEF UpdateRegime, GateInv, Asked, Decided
  <2>2. LimitsCurrent'
    BY <1>7 DEF UpdateRegime, GateInv, LimitsCurrent, book, risk, clock
  <2> QED BY <1>7, <2>1, <2>2 DEF UpdateRegime, GateInv, Asked, UndecidedWantNothing, Known
<1>8. CASE GetStrategyDecision
  <2> DEFINE s == First(todo)
  <2>1. s \in todo /\ s \in Strategies
    BY <1>8, FirstIsMember DEF Inv, TypeOK, GetStrategyDecision
  <2>2. \E d : d.made /\ decision' = [decision EXCEPT ![s] = d]
    BY <1>8 DEF GetStrategyDecision, DecideTimeout, DecideNotTriggered, DecideAction, HoldDecision
  <2> HIDE DEF s
  <2>3. Decided' = Decided \cup {s} /\ UndecidedWantNothing'
    BY <2>1, <2>2 DEF Inv, TypeOK, GateInv, Decided, UndecidedWantNothing
  <2>4. pc = "decide" /\ pc' = pc /\ todo' \subseteq todo /\ UNCHANGED <<gapHalted, unknown>>
    BY <1>8 DEF GetStrategyDecision, gates
  <2>5. LimitsCurrent'
    BY <1>8 DEF GetStrategyDecision, GateInv, LimitsCurrent, book, risk, clock
  <2> QED BY <2>1, <2>3, <2>4, <2>5 DEF GateInv, Asked, Known
<1>9. CASE DecisionsMade
  BY <1>9 DEF DecisionsMade, GateInv, Asked, UndecidedWantNothing, Known, LimitsCurrent, Decided,
              book, risk, clock, gates
<1>10. ASSUME NEW s \in Strategies,
              \/ ExecuteClose(s) \/ ExecuteNothing(s) \/ KillSwitchMasked(s)
              \/ Refused(s) \/ Enter(s)
       PROVE  GateInv'
  <2>1. pc = "execute" /\ pc' = pc /\ todo' \subseteq todo /\ now' = now
        /\ UNCHANGED <<decision, gapHalted, unknown>>
    BY <1>10 DEF ExecuteClose, ExecuteNothing, KillSwitchMasked, Refused, Enter, Ordered, Executing,
                 Done, clock
  <2>2. ASSUME Enter(s) PROVE LimitsCurrent'
    BY <2>1, <2>2, UpdateMakesCurrent DEF Enter, LimitsCurrent
  <2>3. ASSUME ~Enter(s) PROVE LimitsCurrent'
    <3>1. CloseStrategyPosition(s) \/ UNCHANGED <<book, agent, risk>>
      BY <1>10, <2>3 DEF ExecuteClose, ExecuteNothing, KillSwitchMasked, Refused
    <3> QED BY <2>1, <3>1, CloseKeepsCurrent DEF GateInv
  <2>5. LimitsCurrent'
    BY <2>2, <2>3
  <2> QED BY <2>1, <2>5, AskedKept DEF GateInv
<1>11. ASSUME NEW s \in Strategies, HardLimit(s)
       PROVE  GateInv'
  BY <1>11 DEF HardLimit, GateInv, Asked, UndecidedWantNothing, Known, LimitsCurrent, Decided
<1>12. CASE TickDone \/ EndOfData \/ Finish
  BY <1>12 DEF TickDone, EndOfData, Finish, gates, GateInv, Asked, UndecidedWantNothing, Known,
               LimitsCurrent, Decided
<1>13. CASE CloseAtEnd
  BY <1>13 DEF CloseAtEnd, gates, GateInv, Asked, UndecidedWantNothing, Known, LimitsCurrent, Decided
<1>14. CASE NextBatch
  BY <1>14 DEF NextBatch, GateInv, Asked, UndecidedWantNothing, Known, LimitsCurrent, NoDecisions,
               NoDecision
<1>15. CASE Finished \/ UNCHANGED vars
  BY <1>15 DEF Finished, vars, GateInv, Asked, UndecidedWantNothing, Known, LimitsCurrent, Decided,
               clock, book, risk, gates
<1> QED
  BY <1>1, <1>2, <1>3, <1>4, <1>5, <1>6, <1>7, <1>8, <1>9, <1>10, <1>11, <1>12, <1>13,
     <1>14, <1>15 DEF Next

\* Only an entry opens a position.
LEMMA OpensByEntry ==
  ASSUME Inv, [Next]_vars, NEW s \in Strategies, Opens(s)
  PROVE  Enter(s)
<1>1. CASE MarketTick
  BY <1>1, TickStep DEF Opens, IsOpen
<1>2. ASSUME NEW x \in Strategies, CloseFill(x)
      PROVE  FALSE
  BY <1>2, CloseFillStep DEF Opens
<1>3. ASSUME NEW x \in Strategies, Enter(x)
      PROVE  Enter(s)
  BY <1>3, EntryStep DEF Opens
<1>4. CASE NextBatch
  BY <1>4 DEF NextBatch, FlatBook, NoPosition, IsOpen, Opens
<1>5. CASE UNCHANGED book
  BY <1>5 DEF book, Opens
<1> QED BY <1>1, <1>2, <1>3, <1>4, <1>5, BookSteps

LEMMA EntryKnows ==
  ASSUME Inv, GateInv, [Next]_vars, NEW s \in Strategies, Opens(s)
  PROVE  /\ s \in Enabled /\ life[s].alive
         /\ ~masked' /\ ~gapHalted /\ ~unknown
         /\ RealizedIn("day") >= MaxDailyRealized
         /\ RealizedIn("week") >= MaxWeekly
         /\ RealizedIn("month") >= MaxMonthly
<1>1. Enter(s)
  BY OpensByEntry
<1>2. /\ pc = "execute" /\ decision[s].side # 0 /\ ~masked'
      /\ life[s].alive /\ ~HardBreach(limits)
  BY <1>1 DEF Enter, Ordered, Executing, Attempt, RiskPassed
<1>3. s \in Decided
  BY <1>2 DEF GateInv, UndecidedWantNothing, Decided
<1>4. s \in Enabled /\ ~gapHalted /\ ~unknown
  BY <1>2, <1>3 DEF GateInv, Asked, Known
<1>5. limits = LimitsOf(tracker, totalRealized, totalUnrealized)
      /\ \A p \in Periods : tracker[p].key = PeriodKey(p, now)
  BY <1>2 DEF GateInv, LimitsCurrent
<1>6. limits \in LimitState
  BY DEF Inv, TypeOK, RiskType
<1>7. limits.monthly >= MaxMonthly /\ limits.weekly >= MaxWeekly
      /\ limits.dailyRealized >= MaxDailyRealized
  BY <1>2, <1>6, BreachMeans, LossesAssumption DEF LimitState
<1>8. /\ RealizedIn("day") = limits.dailyRealized
      /\ RealizedIn("week") = limits.weekly
      /\ RealizedIn("month") = limits.monthly
  BY <1>5 DEF RealizedIn, LimitsOf, Periods
<1> QED BY <1>2, <1>4, <1>7, <1>8

\* Whoever enters is enabled and alive, no gate is shut, and what is realised in this
\* day, week and month is within the hard limits: computed from the book, for every
\* order of decisions and every rejection.
THEOREM EntriesAreGated == Spec => EntryGated
<1>1. Inv /\ GateInv /\ [Next]_vars =>
        [\A s \in Strategies : Opens(s) =>
           /\ s \in Enabled /\ life[s].alive
           /\ ~masked' /\ ~gapHalted /\ ~unknown
           /\ RealizedIn("day") >= MaxDailyRealized
           /\ RealizedIn("week") >= MaxWeekly
           /\ RealizedIn("month") >= MaxMonthly]_vars
  BY EntryKnows
<1>2. Spec => []GateInv
  BY Invariance, GateInit, GateStep, PTL DEF Spec
<1> QED BY <1>1, <1>2, Invariance, PTL DEF Spec, EntryGated

-----------------------------------------------------------------------------
(* How long a position is held *)

YoungBeyond(S) == \A s \in OpenPositions \ S : now - pos[s].since < MaxHold

\* Within a tick the clock has started; only enabled strategies hold positions, with the
\* time they were opened at; Phase 1 has dealt with those it has visited, and the phases
\* after it find no position that is overdue.
HoldInv ==
  /\ pc \in {"weekend", "maxHold", "decide", "execute", "halt"} => now > 0
  /\ OpenPositions \subseteq Enabled
  /\ \A s \in OpenPositions : pos[s].since # 0
  /\ pc = "maxHold" => YoungBeyond(todo)
  /\ pc \in {"decide", "execute", "halt"} => YoungBeyond({})
  /\ NoOverstay

\* A position that is open after a step was open before, since the same time, or
\* the step is its entry.
LEMMA OpenSince ==
  ASSUME Inv, [Next]_vars, NEW s \in Strategies, IsOpen(pos'[s])
  PROVE  \/ IsOpen(pos[s]) /\ pos'[s].since = pos[s].since
         \/ Enter(s) /\ Opens(s) /\ pos'[s].since = now
<1>1. CASE MarketTick
  BY <1>1, TickStep DEF IsOpen
<1>2. ASSUME NEW x \in Strategies, CloseFill(x)
      PROVE  IsOpen(pos[s]) /\ pos'[s].since = pos[s].since
  BY <1>2, CloseFillStep
<1>3. ASSUME NEW x \in Strategies, Enter(x)
      PROVE  \/ IsOpen(pos[s]) /\ pos'[s].since = pos[s].since
             \/ Enter(s) /\ Opens(s) /\ pos'[s].since = now
  BY <1>3, EntryStep DEF Opens
<1>4. CASE NextBatch
  BY <1>4 DEF NextBatch, FlatBook, NoPosition, IsOpen
<1>5. CASE UNCHANGED book
  BY <1>5 DEF book
<1> QED BY <1>1, <1>2, <1>3, <1>4, <1>5, BookSteps

LEMMA YoungKept ==
  ASSUME Inv, [Next]_vars, MaxHold > 0, now' = now, NEW S, YoungBeyond(S)
  PROVE  \A s \in OpenPositions' \ S : now' - pos'[s].since < MaxHold
<1> SUFFICES ASSUME NEW s \in Strategies, s \notin S, IsOpen(pos'[s])
             PROVE  now' - pos'[s].since < MaxHold
  BY DEF OpenPositions
<1>1. CASE IsOpen(pos[s]) /\ pos'[s].since = pos[s].since
  BY <1>1 DEF YoungBeyond, OpenPositions
<1>2. CASE pos'[s].since = now
  <2>1. now - now = 0
    BY DEF Inv, TypeOK, ClockType
  <2> QED BY <1>2, <2>1
<1> QED BY <1>1, <1>2, OpenSince

\* The order of the phases
LEMMA PhaseStep ==
  ASSUME Inv, [Next]_vars
  PROVE  \/ MarketTick \/ CloseMaxHold
         \/ pc' = "ready" /\ (~decoded' \/ tick' = 0)
         \/ pc' \in {"endOfData", "done"}
         \/ pc = "weekend" /\ pc' = "weekend" /\ now' = now
         \/ pc = "weekend" /\ pc' = "maxHold" /\ todo' = Enabled /\ now' = now
         \/ pc = "maxHold" /\ todo = {} /\ pc' = "decide" /\ now' = now
         \/ /\ pc \in {"decide", "execute", "halt"}
            /\ pc' \in {"decide", "execute", "halt", "ready"}
            /\ now' = now
         \/ UNCHANGED vars
<1>1. CASE MarketTick \/ CloseMaxHold
  BY <1>1
<1>2. CASE UndecodableTick \/ NextBatch
  BY <1>2 DEF UndecodableTick, Arrive, NextBatch
<1>3. CASE EndOfData \/ CloseAtEnd \/ Finish
  BY <1>3 DEF EndOfData, CloseAtEnd, Finish
<1>4. CASE CloseAllPositions
  BY <1>4 DEF CloseAllPositions, clock
<1>5. CASE WeekendClosed \/ UpdateRegime
  BY <1>5 DEF WeekendClosed, UpdateRegime, clock
<1>6. CASE HaltClosed \/ TickDone \/ GetStrategyDecision \/ DecisionsMade
  BY <1>6 DEF HaltClosed, TickDone, GetStrategyDecision, DecisionsMade, clock
<1>7. ASSUME NEW s \in Strategies,
             \/ ExecuteClose(s) \/ ExecuteNothing(s) \/ KillSwitchMasked(s)
             \/ HardLimit(s) \/ Refused(s) \/ Enter(s)
      PROVE  pc = "execute" /\ pc' \in {"execute", "halt"} /\ now' = now
  BY <1>7 DEF ExecuteClose, ExecuteNothing, KillSwitchMasked, HardLimit, Refused, Enter,
              Ordered, Executing, Done, clock
<1>8. CASE Finished \/ UNCHANGED vars
  BY <1>8 DEF Finished
<1> QED BY <1>1, <1>2, <1>3, <1>4, <1>5, <1>6, <1>7, <1>8 DEF Next

LEMMA HoldInit == Init => HoldInv
BY DEF Init, HoldInv, NoOverstay, OpenPositions, FlatBook, NoPosition, IsOpen

LEMMA HoldStep ==
  ASSUME FALSE \notin FillOutcomes, MaxHold > 0
  PROVE  Inv /\ GateInv /\ HoldInv /\ [Next]_vars => HoldInv'
<1> SUFFICES ASSUME Inv, GateInv, HoldInv, [Next]_vars PROVE HoldInv'
  OBVIOUS
<1> DEFINE Young(S) == \A s \in OpenPositions' \ S : now' - pos'[s].since < MaxHold
<1>1. /\ OpenPositions' \subseteq Enabled
      /\ \A s \in OpenPositions' : pos'[s].since # 0
  <2> SUFFICES ASSUME NEW s \in Strategies, IsOpen(pos'[s])
               PROVE  s \in Enabled /\ pos'[s].since # 0
    BY DEF OpenPositions
  <2>1. CASE IsOpen(pos[s]) /\ pos'[s].since = pos[s].since
    BY <2>1 DEF HoldInv, OpenPositions
  <2>2. CASE Enter(s) /\ Opens(s) /\ pos'[s].since = now
    <3>1. pc = "execute"
      BY <2>2 DEF Enter, Ordered, Executing
    <3> QED BY <2>2, <3>1, EntryKnows DEF HoldInv
  <2> QED BY <2>1, <2>2, OpenSince
<1>2. CASE MarketTick
  <2>1. now' > 0
    BY <1>2, TickStep
  <2>2. pc' = "weekend" \/ (pc' = "maxHold" /\ todo' = Enabled)
    BY <1>2 DEF MarketTick
  <2> QED BY <1>1, <2>1, <2>2 DEF HoldInv, YoungBeyond, NoOverstay
<1>3. CASE CloseMaxHold
  <2> DEFINE s == First(todo)
  <2>1. /\ pc = "maxHold" /\ pc' = "maxHold" /\ now' = now
        /\ todo' = todo \ {s} /\ s \in todo /\ s \in Strategies
    BY <1>3, FirstIsMember DEF CloseMaxHold, clock, Inv, TypeOK
  <2>2. Young(todo)
    BY <2>1, YoungKept DEF HoldInv
  <2>3. s \in OpenPositions' => now' - pos'[s].since < MaxHold
    <3>1. ASSUME ShouldCloseMaxHold(s), CloseStrategyPosition(s)
          PROVE  ~IsOpen(pos'[s])
      <4>1. CloseFill(s)
        BY <3>1 DEF ShouldCloseMaxHold, CloseStrategyPosition
      <4> HIDE DEF s
      <4> QED BY <2>1, <4>1, CloseFillStep
    <3>2. ASSUME ~ShouldCloseMaxHold(s), UNCHANGED <<book, agent, risk>>, IsOpen(pos[s])
          PROVE  now' - pos'[s].since < MaxHold
      <4>1. pos[s].since # 0
        BY <2>1, <3>2 DEF HoldInv, OpenPositions
      <4>2. now \in Nat /\ pos[s].since \in Nat /\ MaxHold \in Nat
        BY <2>1, EngineAssumption DEF Inv, TypeOK, ClockType, BookType, Position
      <4>3. now - pos[s].since < MaxHold
        BY <3>2, <4>1, <4>2 DEF ShouldCloseMaxHold
      <4> QED BY <2>1, <3>2, <4>3 DEF book
    <3>3. UNCHANGED <<book, agent, risk>> => pos' = pos
      BY DEF book
    <3> QED BY <1>3, <3>1, <3>2, <3>3 DEF CloseMaxHold, OpenPositions
  <2> HIDE DEF s
  <2>4. Young(todo')
    BY <2>1, <2>2, <2>3
  <2> QED BY <1>1, <2>1, <2>4 DEF HoldInv, YoungBeyond, NoOverstay
<1>4. CASE pc' = "ready" /\ (~decoded' \/ tick' = 0)
  BY <1>1, <1>4 DEF HoldInv, NoOverstay
<1>5. CASE pc' \in {"endOfData", "done"}
  BY <1>1, <1>5 DEF HoldInv, NoOverstay
<1>6. CASE pc = "weekend" /\ pc' = "weekend" /\ now' = now
  BY <1>1, <1>6 DEF HoldInv, NoOverstay
<1>7. CASE pc = "weekend" /\ pc' = "maxHold" /\ todo' = Enabled /\ now' = now
  BY <1>1, <1>7 DEF HoldInv, NoOverstay, YoungBeyond
<1>8. CASE pc = "maxHold" /\ todo = {} /\ pc' = "decide" /\ now' = now
  <2>1. Young({})
    BY <1>8, YoungKept DEF HoldInv
  <2> QED BY <1>1, <1>8, <2>1 DEF HoldInv, NoOverstay, YoungBeyond
<1>9. CASE /\ pc \in {"decide", "execute", "halt"}
           /\ pc' \in {"decide", "execute", "halt", "ready"}
           /\ now' = now
  <2>1. Young({})
    BY <1>9, YoungKept DEF HoldInv
  <2> QED BY <1>1, <1>9, <2>1 DEF HoldInv, NoOverstay, YoungBeyond
<1>10. CASE UNCHANGED vars
  BY <1>10 DEF vars, clock, book, HoldInv, NoOverstay, YoungBeyond, OpenPositions
<1> QED
  BY <1>2, <1>3, <1>4, <1>5, <1>6, <1>7, <1>8, <1>9, <1>10, PhaseStep

\* When no close order is rejected and the maximum holding time is not zero, no position
\* outlives it by a tick, through gap halts, unknown regimes, weekends, hard limits and
\* ticks that do not decode.
THEOREM PositionsAreClosedInTime ==
  ASSUME FALSE \notin FillOutcomes, MaxHold > 0
  PROVE  Spec => []NoOverstay
<1>1. HoldInv => NoOverstay
  BY DEF HoldInv
<1>2. Spec => []GateInv
  BY Invariance, GateInit, GateStep, PTL DEF Spec
<1> QED BY <1>1, <1>2, Invariance, HoldInit, HoldStep, PTL DEF Spec

-----------------------------------------------------------------------------
(* How long a hard limit stays broken *)

\* The limits agree with what is realised, up to the key of a period.
RealizedCounted ==
  /\ limits.dailyRealized = totalRealized - tracker["day"].start
  /\ limits.weekly = totalRealized - tracker["week"].start
  /\ limits.monthly = totalRealized - tracker["month"].start

\* One position at most is open, and it is beyond the global limit.
OnePosition ==
  /\ globalPosition = NetSize(pos)
  /\ \A s, x \in OpenPositions : s = x
  /\ \A s \in OpenPositions : Magnitude(pos[s].size) > GlobalLimit

\* A hard limit is broken at the close of that position, or later; the loop over a
\* weekend is the only place where a close is still to be counted.
HaltInv ==
  /\ OnePosition
  /\ totalRealized = NetRealized(pos)
  /\ HardBreach(limits) => OpenPositions = {} /\ \A p \in Periods : tracker[p].key # NoKey
  /\ pc = "halt" => OpenPositions = {}
  /\ RealizedCounted \/ (pc = "weekend" /\ OpenPositions = {} /\ ~HardBreach(limits))

\* The steps of the engine, by what they do to the book and to the limits
LEMMA LimitSteps ==
  ASSUME Inv, [Next]_vars
  PROVE  \/ MarketTick \/ NextBatch
         \/ \E s \in Strategies : Enter(s)
         \/ UNCHANGED book /\ UpdateLimits /\ now' \in Nat /\ pc' \in {"maxHold", "ready"}
         \/ \E s \in Strategies :
              CloseFill(s) /\ UpdateLimits /\ now' \in Nat /\ pc' = pc /\ pc # "halt"
         \/ \E s \in Strategies :
              CloseFill(s) /\ UNCHANGED risk /\ pc' = pc /\ pc \in {"weekend", "halt"}
         \/ /\ UNCHANGED <<book, risk>>
            /\ pc' = "halt" => pc = "halt" \/ HardBreach(limits)
            /\ pc = "weekend" => pc' = "weekend"
<1>0. now \in Nat
  BY DEF Inv, TypeOK, ClockType
<1>1. CASE MarketTick \/ NextBatch
  BY <1>1
<1>2. CASE WeekendClosed \/ HaltClosed
  BY <1>0, <1>2 DEF WeekendClosed, HaltClosed, clock
<1>3. CASE UndecodableTick \/ UpdateRegime \/ GetStrategyDecision
           \/ DecisionsMade \/ TickDone \/ EndOfData \/ Finish
  BY <1>3 DEF UndecodableTick, Arrive, UpdateRegime, GetStrategyDecision, DecisionsMade,
              TickDone, EndOfData, Finish
<1>4. CASE CloseAllPositions
  <2>1. PICK s \in todo : CloseFill(s) \/ UNCHANGED book
    BY <1>4 DEF CloseAllPositions
  <2> QED BY <1>4, <2>1 DEF CloseAllPositions, Inv, TypeOK
<1>5. ASSUME NEW s \in Strategies, CloseStrategyPosition(s), now' = now,
             pc' = pc, pc \in {"maxHold", "execute"}
      PROVE  \/ CloseFill(s) /\ UpdateLimits /\ now' \in Nat /\ pc' = pc /\ pc # "halt"
             \/ UNCHANGED <<book, risk>>
  BY <1>0, <1>5 DEF CloseStrategyPosition
<1>6. CASE CloseMaxHold
  <2>1. First(todo) \in Strategies
    BY <1>6, FirstIsMember DEF Inv, TypeOK, CloseMaxHold
  <2>2. now' = now /\ pc' = pc /\ pc = "maxHold"
    BY <1>6 DEF CloseMaxHold, clock
  <2>3. CloseStrategyPosition(First(todo)) \/ UNCHANGED <<book, risk>>
    BY <1>6 DEF CloseMaxHold
  <2> QED BY <1>5, <2>1, <2>2, <2>3
<1>7. ASSUME NEW s \in Strategies, ExecuteClose(s)
      PROVE  now' = now /\ pc' = pc /\ pc = "execute" /\ CloseStrategyPosition(s)
  BY <1>7 DEF ExecuteClose, Executing, Done, clock
<1>8. ASSUME NEW s \in Strategies,
             ExecuteNothing(s) \/ KillSwitchMasked(s) \/ HardLimit(s) \/ Refused(s)
      PROVE  /\ UNCHANGED <<book, risk>>
             /\ pc' = "halt" => HardBreach(limits)
             /\ pc = "execute"
  BY <1>8 DEF ExecuteNothing, KillSwitchMasked, HardLimit, Refused, Ordered, Executing, Done
<1>9. CASE CloseAtEnd
  <2>1. PICK s \in todo : (CloseFill(s) /\ UpdateLimits) \/ UNCHANGED <<book, risk>>
    BY <1>9 DEF CloseAtEnd
  <2>2. s \in Strategies /\ now' = now /\ pc' = pc /\ pc = "endOfData"
    BY <1>9 DEF CloseAtEnd, clock, Inv, TypeOK
  <2> QED BY <1>0, <2>1, <2>2
<1>10. CASE Finished \/ UNCHANGED vars
  BY <1>10 DEF Finished, vars
<1>11. ASSUME NEW s \in Strategies,
              \/ ExecuteClose(s) \/ ExecuteNothing(s) \/ KillSwitchMasked(s)
              \/ HardLimit(s) \/ Refused(s)
       PROVE  \/ CloseFill(s) /\ UpdateLimits /\ now' \in Nat /\ pc' = pc /\ pc # "halt"
              \/ /\ UNCHANGED <<book, risk>>
                 /\ pc' = "halt" => pc = "halt" \/ HardBreach(limits)
                 /\ pc = "weekend" => pc' = "weekend"
  BY <1>5, <1>7, <1>8, <1>11
<1> QED BY <1>1, <1>2, <1>3, <1>4, <1>6, <1>9, <1>10, <1>11 DEF Next

LEMMA UpdateCounts ==
  ASSUME UpdateLimits, now' \in Nat
  PROVE  /\ RealizedCounted'
         /\ \A p \in Periods : tracker'[p].key # NoKey
<1>1. RealizedCounted'
  BY DEF UpdateLimits, LimitsOf, RealizedCounted
<1>2. \A p \in Periods : tracker'[p].key = PeriodKey(p, now')
  BY UpdateMakesCurrent
<1> QED BY <1>1, <1>2, PeriodKeyType

\* When nothing is realised, an update breaks no limit, and mends none but with a new
\* period.
LEMMA UpdateKeeps ==
  ASSUME Inv, RealizedCounted, UpdateLimits, now' \in Nat, totalRealized' = totalRealized,
         totalUnrealized' \in Int,
         MaxDailyRealized <= 0, MaxWeekly <= 0, MaxMonthly <= 0
  PROVE  /\ HardBreach(limits') => HardBreach(limits)
         /\ (\A p \in Periods : tracker'[p].key = tracker[p].key)
              => (HardBreach(limits) => HardBreach(limits'))
<1>1. /\ limits \in LimitState /\ totalRealized \in Int
      /\ \A p \in Periods : tracker[p].start \in Int
  BY DEF Inv, TypeOK, RiskType, BookType, Period
<1>2. tracker' \in [Periods -> Period] /\ limits' \in LimitState
  BY UpdateLimitsType, <1>1 DEF Inv, TypeOK, RiskType
<1>3. ASSUME NEW p \in Periods
      PROVE  \/ tracker'[p] = tracker[p]
             \/ tracker'[p].start = totalRealized /\ tracker'[p].key # tracker[p].key
  BY DEF UpdateLimits, Roll
<1> DEFINE Loss(p)  == totalRealized - tracker[p].start
           After(p) == totalRealized - tracker'[p].start
<1>4. /\ limits.dailyRealized = Loss("day") /\ limits.weekly = Loss("week")
      /\ limits.monthly = Loss("month")
      /\ limits'.dailyRealized = After("day") /\ limits'.weekly = After("week")
      /\ limits'.monthly = After("month")
  BY UpdateCounts DEF RealizedCounted
<1>5. ASSUME NEW p \in Periods
      PROVE  /\ Loss(p) \in Int
             /\ After(p) \in {Loss(p), 0}
             /\ tracker'[p].key = tracker[p].key => After(p) = Loss(p)
  BY <1>1, <1>3, <1>5
<1>6. "day" \in Periods /\ "week" \in Periods /\ "month" \in Periods
  BY DEF Periods
<1> HIDE DEF Loss, After
<1>7. HardBreach(limits) <=> \/ Loss("month") < MaxMonthly \/ Loss("week") < MaxWeekly
                             \/ Loss("day") < MaxDailyRealized
  BY <1>1, <1>4, BreachMeans
<1>8. HardBreach(limits') <=> \/ After("month") < MaxMonthly \/ After("week") < MaxWeekly
                              \/ After("day") < MaxDailyRealized
  BY <1>2, <1>4, BreachMeans
<1>9. HardBreach(limits') => HardBreach(limits)
  BY <1>5, <1>6, <1>7, <1>8, LossesAssumption
<1>10. ASSUME \A p \in Periods : tracker'[p].key = tracker[p].key
       PROVE  HardBreach(limits) => HardBreach(limits')
  BY <1>5, <1>6, <1>7, <1>8, <1>10
<1> QED BY <1>9, <1>10

\* With no position open, the net size is nothing; with one, it is its size.
LEMMA NetOfOne ==
  ASSUME BookType, \A s, x \in OpenPositions : s = x, NEW s \in Strategies,
         OpenPositions \subseteq {s}
  PROVE  NetSize(pos) = pos[s].size
<1>1. \A x \in Strategies : x # s => pos[x].size = 0
  BY DEF OpenPositions, IsOpen
<1>2. pos[s].size \in Int
  BY DEF BookType, Position
<1> QED BY <1>1, <1>2 DEF NetSize, Strategies

\* A close order for no position changes none.
LEMMA FlatCloseIsNothing ==
  ASSUME Inv, NEW s \in Strategies, CloseFill(s), s \notin OpenPositions
  PROVE  pos' = pos
<1>1. PICK slip \in Slippages : ProcessExecutionResult(s, -pos[s].size, mid + slip)
  BY DEF CloseFill
<1>2. -pos[s].size = 0
  BY DEF OpenPositions, IsOpen
<1>3. UpdatePositionFromFill(pos[s], -pos[s].size, mid + slip, now) = pos[s]
  BY <1>2 DEF UpdatePositionFromFill
<1> QED BY <1>1, <1>3 DEF ProcessExecutionResult, Inv, TypeOK, BookType

LEMMA CloseFillBook ==
  ASSUME Inv, OnePosition, NEW s \in Strategies, CloseFill(s)
  PROVE  /\ OnePosition'
         /\ totalRealized' = NetRealized(pos')
         /\ totalUnrealized' \in Int
         /\ OpenPositions' = {} \/ pos' = pos
<1>1. PICK slip \in Slippages : ProcessExecutionResult(s, -pos[s].size, mid + slip)
  BY DEF CloseFill
<1>2. /\ OpenPositions' = OpenPositions \ {s}
      /\ \A x \in Strategies \ {s} : pos'[x] = pos[x]
  BY CloseFillStep
<1>3. globalPosition' = NetSize(pos') /\ totalRealized' = NetRealized(pos')
      /\ totalUnrealized' = totalUnrealized
  BY <1>1 DEF ProcessExecutionResult
<1>4. CASE s \in OpenPositions
  <2>1. OpenPositions' = {}
    BY <1>2, <1>4 DEF OnePosition
  <2> QED BY <1>3, <2>1 DEF OnePosition, Inv, TypeOK, BookType
<1>5. CASE s \notin OpenPositions
  <2>3. pos' = pos
    BY <1>5, FlatCloseIsNothing
  <2> QED BY <1>3, <2>3 DEF OnePosition, OpenPositions, Inv, TypeOK, BookType
<1> QED BY <1>4, <1>5

\* An entry finds the book flat, and its position leaves no room for a second one.
LEMMA EntryBook ==
  ASSUME Inv, OnePosition, totalRealized = NetRealized(pos), NEW s \in Strategies, Enter(s),
         GlobalLimit < Least(LotSize \div MtmDivisor, BarrierLot)
  PROVE  /\ OpenPositions = {}
         /\ OnePosition'
         /\ totalRealized' = NetRealized(pos') /\ totalRealized' = totalRealized
         /\ totalUnrealized' \in Int
<1> DEFINE delta == decision[s].side * LotSize
           size  == decision[s].side * Lots(s)
<1>1. /\ Lots(s) \in Int /\ Lots(s) > 0 /\ decision[s].side \in {-1, 1}
      /\ pos'[s].size = size
      /\ pos'[s].realized = pos[s].realized
      /\ \A x \in Strategies \ {s} : pos'[x] = pos[x]
      /\ OpenPositions' = OpenPositions \cup {s}
  BY EntryStep
<1>2. /\ GlobalCheckPasses(globalPosition, delta, Rank(s))
      /\ globalPosition' = NetSize(pos') /\ totalRealized' = NetRealized(pos')
      /\ totalUnrealized' = totalUnrealized
  BY DEF Enter, RiskPassed, ProcessExecutionResult
<1>3. BookType /\ globalPosition \in Int /\ totalUnrealized \in Int
  BY DEF Inv, TypeOK, BookType
<1>4. OpenPositions = {}
  <2> SUFFICES ASSUME NEW x \in OpenPositions PROVE FALSE
    OBVIOUS
  <2>1. globalPosition = pos[x].size
    BY <1>3, NetOfOne DEF OnePosition, OpenPositions
  <2>2. Magnitude(globalPosition) > GlobalLimit
    BY <2>1 DEF OnePosition
  <2> QED BY <1>2, <1>3, <2>2, NoRoomBeyondLimit
<1>5. globalPosition = 0
  <2>1. globalPosition = pos[s].size
    BY <1>3, <1>4, NetOfOne DEF OnePosition
  <2> QED BY <1>4, <2>1 DEF OpenPositions, IsOpen
<1>6. delta \in Int /\ delta # 0
  BY <1>1, SizesAssumption
<1>7. GlobalLimit > 0
  <2> HIDE DEF delta
  <2> QED BY <1>2, <1>5, <1>6, PassingNeedsLimit
<1>8. Lots(s) > GlobalLimit
  <2> DEFINE first == Least(LotSize \div MtmDivisor, BarrierLot)
  <2>1. Lots(s) >= first
    BY <1>5, <1>7, FirstLots DEF Lots, Inv, TypeOK, RiskType
  <2>2. LotSize \div MtmDivisor \in Int
    BY SizesAssumption
  <2>3. first \in Int /\ first > GlobalLimit
    BY <2>2, SizesAssumption DEF Least
  <2> HIDE DEF first
  <2> QED BY <1>1, <2>1, <2>3, SizesAssumption
<1>9. Magnitude(pos'[s].size) > GlobalLimit
  <2> DEFINE lots == Lots(s)
  <2>1. pos'[s].size = lots \/ pos'[s].size = -lots
    <3> HIDE DEF lots
    <3>1. decision[s].side * lots \in {lots, -lots}
      BY <1>1 DEF lots
    <3> QED BY <1>1, <3>1 DEF lots
  <2> HIDE DEF lots
  <2> QED BY <1>1, <1>8, <2>1 DEF Magnitude, lots
<1>10. NetRealized(pos') = NetRealized(pos)
  BY <1>1 DEF NetRealized, Strategies
<1>11. OpenPositions' = {s}
  BY <1>1, <1>4
<1> HIDE DEF delta, size
<1> QED BY <1>2, <1>3, <1>4, <1>9, <1>10, <1>11 DEF OnePosition

LEMMA HaltInit ==
  ASSUME MaxDailyRealized <= 0, MaxWeekly <= 0, MaxMonthly <= 0
  PROVE  Init => HaltInv
<1> SUFFICES ASSUME Init PROVE HaltInv
  OBVIOUS
<1>1. OpenPositions = {} /\ NetSize(pos) = 0 /\ NetRealized(pos) = 0
  BY DEF Init, OpenPositions, FlatBook, NoPosition, IsOpen, NetSize, NetRealized, Strategies
<1>2. ~HardBreach(limits)
  <2>1. NoLosses \in LimitState
    BY DEF NoLosses, LimitState
  <2> QED BY <2>1, BreachMeans, LossesAssumption DEF Init, NoLosses
<1>3. RealizedCounted
  BY DEF Init, RealizedCounted, NoLosses, FreshTracker, Periods
<1> QED BY <1>1, <1>2, <1>3 DEF Init, HaltInv, OnePosition

LEMMA HaltStep ==
  ASSUME MaxDailyRealized <= 0, MaxWeekly <= 0, MaxMonthly <= 0,
         GlobalLimit < Least(LotSize \div MtmDivisor, BarrierLot)
  PROVE  Inv /\ HaltInv /\ [Next]_vars =>
           /\ HaltInv'
           /\ (\A p \in Periods : tracker'[p].key = tracker[p].key)
                => (HardBreach(limits) => HardBreach(limits'))
<1> SUFFICES ASSUME Inv, HaltInv, [Next]_vars
             PROVE  /\ HaltInv'
                    /\ (\A p \in Periods : tracker'[p].key = tracker[p].key)
                         => (HardBreach(limits) => HardBreach(limits'))
  OBVIOUS
<1>0. TypeOK'
  BY NextInv DEF Inv
<1>1. CASE MarketTick
  <2>1. /\ UpdateLimits /\ now' \in Nat /\ totalUnrealized' \in Int
        /\ UNCHANGED <<globalPosition, totalRealized>>
        /\ pc \notin {"weekend", "halt"} /\ pc' # "halt"
    BY <1>0, <1>1 DEF MarketTick, Arrive, TypeOK, ClockType, BookType
  <2>2. /\ \A s \in Strategies : pos'[s].size = pos[s].size /\ pos'[s].realized = pos[s].realized
        /\ OpenPositions' = OpenPositions
    BY <1>1, TickStep
  <2>3. NetSize(pos') = NetSize(pos) /\ NetRealized(pos') = NetRealized(pos)
    BY <2>2 DEF NetSize, NetRealized, Strategies
  <2>4. OnePosition'
    BY <2>1, <2>2, <2>3 DEF HaltInv, OnePosition, OpenPositions
  <2>5. RealizedCounted
    BY <2>1 DEF HaltInv
  <2>6. /\ HardBreach(limits') => HardBreach(limits)
        /\ (\A p \in Periods : tracker'[p].key = tracker[p].key)
              => (HardBreach(limits) => HardBreach(limits'))
    BY <2>1, <2>5, UpdateKeeps
  <2>7. RealizedCounted' /\ \A p \in Periods : tracker'[p].key # NoKey
    BY <2>1, UpdateCounts
  <2> QED BY <2>1, <2>2, <2>3, <2>4, <2>6, <2>7 DEF HaltInv
<1>2. CASE NextBatch
  <2>1. OpenPositions' = {} /\ globalPosition' = NetSize(pos') /\ totalRealized' = NetRealized(pos')
    BY <1>2 DEF NextBatch, OpenPositions, FlatBook, NoPosition, IsOpen, NetSize, NetRealized,
                Strategies
  <2>2. limits' = NoLosses /\ tracker' = FreshTracker /\ totalRealized' = 0 /\ pc' = "ready"
    BY <1>2 DEF NextBatch
  <2>3. ~HardBreach(limits')
    <3>1. NoLosses \in LimitState
      BY DEF NoLosses, LimitState
    <3> QED BY <2>2, <3>1, BreachMeans, LossesAssumption DEF NoLosses
  <2>4. RealizedCounted'
    BY <2>2 DEF RealizedCounted, NoLosses, FreshTracker, Periods
  <2>5. \A p \in Periods : tracker'[p].key = NoKey
    BY <2>2 DEF FreshTracker
  <2>6. HaltInv'
    BY <2>1, <2>2, <2>3, <2>4 DEF HaltInv, OnePosition
  <2> QED BY <2>5, <2>6 DEF HaltInv, Periods
<1>3. ASSUME NEW s \in Strategies, Enter(s)
      PROVE  /\ HaltInv'
             /\ (\A p \in Periods : tracker'[p].key = tracker[p].key)
                  => (HardBreach(limits) => HardBreach(limits'))
  <2>1. /\ OnePosition' /\ totalRealized' = NetRealized(pos')
        /\ totalRealized' = totalRealized /\ totalUnrealized' \in Int
    BY <1>3, EntryBook DEF HaltInv
  <2>2. /\ UpdateLimits /\ ~HardBreach(limits) /\ pc = "execute" /\ pc' = pc
    BY <1>3 DEF Enter, RiskPassed, Ordered, Executing, Done
  <2>3. now' \in Nat
    BY <1>0 DEF TypeOK, ClockType
  <2>4. RealizedCounted
    BY <2>2 DEF HaltInv
  <2>5. ~HardBreach(limits')
    BY <2>1, <2>2, <2>3, <2>4, UpdateKeeps
  <2>6. RealizedCounted'
    BY <2>2, <2>3, UpdateCounts
  <2> QED BY <2>1, <2>2, <2>5, <2>6 DEF HaltInv
<1>4. CASE UNCHANGED book /\ UpdateLimits /\ now' \in Nat /\ pc' \in {"maxHold", "ready"}
  <2>1. /\ pos' = pos /\ globalPosition' = globalPosition /\ totalRealized' = totalRealized
        /\ totalUnrealized' \in Int
    BY <1>0, <1>4 DEF book, TypeOK, BookType
  <2>2. OnePosition' /\ OpenPositions' = OpenPositions
    BY <2>1 DEF HaltInv, OnePosition, OpenPositions
  <2>3. RealizedCounted' /\ \A p \in Periods : tracker'[p].key # NoKey
    BY <1>4, UpdateCounts
  <2>4. CASE RealizedCounted
    <3>1. /\ HardBreach(limits') => HardBreach(limits)
          /\ (\A p \in Periods : tracker'[p].key = tracker[p].key)
                => (HardBreach(limits) => HardBreach(limits'))
      BY <1>4, <2>1, <2>4, UpdateKeeps
    <3> QED BY <1>4, <2>1, <2>2, <2>3, <3>1 DEF HaltInv
  <2>5. CASE OpenPositions = {} /\ ~HardBreach(limits)
    BY <1>4, <2>1, <2>2, <2>3, <2>5 DEF HaltInv
  <2> QED BY <2>4, <2>5 DEF HaltInv
<1>5. ASSUME NEW s \in Strategies, CloseFill(s), UpdateLimits, now' \in Nat, pc' = pc,
             pc # "halt"
      PROVE  /\ HaltInv'
             /\ (\A p \in Periods : tracker'[p].key = tracker[p].key)
                  => (HardBreach(limits) => HardBreach(limits'))
  <2>1. /\ OnePosition' /\ totalRealized' = NetRealized(pos') /\ totalUnrealized' \in Int
        /\ OpenPositions' = {} \/ pos' = pos
    BY <1>5, CloseFillBook DEF HaltInv
  <2>2. RealizedCounted' /\ \A p \in Periods : tracker'[p].key # NoKey
    BY <1>5, UpdateCounts
  <2>3. ASSUME pos' = pos
        PROVE  /\ OpenPositions' = OpenPositions /\ totalRealized' = totalRealized
    BY <2>1, <2>3 DEF HaltInv, OpenPositions
  <2>4. ASSUME pos' = pos, RealizedCounted
        PROVE  /\ HardBreach(limits') => HardBreach(limits)
               /\ (\A p \in Periods : tracker'[p].key = tracker[p].key)
                     => (HardBreach(limits) => HardBreach(limits'))
    BY <1>5, <2>1, <2>3, <2>4, UpdateKeeps
  <2>5. HardBreach(limits') => OpenPositions' = {}
    BY <2>1, <2>3, <2>4 DEF HaltInv
  <2>6. HardBreach(limits) => pos' = pos /\ RealizedCounted
    <3> SUFFICES ASSUME HardBreach(limits) PROVE pos' = pos
      BY DEF HaltInv
    <3>1. OpenPositions = {}
      BY DEF HaltInv
    <3> QED BY <1>5, <3>1, FlatCloseIsNothing
  <2> QED BY <1>5, <2>1, <2>2, <2>4, <2>5, <2>6 DEF HaltInv
<1>6. ASSUME NEW s \in Strategies, CloseFill(s), UNCHANGED risk, pc' = pc,
             pc \in {"weekend", "halt"}
      PROVE  /\ HaltInv'
             /\ (\A p \in Periods : tracker'[p].key = tracker[p].key)
                  => (HardBreach(limits) => HardBreach(limits'))
  <2>1. /\ OnePosition' /\ totalRealized' = NetRealized(pos')
        /\ limits' = limits /\ tracker' = tracker
        /\ OpenPositions' = {} \/ pos' = pos
    BY <1>6, CloseFillBook DEF HaltInv, risk
  <2>2. CASE pos' = pos
    <3>1. OpenPositions' = OpenPositions /\ totalRealized' = totalRealized
      BY <2>1, <2>2 DEF HaltInv, OpenPositions
    <3> QED BY <1>6, <2>1, <3>1 DEF HaltInv, RealizedCounted
  <2>3. CASE pos' # pos
    <3>1. OpenPositions # {}
      BY <1>6, <2>3, FlatCloseIsNothing
    <3>2. pc = "weekend" /\ ~HardBreach(limits)
      BY <1>6, <3>1 DEF HaltInv
    <3> QED BY <1>6, <2>1, <2>3, <3>2 DEF HaltInv
  <2> QED BY <2>2, <2>3
<1>7. CASE /\ UNCHANGED <<book, risk>>
           /\ pc' = "halt" => pc = "halt" \/ HardBreach(limits)
           /\ pc = "weekend" => pc' = "weekend"
  <2>1. UNCHANGED <<pos, globalPosition, totalRealized, limits, tracker>>
    BY <1>7 DEF book, risk
  <2>2. OpenPositions' = OpenPositions /\ OnePosition'
    BY <2>1 DEF HaltInv, OnePosition, OpenPositions
  <2> QED BY <1>7, <2>1, <2>2 DEF HaltInv, RealizedCounted
<1> QED BY <1>1, <1>2, <1>3, <1>4, <1>5, <1>6, <1>7, LimitSteps

\* When the limits are losses, and a lot, reduced for the daily MTM stage, is more than
\* the global limit (25000 and 10 by default), one position at most is open, a limit is
\* broken only by its close, and stays broken as long as day, week and month do.
THEOREM HardHaltsHold ==
  ASSUME MaxDailyRealized <= 0, MaxWeekly <= 0, MaxMonthly <= 0,
         GlobalLimit < Least(LotSize \div MtmDivisor, BarrierLot)
  PROVE  Spec => HardHaltHolds
<1>1. Inv /\ HaltInv /\ [Next]_vars =>
        [(/\ HardBreach(limits)
          /\ \A p \in Periods : tracker'[p].key = tracker[p].key)
           => HardBreach(limits')]_vars
  BY HaltStep
<1>2. Inv /\ HaltInv /\ [Next]_vars => HaltInv'
  BY HaltStep
<1>3. Init => HaltInv
  BY HaltInit
<1>4. Spec => []HaltInv
  BY <1>2, <1>3, Invariance, PTL DEF Spec
<1> QED BY <1>1, <1>4, Invariance, PTL DEF Spec, HardHaltHolds
=============================================================================
