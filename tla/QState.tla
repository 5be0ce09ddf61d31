------------------------------- MODULE QState -------------------------------
(***************************************************************************)
(* The learned state on disk (strategy/q_state.rs) and the engine's export  *)
(* and import of it (backtest/engine.rs).                                   *)
(***************************************************************************)
EXTENDS QFunction, FiniteSets

StrategyId == {"A", "B", "C"}

SchemaVersion == 1

\* BayesianLinearRegressionSnapshot::sanitize: three of the scalars are kept positive.
SanitizedModel(s) ==
  [s EXCEPT !.sigma2 = MaxFrac(SanitizedF(@), SigmaFloor), !.ema = MaxFrac(SanitizedF(@), SigmaFloor),
            !.lambdaReg = MaxFrac(SanitizedF(@), SigmaFloor), !.emaAlpha = SanitizedF(@),
            !.prevNorm2 = SanitizedF(@), !.threshold = SanitizedF(@)]

\* strategy_sort_key
SortKey(sid) == CHOOSE i \in 1 .. 3 : <<"A", "B", "C">>[i] = sid

\* A list in the order of the keys, where equal ones stay as they are (sort_by_key)
SortedByKey(list) ==
  LET Before(i, j) == \/ SortKey(list[i].id) < SortKey(list[j].id)
                      \/ SortKey(list[i].id) = SortKey(list[j].id) /\ i < j
      place == CHOOSE p \in [DOMAIN list -> DOMAIN list] :
                 \A i, j \in DOMAIN list : i < j => Before(p[i], p[j])
  IN [i \in DOMAIN list |-> list[place[i]]]

\* StrategySetQStateSnapshot::new, from a list in any order
SnapshotSet(list) ==
  [version |-> SchemaVersion, features |-> "v1_38", strategies |-> SortedByKey(list)]

\* The loop of StrategySetQStateSnapshot::sanitize: a strategy, and each action of it
SanitizedStrategy(s) ==
  [s EXCEPT !.q.actions = {[e EXCEPT !.model = SanitizedModel(@)] : e \in @}]

SanitizedSet(set) ==
  [set EXCEPT !.strategies = [i \in DOMAIN @ |-> SanitizedStrategy(@[i])]]

\* strategy: the first of the list
EntriesOf(set, sid) == {i \in DOMAIN set.strategies : set.strategies[i].id = sid}
StrategyOf(set, sid) == set.strategies[Min(EntriesOf(set, sid))]

-----------------------------------------------------------------------------
(* Files *)

\* QStateFileFormat::from_path, by the extension; none is JSON, and others are refused.
Format(extension) ==
  CASE extension \in {"none", "json"} -> {"Json"}
    [] extension \in {"bin", "bincode"} -> {"Binary"}
    [] OTHER -> {}

\* What write_to_path leaves: the sanitized set, unless the extension or the disk refuses
Written(set, extension, diskOk) ==
  IF Format(extension) # {} /\ diskOk
    THEN {[format |-> CHOOSE f \in Format(extension) : TRUE, set |-> SanitizedSet(set)]}
    ELSE {}

\* What read_from_path returns: nothing from a file of another format, or one that is not there
ReadBack(files, extension) == {f.set : f \in {g \in files : g.format \in Format(extension)}}

-----------------------------------------------------------------------------
(* BacktestEngine::export_q_state and import_q_state *)

ExportedQ(qs) ==
  SnapshotSet([i \in 1 .. 3 |-> LET sid == <<"A", "B", "C">>[i]
                                IN [id |-> sid, q |-> SnapshotQ(qs[sid])]])

\* The checks that come before anything is restored
WellFormed(set) ==
  /\ set.version = SchemaVersion
  /\ set.features = "v1_38"
  /\ Len(set.strategies) = 3
  /\ \A sid \in StrategyId : Cardinality(EntriesOf(set, sid)) <= 1

\* restore_q_function
Restorable(set, sid) ==
  /\ EntriesOf(set, sid) # {}
  /\ StrategyOf(set, sid).q.dim = Dim
  /\ AcceptedQ(StrategyOf(set, sid).q)

\* The strategies that are restored: A, B and C in turn, up to the first that cannot be
RestoredIds(set) ==
  {sid \in StrategyId : \A t \in StrategyId : SortKey(t) <= SortKey(sid) => Restorable(set, t)}

\* Fault: every strategy is given what is stored for A.
ImportedFromA(qs, set) ==
  IF ~WellFormed(set) THEN qs
  ELSE [sid \in StrategyId |-> IF sid \in RestoredIds(set)
                                 THEN RestoredQ(StrategyOf(set, "A").q) ELSE qs[sid]]

\* import_q_state: what it restored before it failed stays.
Imported(qs, set) ==
  IF ~WellFormed(set) THEN qs
  ELSE [sid \in StrategyId |-> IF sid \in RestoredIds(set)
                                 THEN RestoredQ(StrategyOf(set, sid).q) ELSE qs[sid]]

ImportOk(set) == WellFormed(set) /\ RestoredIds(set) = StrategyId
=============================================================================
