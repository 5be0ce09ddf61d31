----------------------------- MODULE CommandLine -----------------------------
(***************************************************************************)
(* fx-cli: its arguments (cli/args.rs), the configuration file of a         *)
(* backtest (cli/config.rs), the three commands (cli/main.rs) and the files  *)
(* they write (cli/output.rs).  The engine, the forward runner and the       *)
(* Python pipeline are called and not modelled here: BacktestEngine,         *)
(* ForwardRunner and Learning do that for the first two.                     *)
(*                                                                         *)
(* A command takes its stages one by one.  Any stage may return an error,    *)
(* and the process may be killed; a file is truncated before it is written.  *)
(***************************************************************************)
EXTENDS Integers, Sequences, SequencesExt, FiniteSets

CONSTANTS Word32, Word64,            \* 2^32 and 2^64: casts of negative integers wrap
          Requests,                  \* the commands a user may give
          MaxRuns                    \* bound: commands

\* The subcommands of the parser
ASSUME CommandAssumption ==
  \A r \in Requests : r.command \in {"backtest", "forward-test", "validate"}

-----------------------------------------------------------------------------
(* The configuration file.  A table is a function from keys to values, and a value is   *)
(* its TOML type and what it is; kinds names, for the keys of a table, the helper that  *)
(* reads them.                                                                          *)

Floats(keys)    == [k \in keys |-> "f64"]
Unsigned(keys)  == [k \in keys |-> "u64"]

TopKinds ==
  Floats({"global_position_limit", "replay_speed"})
    @@ Unsigned({"default_lot_size", "start_time_ns", "end_time_ns", "rng_seed"})
    @@ [k \in {"learning_enabled"} |-> "bool"] @@ [k \in {"symbol"} |-> "str"]

\* What the three strategies have in common
LearningKinds ==
  Floats({"regime_kl_threshold", "lambda_reg", "initial_sigma2", "optimistic_bias",
          "non_model_uncertainty_k", "latency_penalty_k", "min_trade_frequency",
          "hold_degeneration_inflation", "inflation_decay_rate", "consistency_threshold"})
    @@ Unsigned({"max_hold_time_ms", "halflife", "trade_frequency_window", "max_lot_size",
                 "min_lot_size", "default_lot_size"})

StrategyAKinds ==
  LearningKinds @@ Floats({"spread_z_threshold", "depth_drop_threshold", "vol_spike_threshold",
                           "decay_rate_a"})
StrategyBKinds ==
  LearningKinds @@ Floats({"vol_spike_threshold", "vol_decaying_threshold",
                           "obi_alignment_threshold", "decay_rate_b"})
StrategyCKinds ==
  LearningKinds @@ Floats({"session_active_threshold", "obi_significance_threshold",
                           "max_session_open_ms", "decay_rate_c"})

RewardKinds == Floats({"lambda_risk", "lambda_dd", "dd_cap", "gamma"})

RiskLimitKinds ==
  Floats({"max_daily_loss_mtm", "max_daily_loss_realized", "max_weekly_loss", "max_monthly_loss",
          "daily_mtm_lot_fraction", "daily_mtm_q_threshold"})

BarrierKinds ==
  Floats({"warning_threshold_ratio", "min_lot_multiplier"})
    @@ Unsigned({"staleness_threshold_ms", "default_lot_size", "max_lot_size", "min_lot_size"})

KillSwitchKinds ==
  Floats({"z_score_threshold"}) @@ [k \in {"enabled"} |-> "bool"]
    @@ Unsigned({"min_samples", "max_history", "mask_duration_ms"})

LifecycleKinds ==
  Floats({"death_sharpe_threshold", "sharpe_annualization_factor",
          "unknown_regime_sharpe_multiplier"})
    @@ Unsigned({"rolling_window", "min_episodes_for_eval"})
    @@ [k \in {"consecutive_death_windows"} |-> "u32"]
    @@ [k \in {"strict_unknown_regime", "auto_close_culled_positions"} |-> "bool"]

RegimeKinds ==
  Floats({"unknown_regime_entropy_threshold", "regime_ar_coeff"})
    @@ Unsigned({"n_regimes", "feature_dim"}) @@ [k \in {"model_path"} |-> "str"]

ExtractorKinds ==
  Floats({"default_decay_rate", "typical_lot_size", "max_hold_time_ms"})
    @@ Unsigned({"spread_window", "obi_window", "vol_window", "vol_long_window",
                 "trade_intensity_window_ns", "execution_lag_ns"})

GlobalKinds ==
  Floats({"correlation_factor", "floor_correlation", "lot_unit_size", "min_lot_size"})

\* The sections, by their paths
Sections ==
  "top" :> TopKinds @@ "strategy_a" :> StrategyAKinds @@ "strategy_b" :> StrategyBKinds
    @@ "strategy_c" :> StrategyCKinds @@ "mc_eval.reward" :> RewardKinds
    @@ "risk_limits" :> RiskLimitKinds @@ "barrier" :> BarrierKinds
    @@ "kill_switch" :> KillSwitchKinds @@ "lifecycle" :> LifecycleKinds
    @@ "regime" :> RegimeKinds @@ "feature_extractor" :> ExtractorKinds
    @@ "global_position" :> GlobalKinds

\* The TOML type a helper asks for: a number without a point is no float.
TomlType(kind) ==
  CASE kind = "f64" -> "float" [] kind \in {"u64", "u32"} -> "integer"
    [] kind = "bool" -> "boolean" [] kind = "str" -> "string"

Cast(kind, v) ==
  CASE kind = "u64" -> v % Word64 [] kind = "u32" -> v % Word32 [] OTHER -> v

\* A key that is unknown, or a value of another type, is passed over.
Given(kinds, table) ==
  {k \in DOMAIN kinds \cap DOMAIN table : table[k].type = TomlType(kinds[k])}

Section(kinds, table, default) ==
  [k \in DOMAIN default |-> IF k \in Given(kinds, table) THEN Cast(kinds[k], table[k].value)
                            ELSE default[k]]

\* One limit given replaces those of all three strategies.
MaxPositions(table, default) ==
  LET given == {s \in {"A", "B", "C"} \cap DOMAIN table : table[s].type = "float"}
  IN IF given = {} THEN default ELSE [s \in given |-> table[s].value]

\* load_backtest_config, of a file that is there and parses
LoadedConfig(file, default) ==
  [s \in DOMAIN default |->
     IF s \notin DOMAIN file THEN default[s]
     ELSE IF s = "strategy_max_positions" THEN MaxPositions(file[s], default[s])
     ELSE Section(Sections[s], file[s], default[s])]

-----------------------------------------------------------------------------
(* Arguments: an option is none, or the set of its value *)

Upper(name) ==
  CASE name = "a" -> "A" [] name = "b" -> "B" [] name = "c" -> "C" [] OTHER -> name

\* parse_strategies and parse_forward_strategies, of the parts between commas: an empty
\* text is one part, that no strategy has for its name.
ParseStrategies(parts) ==
  LET names == {Upper(parts[i]) : i \in DOMAIN parts}
  IN IF names \subseteq {"A", "B", "C"} /\ names # {} THEN {names} ELSE {}

\* parse_cli_time: digits are nanoseconds; a date before 1970 is refused.
ParseTime(option) ==
  CASE option = {} -> {{}}
    [] OTHER -> LET raw == CHOOSE r \in option : TRUE
                IN CASE raw.kind = "digits" /\ raw.value < Word64 -> {{raw.value}}
                     [] raw.kind = "rfc3339" /\ raw.value >= 0 -> {{raw.value}}
                     [] OTHER -> {}

\* resolve_cli_time_range: none for an error
TimeRange(start, end) ==
  {[start |-> s, end |-> e] : s \in ParseTime(start), e \in {x \in ParseTime(end) :
     \A s \in ParseTime(start) : \A a \in s : \A b \in x : a <= b}}

\* apply_backtest_overrides and apply_backtest_seed_override: the configurations, one or none
Overridden(config, args) ==
  LET Or(option, v) == IF option = {} THEN v ELSE CHOOSE x \in option : TRUE
      chosen == IF args.strategies = {} THEN {config.strategies}
                ELSE ParseStrategies(CHOOSE p \in args.strategies : TRUE)
  IN {[config EXCEPT !.strategies = names, !.start = Or(range.start, @), !.end = Or(range.end, @),
                     !.learning = @ /\ ~args.noLearn, !.seed = Or(args.seed, @)] :
        names \in chosen, range \in TimeRange(args.start, args.end)}

\* The data source of run_forward_test: that of the configuration, or what the options name
Source(config, args) ==
  CASE args.source = {} -> {config.source}
    [] args.source = {"recorded"} /\ args.dataPath # {} ->
         {[kind |-> "Recorded", path |-> CHOOSE p \in args.dataPath : TRUE]}
    [] args.source = {"external"} /\ args.provider # {} /\ args.credentials # {} ->
         {[kind |-> "ExternalApi", path |-> CHOOSE p \in args.credentials : TRUE]}
    [] OTHER -> {}

-----------------------------------------------------------------------------
(* What a result says (cli/output.rs).  Reasons are numbers, in the order of their names. *)

\* The counts of the reasons, the most frequent first
ReasonCounts(decisions) ==
  LET reasons == {d.reason : d \in {decisions[i] : i \in DOMAIN decisions}}
      Count(r) == Cardinality({i \in DOMAIN decisions : decisions[i].reason = r})
      counted == {[reason |-> CHOOSE x \in r : TRUE, count |-> Count(r)] : r \in reasons \ {{}}}
  IN SetToSortSeq(counted, LAMBDA a, b : a.count > b.count
                                         \/ (a.count = b.count /\ a.reason < b.reason))

\* backtest_decision_diagnostics: an entry is attempted when a decision has a direction, and
\* counts as filled when nothing skipped it.
Diagnostics(decisions, trades) ==
  LET Count(Has(_)) == Cardinality({i \in DOMAIN decisions : Has(decisions[i])})
      OfStrategy(s) == ReasonCounts(SelectSeq(decisions, LAMBDA d : d.strategy = s))
  IN [recorded |-> Len(decisions),
      triggered |-> Count(LAMBDA d : d.triggered),
      attempts |-> Count(LAMBDA d : d.direction # {}),
      filled |-> Count(LAMBDA d : d.direction # {} /\ d.reason = {}),
      holds |-> Count(LAMBDA d : d.direction = {}),
      closes |-> Cardinality({i \in DOMAIN trades : trades[i].closes}),
      reasons |-> ReasonCounts(decisions),
      byStrategy |-> [s \in {x \in {"A", "B", "C"} : OfStrategy(x) # <<>>} |-> OfStrategy(s)]]

\* backtest_risk_metric_summary
RiskMetric(trades) ==
  LET closes == SelectSeq(trades, LAMBDA t : t.closes)
      Returns(q) == [i \in DOMAIN q |-> q[i].pnl]
  IN IF closes = <<>> THEN [basis |-> "fill_pnl", returns |-> Returns(trades)]
     ELSE [basis |-> "close_trade_pnl", returns |-> Returns(closes)]

FunnelSteps == {"evaluated", "triggered", "idle_triggered", "decide_called", "order_attempted",
                "risk_passed", "filled", "closed"}

\* backtest_strategy_funnel: a strategy without a count has zero.
Funnel(counts) ==
  [s \in {"A", "B", "C"} |-> [f \in FunnelSteps |->
     IF s \in DOMAIN counts[f] THEN counts[f][s] ELSE 0]]

\* BacktestBridgeJson::from_result: the summary and the breakdown are those of BacktestData.
BridgeJson(r) ==
  [summary |-> r.summary, trades |-> r.trades,
   returns |-> [i \in DOMAIN r.trades |-> r.trades[i].pnl],
   risk |-> RiskMetric(r.trades), breakdown |-> r.breakdown, funnel |-> Funnel(r.counts),
   diagnostics |-> Diagnostics(r.decisions, r.trades), execution |-> r.execution]

\* BacktestResultJson::from_result: the same again, beside the totals of the run
ResultJson(r) ==
  [bridge |-> BridgeJson(r), ticks |-> r.ticks, decisionTicks |-> r.decisionTicks,
   trades |-> Len(r.trades), closes |-> Diagnostics(r.decisions, r.trades).closes,
   strategies |-> r.strategies]

\* TradeCsvRow::from_record, for every trade
TradeRows(trades) ==
  [i \in DOMAIN trades |-> [time |-> trades[i].time, strategy |-> trades[i].strategy,
                            pnl |-> trades[i].pnl, closes |-> trades[i].closes]]

-----------------------------------------------------------------------------
(* The stages of the commands.  Create truncates a file, and Write completes it.        *)

Create(file) == [do |-> "create", file |-> file]
Write(file)  == [do |-> "write", file |-> file]
Stage(what)  == [do |-> what, file |-> ""]
If(cond, stages) == IF cond THEN stages ELSE <<>>

\* Fault: the learned state is exported before the results are written.
BacktestStagesExportFirst(args) ==
  <<Stage("config"), Stage("override")>>
    \o If(args.import, <<Stage("import")>>)
    \o If(args.dump, <<Create("features")>>)
    \o <<Stage("run")>> \o If(args.dump, <<Write("features")>>)
    \o If(args.export # "", <<Stage("format"), Create("q_state"), Write("q_state")>>)
    \o <<Stage("create_dir"), Create("json"), Write("json"), Create("trades"), Write("trades")>>

\* run_backtest: the extension of the export is not looked at before the export.
BacktestStages(args) ==
  <<Stage("config"), Stage("override")>>
    \o If(args.import, <<Stage("import")>>)
    \o If(args.dump, <<Create("features")>>)
    \o <<Stage("run")>> \o If(args.dump, <<Write("features")>>)
    \o <<Stage("create_dir"), Create("json"), Write("json"), Create("trades"), Write("trades")>>
    \o If(args.export # "", <<Stage("format"), Create("q_state"), Write("q_state")>>)

\* run_forward_test with run_recorded_forward or run_external_forward
ForwardStages ==
  <<Stage("config"), Stage("source"), Stage("forward"), Stage("create_dir"),
    Create("forward"), Write("forward")>>

\* run_validate: the file that is there after the pipeline may be older than it.
ValidateStages ==
  <<Stage("result_exists"), Stage("bridge_script"), Stage("create_dir"), Stage("python"),
    Stage("output_exists"), Stage("read_validation")>>

StagesOf(request) ==
  CASE request.command = "backtest" -> BacktestStages(request.args)
    [] request.command = "forward-test" -> ForwardStages
    [] request.command = "validate" -> ValidateStages

VARIABLES
  job,        \* the command under way, or none
  disk,       \* what each file holds, or none
  runs        \* commands given

commandVars == <<job, disk, runs>>

ResultFiles == {"features", "json", "trades", "q_state", "forward", "validation"}

\* What a file of the job under way holds: learned are the runs its learned state comes from.
Content(j, whole) ==
  [run |-> j.run, whole |-> whole, learned |-> j.learned, partial |-> j.partial]

CommandInit ==
  /\ job = {}
  /\ disk = [f \in ResultFiles |-> {}]
  /\ runs = 0

\* The name of a command, with its arguments
Give(request) ==
  /\ job = {} /\ runs < MaxRuns
  /\ runs' = runs + 1
  /\ job' = {[request |-> request, run |-> runs + 1, todo |-> StagesOf(request),
              config |-> request.config, learned |-> {}, partial |-> FALSE]}
  /\ UNCHANGED disk

\* Any stage may return an error, and the process may be killed: what is written stays.
Stopped ==
  /\ job # {}
  /\ job' = {}
  /\ UNCHANGED <<disk, runs>>

Proceed(j, changed) ==
  /\ job' = IF Len(j.todo) = 1 THEN {} ELSE {[changed EXCEPT !.todo = Tail(@)]}
  /\ UNCHANGED runs

Doing(j, what) == j \in job /\ Head(j.todo).do = what

\* Stages that only read
Checked(j) ==
  /\ \E what \in {"config", "create_dir", "bridge_script", "format"} : Doing(j, what)
  /\ Doing(j, "format") => j.request.args.export # "txt"
  /\ Proceed(j, j) /\ UNCHANGED disk

Override(j) ==
  /\ Doing(j, "override")
  /\ \E config \in Overridden(j.config, j.request.args) :
       Proceed(j, [j EXCEPT !.config = config])
  /\ UNCHANGED disk

\* A snapshot that is not whole is refused before anything else is touched.
Import(j) ==
  /\ Doing(j, "import")
  /\ \E snapshot \in disk["q_state"] :
       /\ snapshot.whole
       /\ Proceed(j, [j EXCEPT !.learned = snapshot.learned])
  /\ UNCHANGED disk

RunBacktest(j) ==
  /\ Doing(j, "run")
  /\ Proceed(j, [j EXCEPT !.learned = IF j.config.learning THEN @ \cup {j.run} ELSE @])
  /\ UNCHANGED disk

ChooseSource(j) ==
  /\ Doing(j, "source")
  /\ Source(j.config, j.request.args) # {}
  /\ Proceed(j, j) /\ UNCHANGED disk

\* An interrupt ends the run: its results are those of the tracker, with no ticks.
RunForward(j) ==
  /\ Doing(j, "forward")
  /\ \E interrupted \in BOOLEAN : Proceed(j, [j EXCEPT !.partial = interrupted])
  /\ UNCHANGED disk

CreateFile(j) ==
  /\ Doing(j, "create")
  /\ disk' = [disk EXCEPT ![Head(j.todo).file] = {Content(j, FALSE)}]
  /\ Proceed(j, j)

WriteFile(j) ==
  /\ Doing(j, "write")
  /\ disk' = [disk EXCEPT ![Head(j.todo).file] = {Content(j, TRUE)}]
  /\ Proceed(j, j)

ResultExists(j) ==
  /\ Doing(j, "result_exists") /\ disk["json"] # {}
  /\ Proceed(j, j) /\ UNCHANGED disk

\* External: the pipeline ends well, with or without an output.
Python(j) ==
  /\ Doing(j, "python")
  /\ \/ UNCHANGED disk
     \/ /\ \E result \in disk["json"] : result.whole
        /\ disk' = [disk EXCEPT !["validation"] = {Content(j, TRUE)}]
  /\ Proceed(j, j)

OutputExists(j) ==
  /\ \E what \in {"output_exists", "read_validation"} : Doing(j, what)
  /\ disk["validation"] # {}
  /\ Proceed(j, j) /\ UNCHANGED disk

CommandNext ==
  \/ \E request \in Requests : Give(request)
  \/ Stopped
  \/ \E j \in job :
       \/ Checked(j) \/ Override(j) \/ Import(j) \/ RunBacktest(j) \/ ChooseSource(j)
       \/ RunForward(j) \/ CreateFile(j) \/ WriteFile(j) \/ ResultExists(j) \/ Python(j)
       \/ OutputExists(j)

-----------------------------------------------------------------------------
(* Properties *)

\* A learned state is on disk only after the results it comes from: when a snapshot becomes
\* whole, the JSON and the trades beside it are whole and of the same run, whatever stopped
\* before.  A run that builds on a snapshot no result accounts for could not be judged.
ExportFollowsResults ==
  [][\A s \in disk'["q_state"] : s.whole /\ s \notin disk["q_state"]
       => \A f \in {"json", "trades"} : \E c \in disk[f] : c.whole /\ c.run = s.run]_commandVars
=============================================================================
