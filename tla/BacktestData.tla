---------------------------- MODULE BacktestData ----------------------------
(***************************************************************************)
(* What goes into a backtest and what comes out of it: the two readers of   *)
(* tick files (backtest/data.rs), the runs that feed the engine in batches  *)
(* (backtest/engine.rs) and the statistics of the trades (backtest/         *)
(* stats.rs).  A file is its headers and its rows of cells; a cell that     *)
(* does not parse is Unparsable, an empty one EmptyCell.                     *)
(***************************************************************************)
EXTENDS Fractions, FiniteSets

CONSTANTS Unparsable, EmptyCell,
          Second,                  \* nanoseconds in a second
          NanosFrom,               \* digits above this are nanoseconds already
          Word,                    \* 2^64: a u64 wraps here
          Hour, SpringForward, FallBack, \* the local times at which the Helsinki clock changes
          WindowSize,              \* ticks StreamingCsvReader keeps
          BatchSize,               \* STREAM_BATCH_SIZE
          SquareRoot(_)

-----------------------------------------------------------------------------
(* parse_timestamp: nanoseconds, or none for a text it does not know *)

\* In summer three hours ahead, else two: an hour that comes twice is taken for the first of
\* the two, and an hour that does not exist is read with the winter's two.
EetNanos(local) ==
  local - (IF SpringForward + Hour <= local /\ local < FallBack + Hour THEN 3 ELSE 2) * Hour

ParseTimestamp(stamp) ==
  CASE stamp.kind = "digits" ->
         {IF stamp.value > NanosFrom THEN stamp.value ELSE (stamp.value * Second) % Word}
    [] stamp.kind = "gmt" -> {(stamp.value - stamp.offset) % Word}
    [] stamp.kind = "eet" -> {EetNanos(stamp.value) % Word}
    [] stamp.kind = "iso" -> {stamp.value % Word}
    [] OTHER -> {}

-----------------------------------------------------------------------------
(* A row as a DataTick *)

\* normalize_header
Canonical(header) ==
  CASE header \in {"local_time", "time", "timestamp", "datetime", "date", "time_(eet)"}
         -> "timestamp"
    [] header \in {"bidvolume", "bid_vol", "bid_size"} -> "bid_volume"
    [] header \in {"askvolume", "ask_vol", "ask_size"} -> "ask_volume"
    [] header \in {"symbol", "ticker", "pair"} -> "symbol"
    [] OTHER -> header

Columns(headers, cells, field) ==
  {k \in DOMAIN headers : k \in DOMAIN cells /\ Canonical(headers[k]) = field}

CellOf(headers, cells, field) == cells[CHOOSE k \in Columns(headers, cells, field) : TRUE]

\* A row may be short or long; a field that is named twice, or needed and missing, is an error.
Deserializes(headers, cells) ==
  /\ \A f \in {"timestamp", "bid", "ask"} : Cardinality(Columns(headers, cells, f)) = 1
  /\ \A f \in {"bid_volume", "ask_volume", "symbol"} :
       Cardinality(Columns(headers, cells, f)) <= 1
  /\ \A f \in {"bid", "ask"} : CellOf(headers, cells, f) \notin {Unparsable, EmptyCell}
  /\ \A f \in {"bid_volume", "ask_volume"} :
       Columns(headers, cells, f) # {} => CellOf(headers, cells, f) # Unparsable

VolumeOf(headers, cells, field) ==
  IF Columns(headers, cells, field) = {} THEN 0
  ELSE IF CellOf(headers, cells, field) = EmptyCell THEN 0 ELSE CellOf(headers, cells, field)

\* The ticks a row stands for when the tick before it was at one of prev: one, or none
TicksOf(headers, cells, prev) ==
  IF ~Deserializes(headers, cells) THEN {}
  ELSE {[time |-> t, bid |-> CellOf(headers, cells, "bid"), ask |-> CellOf(headers, cells, "ask"),
         bidVolume |-> VolumeOf(headers, cells, "bid_volume"),
         askVolume |-> VolumeOf(headers, cells, "ask_volume")] :
          t \in {u \in ParseTimestamp(CellOf(headers, cells, "timestamp")) :
                   /\ CellOf(headers, cells, "bid") < CellOf(headers, cells, "ask")
                   /\ \A p \in prev : u > p}}

\* load_csv_reader: all rows, or none for an error in any of them
LoadCsv(headers, rows) ==
  LET With(ticks, cells) ==
        {Append(ticks, tick) :
           tick \in TicksOf(headers, cells, IF ticks = <<>> THEN {} ELSE {Last(ticks).time})}
      loaded[k \in 0 .. Len(rows)] ==
        IF k = 0 THEN {<<>>} ELSE UNION {With(ticks, rows[k]) : ticks \in loaded[k - 1]}
  IN loaded[Len(rows)]

\* StreamingCsvReader: a row that load_csv_reader refuses is passed over.
NewReader(headers, rows) == [headers |-> headers, rest |-> rows, prev |-> {}, window |-> <<>>]

Usable(reader) ==
  {k \in DOMAIN reader.rest : TicksOf(reader.headers, reader.rest[k], reader.prev) # {}}

\* Fault: the reader does not remember the time of its last tick.
NextTickForgetting(reader) ==
  IF Usable(reader) = {} THEN [reader |-> [reader EXCEPT !.rest = <<>>], tick |-> {}]
  ELSE LET k == CHOOSE i \in Usable(reader) : \A j \in Usable(reader) : i <= j
           tick == CHOOSE t \in TicksOf(reader.headers, reader.rest[k], reader.prev) : TRUE
           kept == IF Len(reader.window) >= WindowSize THEN Tail(reader.window)
                   ELSE reader.window
       IN [reader |-> [reader EXCEPT !.rest = SubSeq(@, k + 1, Len(@)),
                                     !.window = Append(kept, tick)],
           tick |-> {tick}]

\* next_tick: the window slides before the tick enters it.
NextTick(reader) ==
  IF Usable(reader) = {} THEN [reader |-> [reader EXCEPT !.rest = <<>>], tick |-> {}]
  ELSE LET k == CHOOSE i \in Usable(reader) : \A j \in Usable(reader) : i <= j
           tick == CHOOSE t \in TicksOf(reader.headers, reader.rest[k], reader.prev) : TRUE
           kept == IF Len(reader.window) >= WindowSize THEN Tail(reader.window)
                   ELSE reader.window
       IN [reader |-> [reader EXCEPT !.rest = SubSeq(@, k + 1, Len(@)), !.prev = {tick.time},
                                     !.window = Append(kept, tick)],
           tick |-> {tick}]

\* ticks_to_events numbers from one; tick_to_event leaves 0 for the caller to replace.
TickEvent(tick, number) ==
  [stream |-> "market", time |-> tick.time, seq |-> number, decodes |-> TRUE, tick |-> tick]
TicksToEvents(ticks)    == [k \in DOMAIN ticks |-> TickEvent(ticks[k], k)]

-----------------------------------------------------------------------------
(* run_from_stream: the engine gets the events of the period batch by batch  *)

InPeriod(e, start, end) == start <= e.time /\ e.time <= end

NewStream == [seq |-> 0, batch |-> <<>>, processed |-> <<>>]

\* A tick outside the period uses up a number all the same.
StreamTick(stream, tick, start, end) ==
  LET event == TickEvent(tick, stream.seq + 1)
      batch == IF InPeriod(event, start, end) THEN Append(stream.batch, event) ELSE stream.batch
      full  == Len(batch) >= BatchSize
  IN [seq |-> stream.seq + 1, batch |-> IF full THEN <<>> ELSE batch,
      processed |-> IF full THEN Append(stream.processed, batch) ELSE stream.processed]

\* What the engine has been given
Streamed(stream) ==
  LET given[k \in 0 .. Len(stream.processed)] ==
        IF k = 0 THEN <<>> ELSE given[k - 1] \o stream.processed[k]
  IN given[Len(stream.processed)]

StreamEnd(stream) ==
  [stream EXCEPT !.batch = <<>>,
                 !.processed = IF stream.batch = <<>> THEN @ ELSE Append(@, stream.batch)]

\* run and run_from_events: one batch
EventsOf(events, start, end) ==
  Taken(events, {k \in DOMAIN events : InPeriod(events[k], start, end)})

\* What the batches found, put together: lists are joined, and counts added.
EmptyOutcome == [trades |-> <<>>, decisions |-> <<>>, ticks |-> 0, decisionTicks |-> 0,
                 funnel |-> [s \in {"A", "B", "C"} |-> 0]]

Merged(a, b) ==
  [trades |-> a.trades \o b.trades, decisions |-> a.decisions \o b.decisions,
   ticks |-> a.ticks + b.ticks, decisionTicks |-> a.decisionTicks + b.decisionTicks,
   funnel |-> [s \in DOMAIN a.funnel |-> a.funnel[s] + b.funnel[s]]]

-----------------------------------------------------------------------------
(* TradeSummary::from_trades and what it calls.  A trade is its time, its    *)
(* strategy, its profit and whether it closes a position.                    *)

Profits(trades) == SubSeq([k \in DOMAIN trades |-> trades[k].pnl], 1, Len(trades))
Wins(trades)    == Taken(trades, {k \in DOMAIN trades : Zero \prec trades[k].pnl})
Losses(trades)  == Taken(trades, {k \in DOMAIN trades : trades[k].pnl \prec Zero})

WinShare(trades) == IF trades = <<>> THEN Zero ELSE Frac(Len(Wins(trades)), Len(trades))

\* None for no limit: wins without a loss
ProfitFactor(trades) ==
  LET won == SumFrac(Profits(Wins(trades)))
      lost == AbsFrac(SumFrac(Profits(Losses(trades))))
  IN IF lost # Zero THEN {won // lost} ELSE IF won = Zero THEN {Zero} ELSE {}

\* The walk along the equity: its value, its peak, which starts at zero, and the fall below it
EquityStep(walk, pnl) ==
  LET equity == walk.equity ++ pnl
      peak == MaxFrac(walk.peak, equity)
  IN [equity |-> equity, peak |-> peak, drawdown |-> peak -- equity,
      deepest |-> MaxFrac(walk.deepest, peak -- equity)]

EquityStart == [equity |-> Zero, peak |-> Zero, drawdown |-> Zero, deepest |-> Zero]

\* After the first k trades
EquityAt(trades, k) ==
  LET walk[j \in 0 .. k] ==
        IF j = 0 THEN EquityStart ELSE EquityStep(walk[j - 1], trades[j].pnl)
  IN walk[k]

MaxDrawdown(trades) == EquityAt(trades, Len(trades)).deepest

\* compute_equity_curve
EquityCurve(trades) ==
  [k \in DOMAIN trades |-> [time |-> trades[k].time, equity |-> EquityAt(trades, k).equity,
                            drawdown |-> EquityAt(trades, k).drawdown]]

\* compute_max_drawdown_duration: from the last time the peak was reached, or reached again
DurationStep(walk, trade) ==
  LET equity == walk.equity ++ trade.pnl
      length == trade.time - walk.from
  IN IF walk.peak \preceq equity
     THEN [walk EXCEPT !.equity = equity, !.peak = equity, !.at = trade.time, !.in = FALSE,
                       !.longest = IF walk.in /\ length > @ THEN length ELSE @]
     ELSE [walk EXCEPT !.equity = equity, !.in = TRUE,
                       !.from = IF walk.in THEN @ ELSE walk.at]

DrawdownDuration(trades) ==
  LET walk == FoldLeft(DurationStep,
                       [equity |-> Zero, peak |-> Zero, at |-> Head(trades).time, from |-> 0,
                        in |-> FALSE, longest |-> 0], trades)
      open == Last(trades).time - walk.from
  IN IF Len(trades) < 2 THEN 0
     ELSE IF walk.in /\ open > walk.longest THEN open ELSE walk.longest

\* compute_consecutive_streaks: a trade without profit or loss ends both.
StreakStep(s, pnl) ==
  LET wins   == IF Zero \prec pnl THEN s.wins + 1 ELSE 0
      losses == IF pnl \prec Zero THEN s.losses + 1 ELSE 0
  IN [wins |-> wins, losses |-> losses,
      mostWins |-> IF wins > s.mostWins THEN wins ELSE s.mostWins,
      mostLosses |-> IF losses > s.mostLosses THEN losses ELSE s.mostLosses]

Streaks(trades) ==
  FoldLeft(StreakStep, [wins |-> 0, losses |-> 0, mostWins |-> 0, mostLosses |-> 0],
           Profits(trades))

\* The trades the ratios are of: those that close a position, when there are any
RiskTrades(trades) ==
  LET closes == SelectSeq(trades, LAMBDA t : t.closes)
  IN IF closes = <<>> THEN trades ELSE closes

Deviations(q) ==
  SubSeq([k \in DOMAIN q |-> (q[k] -- MeanFrac(q)) ** (q[k] -- MeanFrac(q))], 1, Len(q))

\* annualization_factor is left out of both ratios.
SharpeOf(trades) ==
  LET q == Profits(RiskTrades(trades))
      std == SquareRoot(SumFrac(Deviations(q)) // Whole(Len(q) - 1))
  IN IF Len(q) < 2 THEN Zero ELSE IF std = Zero THEN Zero ELSE MeanFrac(q) // std

\* The deviations of what is below the mean, over the number of all
SortinoOf(trades) ==
  LET q == Profits(RiskTrades(trades))
      below == SelectSeq(q, LAMBDA x : x \prec MeanFrac(q))
      std == SquareRoot(SumFrac(SubSeq([k \in DOMAIN below |->
               (below[k] -- MeanFrac(q)) ** (below[k] -- MeanFrac(q))], 1, Len(below)))
               // Whole(Len(q)))
  IN IF Len(q) < 2 THEN Zero ELSE IF std = Zero THEN Zero ELSE MeanFrac(q) // std

\* The time between trades, whatever their strategy: a trade out of order wraps.
AverageGap(trades) ==
  IF Len(trades) < 2 THEN 0
  ELSE FoldLeft(LAMBDA acc, k : (acc + (trades[k + 1].time - trades[k].time)) % Word, 0,
                [k \in 1 .. Len(trades) - 1 |-> k]) \div (Len(trades) - 1)

Summary(trades) ==
  [pnl |-> SumFrac(Profits(trades)), trades |-> Len(trades), wins |-> Len(Wins(trades)),
   losses |-> Len(Losses(trades)), winRate |-> WinShare(trades),
   avgWin |-> MeanFrac(Profits(Wins(trades))), avgLoss |-> MeanFrac(Profits(Losses(trades))),
   profitFactor |-> ProfitFactor(trades), maxDrawdown |-> MaxDrawdown(trades),
   duration |-> IF trades = <<>> THEN 0 ELSE DrawdownDuration(trades),
   sharpe |-> SharpeOf(trades), sortino |-> SortinoOf(trades), streaks |-> Streaks(trades),
   gap |-> AverageGap(trades)]

\* compute_strategy_breakdown: of the strategies that traded
Breakdown(trades) ==
  LET Of(s) == Taken(trades, {k \in DOMAIN trades : trades[k].strategy = s})
  IN [s \in {trades[k].strategy : k \in DOMAIN trades} |->
       [trades |-> Len(Of(s)), pnl |-> SumFrac(Profits(Of(s))), winRate |-> WinShare(Of(s)),
        avg |-> MeanFrac(Profits(Of(s)))]]
=============================================================================
