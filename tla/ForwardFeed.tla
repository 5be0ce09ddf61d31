----------------------------- MODULE ForwardFeed -----------------------------
(***************************************************************************)
(* The feeds of the forward test (forward/feed.rs), the configuration that *)
(* chooses one (forward/config.rs), and ConnectionHealthMonitor (gateway/   *)
(* fix.rs), which may watch the ticks of any feed.  A recorded event is its  *)
(* stream, its time in the header, and whether its payload decodes; the     *)
(* tick it becomes carries the time of the payload.                         *)
(***************************************************************************)
EXTENDS BacktestData

CONSTANTS Files, Periods,      \* the files, as headers and rows, and the periods asked for
          MaxRestarts          \* bound: forward tests after the first

\* A stamp that is read, and an end of a period, is a u64, whatever its form; the reader asserts
\* that its window is not empty.
ASSUME FeedAssumption ==
  /\ Files # {} /\ Periods # {} /\ WindowSize \in Nat \ {0}
  /\ \A p \in Periods : p.start \in Nat /\ p.end \in Nat
  /\ \A f \in Files :
       /\ f.rows \in Seq({f.rows[k] : k \in DOMAIN f.rows})
       /\ \A k \in DOMAIN f.rows : \A c \in Columns(f.headers, f.rows[k], "timestamp") :
            ParseTimestamp(f.rows[k][c]) \subseteq Nat

-----------------------------------------------------------------------------
(* VecEventStore: what it is built with; store appends, load and remove do nothing *)

ReplayOf(events, stream, from) ==
  Taken(events, {k \in DOMAIN events : events[k].stream = stream /\ events[k].seq >= from})

-----------------------------------------------------------------------------
(* RecordedDataFeed: start and end are none, or the set of a time *)

NewRecorded(speed, start, end) ==
  [speed |-> speed, start |-> start, end |-> end, buffer |-> <<>>, connected |-> FALSE,
   last |-> {}]

InRange(feed, e) ==
  /\ \A start \in feed.start : e.time >= start
  /\ \A end \in feed.end : e.time <= end

\* load_events: a tick has the time of its payload, and no number.
Selected(feed, events) ==
  LET market == ReplayOf(events, "market", 0)
      kept == Taken(market, {k \in DOMAIN market : InRange(feed, market[k]) /\ market[k].decodes})
  IN [i \in DOMAIN kept |-> kept[i].tick]

\* connect: what was buffered is not cleared.
ConnectRecorded(feed, events) ==
  [feed EXCEPT !.buffer = @ \o Selected(feed, events), !.connected = TRUE]

\* The wait before a tick, in recorded time divided by the speed; 0 for none
InterTickDelay(feed, from, to) ==
  IF feed.speed <= 0 \/ to <= from THEN 0 ELSE (to - from) \div feed.speed

\* next_tick: the tick and the wait, or none at the end of the buffer
NextRecorded(feed) ==
  IF feed.buffer = <<>> THEN [feed |-> feed, tick |-> {}, wait |-> 0]
  ELSE LET tick == Head(feed.buffer)
       IN [feed |-> [feed EXCEPT !.buffer = Tail(@), !.last = {tick.time}],
           tick |-> {tick},
           wait |-> IF feed.last = {} THEN 0
                    ELSE InterTickDelay(feed, CHOOSE t \in feed.last : TRUE, tick.time)]

DisconnectRecorded(feed) == [feed EXCEPT !.connected = FALSE, !.buffer = <<>>, !.last = {}]

-----------------------------------------------------------------------------
(* ExternalApiFeed: a skeleton that connects and gives no tick *)

NewApi == [connected |-> FALSE, symbols |-> {}, key |-> {}]

\* The last api_key line counts; lines without one, comments and blanks are passed over.
Credentials(lines) ==
  LET keys == SelectSeq(lines, LAMBDA l : l.key = "api_key")
  IN IF keys = <<>> THEN {} ELSE {Last(keys).value}

\* Without a key the feed stays as it was.
ConnectApi(feed, path, lines) ==
  IF path = "" \/ (Credentials(lines) = {} /\ feed.key = {}) THEN feed
  ELSE [feed EXCEPT !.connected = TRUE,
                    !.key = IF Credentials(lines) = {} THEN @ ELSE Credentials(lines)]

SubscribeApi(feed, symbols) ==
  IF feed.connected THEN [feed EXCEPT !.symbols = symbols] ELSE feed

DisconnectApi(feed) == NewApi

-----------------------------------------------------------------------------
(* ForwardTestConfig::validate: the first rule broken is the error *)

Positive == {"max_position_lots", "max_daily_loss_mtm", "max_daily_loss_realized",
             "max_weekly_loss", "max_monthly_loss", "execution_drift_threshold"}
Share    == {"risk_limit_threshold", "daily_mtm_lot_fraction"}   \* in (0, 1], in percent here
AtLeast0 == {"daily_mtm_q_threshold"}

ValidSource(source) ==
  \/ source.kind = "Recorded" /\ source.speed >= 0
  \/ /\ source.kind = "ExternalApi"
     /\ source.provider # "" /\ source.path # "" /\ source.symbols # {}

\* duration is none, or the set of a number of whole seconds.
ValidConfig(config) ==
  /\ config.strategies \subseteq {"A", "B", "C"}
  /\ \A f \in Positive : config.values[f] > 0
  /\ \A f \in Share : config.values[f] > 0 /\ config.values[f] <= 100
  /\ \A f \in AtLeast0 : config.values[f] >= 0
  /\ 0 \notin config.duration
  /\ ValidSource(config.source)
  /\ "" \notin config.webhooks

\* to_risk_limits_config: losses become limits below zero.
ToRiskLimits(values) ==
  [f \in {"max_daily_loss_mtm", "max_daily_loss_realized", "max_weekly_loss",
          "max_monthly_loss"} |-> IF values[f] < 0 THEN values[f] ELSE -values[f]]

-----------------------------------------------------------------------------
(* ConnectionHealthMonitor: a time of 0 is no tick yet *)

NewHealth == [last |-> 0, count |-> 0, total |-> 0]

RecordTick(h, time) ==
  [last |-> time, count |-> h.count + 1,
   total |-> h.total + (IF h.last = 0 \/ time < h.last THEN 0 ELSE time - h.last)]

Threshold(expected, multiplier) == expected * multiplier

IsHealthy(h, now, expected, multiplier) ==
  \/ h.last = 0 \/ now <= h.last
  \/ now - h.last <= Threshold(expected, multiplier)

-----------------------------------------------------------------------------
(* One file, read by both: a backtest streams it, and forward tests, one     *)
(* after the other, load it whole and replay it from a store.                *)

VARIABLES
  file,       \* headers and rows
  period,     \* start and end
  reader,     \* StreamingCsvReader
  stream,     \* run_from_stream
  ended,      \* the streaming backtest is over
  feed,       \* RecordedDataFeed
  delivered,  \* the events of the runner since the feed was connected
  restarts    \* forward tests so far

feedVars == <<file, period, reader, stream, ended, feed, delivered, restarts>>

FeedInit(files, periods) ==
  /\ file \in files /\ period \in periods
  /\ reader = NewReader(file.headers, file.rows)
  /\ stream = NewStream /\ ended = FALSE
  /\ feed = NewRecorded(1, {period.start}, {period.end})
  /\ delivered = <<>> /\ restarts = 0

StreamOn ==
  /\ ~ended
  /\ \E next \in {NextTick(reader)} :
       /\ reader' = next.reader
       /\ \/ /\ next.tick = {}
             /\ stream' = StreamEnd(stream) /\ ended' = TRUE
          \/ \E tick \in next.tick :
               stream' = StreamTick(stream, tick, period.start, period.end) /\ UNCHANGED ended
  /\ UNCHANGED <<file, period, feed, delivered, restarts>>

\* Nothing is connected when the file does not load.
Connect ==
  /\ ~feed.connected /\ restarts <= MaxRestarts
  /\ \E ticks \in LoadCsv(file.headers, file.rows) :
       feed' = ConnectRecorded(feed, TicksToEvents(ticks))
  /\ delivered' = <<>> /\ restarts' = restarts + 1
  /\ UNCHANGED <<file, period, reader, stream, ended>>

\* The runner takes a tick and numbers it, from one in every forward test.
Deliver ==
  /\ feed.connected /\ feed.buffer # <<>>
  /\ \E next \in {NextRecorded(feed)} :
       /\ feed' = next.feed
       /\ \E tick \in next.tick :
            delivered' = Append(delivered, TickEvent(tick, Len(delivered) + 1))
  /\ UNCHANGED <<file, period, reader, stream, ended, restarts>>

\* The data are exhausted, or the duration of the test is over.
Disconnect ==
  /\ feed.connected
  /\ feed' = DisconnectRecorded(feed)
  /\ UNCHANGED <<file, period, reader, stream, ended, delivered, restarts>>

FeedNext == StreamOn \/ Connect \/ Deliver \/ Disconnect

-----------------------------------------------------------------------------
(* Properties *)

TicksIn(events) == SubSeq([i \in DOMAIN events |-> events[i].tick], 1, Len(events))

\* A backtest and a forward test of one file see one market: when the file loads whole, what
\* is streamed to the engine in batches are the events of the period in order, each numbered
\* by its place in the file; the ticks of the runner, restarts included, are those ticks in
\* that order, under numbers that are lower by the ticks before the period; and the window of
\* the reader is the last ticks read.  When the file does not load, what is streamed still
\* moves forward in time.
FeedsAgree ==
  /\ \A i, j \in DOMAIN Streamed(stream) :
       i < j => Streamed(stream)[i].time < Streamed(stream)[j].time
  /\ \A ticks \in LoadCsv(file.headers, file.rows) :
       LET expected == EventsOf(TicksToEvents(ticks), period.start, period.end)
           streamed == Streamed(stream) \o stream.batch
           before == Cardinality({k \in DOMAIN ticks : ticks[k].time < period.start})
           from == stream.seq - Len(reader.window) + 1
       IN /\ IsPrefix(streamed, expected) /\ (ended => streamed = expected)
          /\ IsPrefix(TicksIn(delivered), TicksIn(expected))
          /\ feed.connected => TicksIn(delivered) \o feed.buffer = TicksIn(expected)
          /\ \A i \in DOMAIN delivered : expected[i].seq = before + delivered[i].seq
          /\ reader.window = SubSeq(ticks, from, stream.seq)
          /\ Len(reader.window) = IF stream.seq < WindowSize THEN stream.seq ELSE WindowSize
=============================================================================
