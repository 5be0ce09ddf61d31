------------------------------ MODULE MarketData ------------------------------
(***************************************************************************)
(* The market data path: FeedManager receives ticks from a feed and        *)
(* publishes them through MarketGateway (gateway/market.rs), and a consumer *)
(* hands what it receives from the bus to GapDetector (events/             *)
(* gap_detector.rs), which publishes the gaps it finds.  A controller      *)
(* shuts the gateway down at any time; whoever owns the manager starts it, *)
(* runs it and stops it once it has returned.  The feed is external: it    *)
(* may refuse, lose its connection or fail whenever it is asked.           *)
(***************************************************************************)
EXTENDS EventBus, GapDetector

CONSTANTS MaxAttempts,   \* max_reconnect_attempts, 0 for no maximum
          MinSamples,    \* min_samples of the detector
          MaxTicks,      \* bound: ticks the feed gives
          MaxTime        \* bound: timestamps

ASSUME MarketDataAssumption ==
  /\ MaxAttempts \in Nat /\ MinSamples \in Nat \ {0}
  /\ MaxTicks \in Nat /\ MaxTime \in Nat

\* The gateway publishes on the stream of the market, and nobody else does; a consumer
\* with a gap detector listens to that stream.
ASSUME MarketAssumption ==
  /\ {"gateway", "gaps"} \subseteq Publishers
  /\ StreamOf["gateway"] = "Market" /\ StreamOf["gaps"] # "Market"
  /\ "watch" \in Subscribers /\ Listens["watch"] = <<"Market">>

VARIABLES
  pc,          \* what the manager is doing
  state,       \* ConnectionState
  shutdown,    \* the flag of MarketGateway
  handle,      \* connection_handle: none, the task of run, or its abort
  controller,  \* where the task that shuts the gateway down is
  attempt,     \* attempts of try_reconnect
  ticks,       \* history: ticks the feed has given
  time,        \* timestamp of the last of them
  tickCount,   \* tick_count
  late,        \* history: ticks given after shutdown was requested
  detector,    \* GapDetector
  report,      \* the gap event it is about to publish, or none
  place        \* history: where the last event it was handed is in the stream

flags   == <<shutdown, handle, controller>>
gateway == <<state, flags>>
feed    == <<ticks, time, late>>
watch   == <<detector, report, place>>
marketVars == <<bus, pc, gateway, feed, attempt, tickCount, watch>>

ConnectionState == {"Disconnected", "Connecting", "Connected", "Reconnecting", "ShuttingDown"}

\* Where the manager is between two awaits, and how it may end
Working == {"connect", "subscribe", "run", "receive", "number", "send", "count",
            "reconnect", "attempt", "resubscribe", "reconnected"}
Ended   == {"returned", "failed", "aborted", "disconnect", "stopped"}

Go(from, to) == pc = from /\ pc' = to

-----------------------------------------------------------------------------
(* start *)

Start ==
  /\ Go("new", "connect")
  /\ state' = "Connecting"
  /\ UNCHANGED <<bus, flags, feed, attempt, tickCount, watch>>

Connect ==
  /\ \/ Go("connect", "subscribe") /\ state' = "Connected"
     \/ Go("connect", "failed") /\ UNCHANGED state
  /\ UNCHANGED <<bus, flags, feed, attempt, tickCount, watch>>

\* All symbols, or as far as the feed takes them
Subscribe ==
  /\ Go("subscribe", "run") \/ Go("subscribe", "failed")
  /\ UNCHANGED <<bus, gateway, feed, attempt, tickCount, watch>>

-----------------------------------------------------------------------------
(* run *)

\* Fault: the loop ends when the state says so, which a reconnect overwrites.
LoopByState ==
  /\ IF state = "ShuttingDown" THEN Go("run", "returned") ELSE Go("run", "receive")
  /\ UNCHANGED <<bus, gateway, feed, attempt, tickCount, watch>>

Loop ==
  /\ IF shutdown THEN Go("run", "returned") ELSE Go("run", "receive")
  /\ UNCHANGED <<bus, gateway, feed, attempt, tickCount, watch>>

\* The feed has a tick, of the same time as the one before or of a later one.
ReceiveTick ==
  /\ Go("receive", "number") /\ ticks < MaxTicks
  /\ ticks' = ticks + 1
  /\ time' \in {time, time + 1} \cap 1 .. MaxTime
  /\ late' = IF shutdown THEN late + 1 ELSE late
  /\ UNCHANGED <<bus, gateway, attempt, tickCount, watch>>

\* It has lost its connection.
ConnectionLost ==
  /\ Go("receive", "reconnect")
  /\ state' = "Reconnecting"
  /\ attempt' = 0
  /\ UNCHANGED <<bus, flags, feed, tickCount, watch>>

\* Any other error ends run.
FeedError ==
  /\ Go("receive", "failed")
  /\ UNCHANGED <<bus, gateway, feed, attempt, tickCount, watch>>

Id(p) == <<StreamOf[p], Len(sent[StreamOf[p]]) + 1>>

\* publish_tick: the number, the event, and then statistics and count
NumberTick ==
  /\ Go("number", "send")
  /\ TakeNumber("gateway", Id("gateway"), [at |-> time, level |-> "none"])
  /\ UNCHANGED <<gateway, feed, attempt, tickCount, watch>>

SendTick ==
  /\ Go("send", "count")
  /\ Send("gateway")
  /\ UNCHANGED <<gateway, feed, attempt, tickCount, watch>>

CountTick ==
  /\ Go("count", "run")
  /\ tickCount' = tickCount + 1
  /\ UNCHANGED <<bus, gateway, feed, attempt, watch>>

\* Fault: try_reconnect does not look at the flag.
ReconnectStubborn ==
  /\ IF MaxAttempts > 0 /\ attempt >= MaxAttempts
     THEN Go("reconnect", "failed") ELSE Go("reconnect", "attempt")
  /\ UNCHANGED <<bus, gateway, feed, attempt, tickCount, watch>>

\* try_reconnect, at the head of its loop and after its delay
Reconnect ==
  /\ IF shutdown \/ (MaxAttempts > 0 /\ attempt >= MaxAttempts)
     THEN Go("reconnect", "failed") ELSE Go("reconnect", "attempt")
  /\ UNCHANGED <<bus, gateway, feed, attempt, tickCount, watch>>

\* The attempts are counted if there is a maximum to compare them with.
Attempt ==
  /\ \/ Go("attempt", "resubscribe") /\ UNCHANGED attempt
     \/ /\ Go("attempt", "reconnect")
        /\ attempt' = IF MaxAttempts = 0 THEN attempt ELSE attempt + 1
  /\ UNCHANGED <<bus, gateway, feed, tickCount, watch>>

\* A symbol that cannot be subscribed again is logged, and goes without ticks.
Resubscribe ==
  /\ Go("resubscribe", "reconnected")
  /\ UNCHANGED <<bus, gateway, feed, attempt, tickCount, watch>>

Reconnected ==
  /\ Go("reconnected", "run")
  /\ state' = "Connected"
  /\ UNCHANGED <<bus, flags, feed, attempt, tickCount, watch>>

-----------------------------------------------------------------------------
(* shutdown, from a task of its own, and stop, by whoever has awaited run *)

\* The flag comes first; then the task is aborted, if it has been registered, and then
\* the state is set, each under a lock.
RequestShutdown ==
  /\ controller = "idle" /\ controller' = "abort"
  /\ shutdown' = TRUE
  /\ UNCHANGED <<bus, pc, state, handle, feed, attempt, tickCount, watch>>

AbortTask ==
  /\ controller = "abort" /\ controller' = "announce"
  /\ handle' = IF handle = "task" THEN "abort" ELSE handle
  /\ UNCHANGED <<bus, pc, state, shutdown, feed, attempt, tickCount, watch>>

AnnounceShutdown ==
  /\ controller = "announce" /\ controller' = "done"
  /\ state' = "ShuttingDown"
  /\ UNCHANGED <<bus, pc, shutdown, handle, feed, attempt, tickCount, watch>>

\* An aborted task ends at an await; between number and event there is none.
Aborted ==
  /\ handle = "abort" /\ pc \in Working \ {"send"} /\ pc' = "aborted"
  /\ UNCHANGED <<bus, gateway, feed, attempt, tickCount, watch>>

Stop ==
  /\ handle = "none"
  /\ Go("returned", "disconnect") \/ Go("failed", "disconnect")
  /\ shutdown' = TRUE /\ state' = "ShuttingDown"
  /\ UNCHANGED <<bus, handle, controller, feed, attempt, tickCount, watch>>

\* An error of the feed is logged.
Disconnect ==
  /\ Go("disconnect", "stopped")
  /\ state' = "Disconnected"
  /\ UNCHANGED <<bus, flags, feed, attempt, tickCount, watch>>

-----------------------------------------------------------------------------
(* The consumers *)

manager == <<pc, gateway, feed, attempt, tickCount>>

\* What detect_gap may answer for an event
Verdicts(event) ==
  IF detector.known /\ event.payload.at > detector.at
  THEN GapLevels(MissedTicks(detector.seq, event.seq), detector.samples >= MinSamples)
  ELSE {"none"}

\* process_market_event: the verdict, the statistics, the last event, the halt
ProcessMarketEvent(event) ==
  \E level \in Verdicts(event) :
    /\ detector' = [known |-> TRUE, seq |-> event.seq, at |-> event.payload.at,
                    samples |-> IF /\ detector.known /\ event.payload.at > detector.at
                                   /\ detector.samples < MinSamples
                                THEN detector.samples + 1 ELSE detector.samples,
                    halted |-> detector.halted \/ level = "severe"]
    /\ report' = IF level = "none" THEN {} ELSE {[at |-> event.payload.at, level |-> level]}

\* A consumer that has nothing to report takes the next market event.
Watch ==
  /\ report = {}
  /\ Poll("watch", Listens["watch"])
  /\ \/ Received("watch", Listens["watch"]) = {} /\ UNCHANGED watch
     \/ \E event \in Received("watch", Listens["watch"]) :
          ProcessMarketEvent(event) /\ place' = cursor["watch"]["Market"]
  /\ UNCHANGED manager

\* publish_gap_event
NumberGap ==
  /\ \E gap \in report : TakeNumber("gaps", Id("gaps"), gap)
  /\ UNCHANGED <<manager, watch>>

SendGap ==
  /\ sending["gaps"] # {} /\ Send("gaps")
  /\ report' = {}
  /\ UNCHANGED <<manager, detector, place>>

ResetHalt ==
  /\ report = {} /\ detector.halted
  /\ detector' = [detector EXCEPT !.halted = FALSE]
  /\ UNCHANGED <<bus, manager, report, place>>

\* Another subscriber, which listens to the gaps as well
Desk ==
  /\ Poll("desk", Listens["desk"]) \/ Poll("desk", <<"Strategy">>)
  /\ UNCHANGED <<manager, watch>>

-----------------------------------------------------------------------------
MarketInit ==
  /\ BusInit
  /\ pc = "new" /\ state = "Disconnected"
  /\ shutdown = FALSE /\ handle \in {"none", "task"} /\ controller = "idle"
  /\ attempt = 0
  /\ ticks = 0 /\ time = 0 /\ tickCount = 0 /\ late = 0
  /\ detector = [known |-> FALSE, seq |-> 0, at |-> 0, samples |-> 0, halted |-> FALSE]
  /\ report = {} /\ place = 0

Manager ==
  \/ Connect \/ Subscribe
  \/ Loop \/ ReceiveTick \/ ConnectionLost \/ FeedError
  \/ NumberTick \/ SendTick \/ CountTick
  \/ Reconnect \/ Attempt \/ Resubscribe \/ Reconnected

MarketNext ==
  \/ Start \/ Manager \/ Stop \/ Disconnect
  \/ RequestShutdown \/ AbortTask \/ AnnounceShutdown \/ Aborted
  \/ Watch \/ NumberGap \/ SendGap \/ ResetHalt
  \/ Desk

MarketSpec == MarketInit /\ [][MarketNext]_marketVars

\* The runtime schedules the task of the manager, and a feed that is asked answers: with a
\* tick, the loss of its connection or an error.
FairMarketSpec == MarketSpec /\ WF_marketVars(Manager) /\ WF_marketVars(Aborted)

-----------------------------------------------------------------------------
(* Correctness *)

MarketTypeOK ==
  /\ BusType
  /\ pc \in {"new"} \cup Working \cup Ended /\ state \in ConnectionState
  /\ shutdown \in BOOLEAN /\ handle \in {"none", "task", "abort"}
  /\ controller \in {"idle", "abort", "announce", "done"}
  /\ attempt \in 0 .. MaxAttempts
  /\ ticks \in 0 .. MaxTicks /\ time \in 0 .. MaxTime
  /\ tickCount \in 0 .. ticks /\ late \in 0 .. ticks
  /\ detector \in [known : BOOLEAN, seq : 0 .. MaxTicks, at : 0 .. MaxTime,
                   samples : 0 .. MinSamples, halted : BOOLEAN]
  /\ report \subseteq [at : 0 .. MaxTime, level : {"minor", "severe"}]
  /\ place \in 0 .. Len(sent["Market"])

\* Once shutdown has been requested, run takes at most the tick it was waiting for, wherever
\* it was: connecting, publishing, or between two attempts to reconnect, though these
\* overwrite the state that shutdown has set.
QuietAfterShutdown == late <= 1

\* A consumer receives what the gateway publishes in the order of its numbers, though events
\* are numbered and sent in two steps, and over the events it loses.
InOrder == [][place' # place => detector'.seq > detector.seq]_marketVars

\* Trading is halted exactly by a severe loss: so many events overwritten in the channel
\* between two that the detector is handed, the second of a later time.
HaltsOnLoss ==
  [][place' # place =>
       (detector'.halted <=>
          \/ detector.halted
          \/ /\ detector.known /\ detector'.at > detector.at
             /\ place' - place > SevereTicks)]_marketVars

\* A manager that is shut down ends, whatever the feed does: a reconnection without a
\* maximum of attempts included.
ShutdownReturns == shutdown /\ pc \in Working ~> pc \in Ended
=============================================================================
