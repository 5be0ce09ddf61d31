--------------------------- MODULE EventPathProofs ---------------------------
(***************************************************************************)
(* The way of an event: through the feed and the bus to its consumers       *)
(* (MarketData), and into the store of tier 2 (Tier2Store).                *)
(*                                                                         *)
(* A manager which is shut down takes one more tick at most, and a consumer *)
(* receives the market in order and halts for what it lost.                *)
(*                                                                         *)
(* What the encoding of the store gives back; that its trees keep their     *)
(* types and no crash leaves the index pointing at an event that was not   *)
(* written; that load and replay, each a walk of its own, agree; that what *)
(* can be read stays so; and that a base ends the effects of a fault.  A   *)
(* replay is a recursive function over the sequence numbers: its proofs go *)
(* by the least number of a set (IntervalInduction).                       *)
(***************************************************************************)
EXTENDS MarketData, Tier2Store, FractionProofs, TLAPS

-----------------------------------------------------------------------------
(* The feed: a shutdown *)

\* A tick can be late only because run was waiting for it when shutdown was requested,
\* and run does not wait for another one.
Quiet ==
  /\ late \in {0, 1}
  /\ ~shutdown => late = 0
  /\ pc = "receive" => late = 0

LEMMA QuietInit == MarketInit => Quiet
BY DEF MarketInit, Quiet

LEMMA QuietStep == Quiet /\ [MarketNext]_marketVars => Quiet'
<1> SUFFICES ASSUME Quiet, [MarketNext]_marketVars PROVE Quiet'
  OBVIOUS
<1> USE DEF Quiet
<1>1. CASE Manager
  <2>1. CASE Connect
    BY <2>1 DEF Connect, Go, feed, flags
  <2>2. CASE Subscribe
    BY <2>2 DEF Subscribe, Go, feed, gateway, flags
  <2>3. CASE Loop
    BY <2>3 DEF Loop, Go, feed, gateway, flags
  <2>4. CASE ReceiveTick
    BY <2>4 DEF ReceiveTick, Go, gateway, flags
  <2>5. CASE ConnectionLost
    BY <2>5 DEF ConnectionLost, Go, feed, flags
  <2>6. CASE FeedError
    BY <2>6 DEF FeedError, Go, feed, gateway, flags
  <2>7. CASE NumberTick
    BY <2>7 DEF NumberTick, Go, feed, gateway, flags
  <2>8. CASE SendTick
    BY <2>8 DEF SendTick, Go, feed, gateway, flags
  <2>9. CASE CountTick
    BY <2>9 DEF CountTick, Go, feed, gateway, flags
  <2>10. CASE Reconnect
    BY <2>10 DEF Reconnect, Go, feed, gateway, flags
  <2>11. CASE Attempt
    BY <2>11 DEF Attempt, Go, feed, gateway, flags
  <2>12. CASE Resubscribe
    BY <2>12 DEF Resubscribe, Go, feed, gateway, flags
  <2>13. CASE Reconnected
    BY <2>13 DEF Reconnected, Go, feed, flags
  <2> QED BY <1>1, <2>1, <2>2, <2>3, <2>4, <2>5, <2>6, <2>7, <2>8, <2>9, <2>10, <2>11,
             <2>12, <2>13 DEF Manager
<1>2. CASE Start
  BY <1>2 DEF Start, Go, feed, flags
<1>3. CASE Stop
  BY <1>3 DEF Stop, Go, feed
<1>4. CASE Disconnect
  BY <1>4 DEF Disconnect, Go, feed, flags
<1>5. CASE RequestShutdown
  BY <1>5 DEF RequestShutdown, feed
<1>6. CASE AbortTask
  BY <1>6 DEF AbortTask, feed
<1>7. CASE AnnounceShutdown
  BY <1>7 DEF AnnounceShutdown, feed
<1>8. CASE Aborted
  BY <1>8 DEF Aborted, feed, gateway, flags
<1>9. CASE Watch \/ NumberGap \/ SendGap \/ ResetHalt \/ Desk
  BY <1>9 DEF Watch, NumberGap, SendGap, ResetHalt, Desk, manager, feed, gateway, flags
<1>10. CASE UNCHANGED marketVars
  BY <1>10 DEF marketVars, feed, gateway, flags
<1> QED BY <1>1, <1>2, <1>3, <1>4, <1>5, <1>6, <1>7, <1>8, <1>9, <1>10 DEF MarketNext

\* Once shutdown has been requested, run takes at most the tick it was waiting for: for
\* every channel, number of attempts, feed and interleaving.
THEOREM QuietOnceShutDown == MarketSpec => []QuietAfterShutdown
<1>1. Quiet => QuietAfterShutdown
  BY DEF Quiet, QuietAfterShutdown
<1> QED BY <1>1, QuietInit, QuietStep, PTL DEF MarketSpec

-----------------------------------------------------------------------------
(* The stream of the market, and the consumer that watches it for gaps *)

\* What the gateway publishes
Tick == [id : {"Market"} \X Nat, seq : Nat, payload : [at : Nat, level : {"none"}]]

market == sent["Market"]
position == cursor["watch"]["Market"]

\* The stream of the market holds the numbers from 1 on, each where it belongs: nobody
\* else publishes there, and the gateway sends what it has numbered before it numbers
\* again, also when its task is aborted.
Channel ==
  /\ counters \in [Streams -> Nat] /\ DOMAIN sending = Publishers
  /\ DOMAIN sent = Streams /\ market \in Seq(Tick)
  /\ time \in Nat
  /\ \A i \in 1 .. Len(market) : market[i].seq = i
  /\ counters["Market"] = IF pc = "send" THEN Len(market) + 1 ELSE Len(market)
  /\ \A e \in sending["gateway"] : pc = "send" /\ e \in Tick /\ e.seq = counters["Market"]

\* The detector was handed the event at place last, and its receiver is beyond it.
Handed ==
  /\ detector \in [known : BOOLEAN, seq : Nat, at : Nat, samples : Nat, halted : BOOLEAN]
  /\ place = detector.seq /\ (detector.known <=> place # 0)
  /\ DOMAIN cursor = Subscribers
  /\ position \in 1 .. Len(market) + 1 /\ place < position

\* Between its numbers and its events nobody interferes with the gateway.
LEMMA ChannelInit == MarketInit => Channel
<1> SUFFICES ASSUME MarketInit PROVE Channel
  OBVIOUS
<1>1. "Market" \in Streams /\ "gateway" \in Publishers
  BY BusAssumption, MarketAssumption
<1>2. market = <<>> /\ counters["Market"] = 0 /\ sending["gateway"] = {} /\ pc # "send"
  BY <1>1 DEF MarketInit, BusInit, market
<1>3. market \in Seq(Tick) /\ Len(market) = 0
  BY <1>2
<1>4. \A i \in 1 .. Len(market) : market[i].seq = i
  BY <1>3
<1>5. counters \in [Streams -> Nat] /\ DOMAIN sending = Publishers /\ DOMAIN sent = Streams
  BY DEF MarketInit, BusInit
<1>6. time \in Nat
  BY DEF MarketInit
<1> QED BY <1>2, <1>3, <1>4, <1>5, <1>6 DEF Channel

\* The steps that leave the bus alone
LEMMA ChannelKept ==
  ASSUME Channel, UNCHANGED <<counters, sending, sent>>, pc' = "send" <=> pc = "send",
         time' \in Nat
  PROVE  Channel'
BY DEF Channel, market

LEMMA ChannelStep == Channel /\ [MarketNext]_marketVars => Channel'
<1> SUFFICES ASSUME Channel, [MarketNext]_marketVars PROVE Channel'
  OBVIOUS
<1>0. "Market" \in Streams /\ {"gateway", "gaps"} \subseteq Publishers /\ time \in Nat
  BY BusAssumption, MarketAssumption DEF Channel
<1>1. CASE NumberTick
  <2> DEFINE tick == [id |-> Id("gateway"), seq |-> counters["Market"] + 1,
                      payload |-> [at |-> time, level |-> "none"]]
  <2>1. /\ pc = "number" /\ pc' = "send" /\ time' = time /\ sent' = sent
        /\ TakeNumber("gateway", Id("gateway"), [at |-> time, level |-> "none"])
    BY <1>1 DEF NumberTick, Go, TakeNumber, feed
  <2>2. counters' = [counters EXCEPT !["Market"] = @ + 1]
    BY <2>1, MarketAssumption DEF TakeNumber
  <2>3. counters["Market"] \in Nat /\ counters'["Market"] = counters["Market"] + 1
    BY <1>0, <2>2 DEF Channel
  <2>4. sending'["gateway"] = {tick}
    BY <1>0, <2>1, <2>3, MarketAssumption DEF TakeNumber, Channel
  <2>5. Id("gateway") \in {"Market"} \X Nat
    BY MarketAssumption DEF Id, Channel, market
  <2>6. tick \in Tick /\ tick.seq = counters'["Market"]
    BY <1>0, <2>3, <2>5 DEF Tick
  <2>7. DOMAIN sending' = Publishers
    BY <2>1 DEF TakeNumber, Channel
  <2>8. counters' \in [Streams -> Nat]
    BY <1>0, <2>2, <2>3 DEF Channel
  <2> HIDE DEF tick
  <2> QED BY <2>1, <2>3, <2>4, <2>6, <2>7, <2>8 DEF Channel, market
<1>2. CASE SendTick
  <2>1. pc = "send" /\ pc' = "count" /\ time' = time /\ counters' = counters
    BY <1>2 DEF SendTick, Go, Send, feed
  <2>2. PICK e \in sending["gateway"] : sent' = [sent EXCEPT !["Market"] = Append(@, e)]
    BY <1>2, MarketAssumption DEF SendTick, Send
  <2>3. sending' = [sending EXCEPT !["gateway"] = {}]
    BY <1>2 DEF SendTick, Send
  <2>4. e \in Tick /\ e.seq = Len(market) + 1 /\ market \in Seq(Tick)
    BY <2>1 DEF Channel
  <2>5. market' = Append(market, e)
    BY <1>0, <2>2 DEF Channel, market
  <2>6. /\ market' \in Seq(Tick) /\ Len(market') = Len(market) + 1
        /\ market'[Len(market) + 1] = e
        /\ \A i \in 1 .. Len(market) : market'[i] = market[i]
    BY <2>4, <2>5
  <2>7. \A i \in 1 .. Len(market') : market'[i].seq = i
    BY <2>4, <2>6 DEF Channel
  <2>8. sending'["gateway"] = {} /\ DOMAIN sending' = Publishers /\ DOMAIN sent' = Streams
    BY <1>0, <2>2, <2>3 DEF Channel
  <2>9. counters'["Market"] = Len(market')
    BY <2>1, <2>6 DEF Channel
  <2> QED BY <2>1, <2>6, <2>7, <2>8, <2>9 DEF Channel
<1>3. CASE NumberGap
  <2>1. PICK gap \in report : TakeNumber("gaps", Id("gaps"), gap)
    BY <1>3 DEF NumberGap
  <2>2. /\ counters' = [counters EXCEPT ![StreamOf["gaps"]] = @ + 1]
        /\ sending'["gateway"] = sending["gateway"]
        /\ DOMAIN sending' = Publishers /\ sent' = sent
    BY <1>0, <2>1, MarketAssumption DEF TakeNumber, Channel
  <2>3. counters'["Market"] = counters["Market"] /\ counters' \in [Streams -> Nat]
    BY <1>0, <2>2, MarketAssumption, BusAssumption DEF Channel
  <2>4. pc' = pc /\ time' = time
    BY <1>3 DEF NumberGap, manager, feed
  <2> QED BY <2>2, <2>3, <2>4 DEF Channel, market
<1>4. CASE SendGap
  <2>1. PICK e \in sending["gaps"] :
          sent' = [sent EXCEPT ![StreamOf["gaps"]] = Append(@, e)]
    BY <1>4 DEF SendGap, Send
  <2>2. /\ sending' = [sending EXCEPT !["gaps"] = {}] /\ counters' = counters
        /\ pc' = pc /\ time' = time
    BY <1>4 DEF SendGap, Send, manager, feed
  <2>3. DOMAIN sent' = Streams /\ market' = market
    BY <1>0, <2>1, MarketAssumption DEF Channel, market
  <2>4. DOMAIN sending' = Publishers /\ sending'["gateway"] \subseteq sending["gateway"]
    BY <1>0, <2>2 DEF Channel
  <2> QED BY <2>2, <2>3, <2>4 DEF Channel
<1>5. CASE ReceiveTick
  <2>1. time' \in Nat
    BY <1>0, <1>5 DEF ReceiveTick
  <2> QED BY <1>5, <2>1, ChannelKept DEF ReceiveTick, Go, bus
<1>6. CASE \/ Start \/ Connect \/ Subscribe \/ Loop \/ ConnectionLost \/ FeedError \/ CountTick
           \/ Reconnect \/ Attempt \/ Resubscribe \/ Reconnected
  <2>1. UNCHANGED <<counters, sending, sent, time>> /\ pc # "send" /\ pc' # "send"
    BY <1>6 DEF Start, Connect, Subscribe, Loop, ConnectionLost, FeedError, CountTick, Reconnect,
                Attempt, Resubscribe, Reconnected, Go, bus, feed
  <2> QED BY <1>0, <2>1, ChannelKept
<1>7. CASE Stop \/ Disconnect \/ Aborted
  <2>1. UNCHANGED <<counters, sending, sent, time>> /\ pc # "send" /\ pc' # "send"
    BY <1>7 DEF Stop, Disconnect, Aborted, Go, bus, feed
  <2> QED BY <1>0, <2>1, ChannelKept
<1>8. CASE RequestShutdown \/ AbortTask \/ AnnounceShutdown
  <2>1. UNCHANGED <<counters, sending, sent, time, pc>>
    BY <1>8 DEF RequestShutdown, AbortTask, AnnounceShutdown, bus, feed
  <2> QED BY <1>0, <2>1, ChannelKept
<1>9. CASE Watch \/ ResetHalt \/ Desk
  <2>1. UNCHANGED <<counters, sending, sent, time, pc>>
    BY <1>9 DEF Watch, ResetHalt, Desk, Poll, manager, feed, bus
  <2> QED BY <1>0, <2>1, ChannelKept
<1>10. CASE UNCHANGED marketVars
  <2>1. UNCHANGED <<counters, sending, sent, time, pc>>
    BY <1>10 DEF marketVars, bus, feed
  <2> QED BY <1>0, <2>1, ChannelKept
<1> QED BY <1>1, <1>2, <1>3, <1>4, <1>5, <1>6, <1>7, <1>8, <1>9, <1>10 DEF MarketNext, Manager

\* What one call of recv on the stream of the market does: whoever lags is put forward
\* and handed nothing, or takes the event at its position, or one it has seen before.
LEMMA WatchPolls ==
  ASSUME Handed, Poll("watch", Listens["watch"])
  PROVE  /\ DOMAIN cursor' = Subscribers
         /\ position' = Advanced("watch", "Market")
         /\ \A event \in Received("watch", Listens["watch"]) :
              Fresh("watch", "Market") /\ event = market[position]
         /\ UNCHANGED <<counters, sending, sent>>
<1> DEFINE q == Listens["watch"]
           polled == {q[i] : i \in {j \in DOMAIN q : \A f \in FirstFresh("watch", q) : j <= f}}
<1>0. "Market" \in Streams /\ "watch" \in Subscribers
  BY BusAssumption, MarketAssumption
<1>1. DOMAIN q = {1} /\ q[1] = "Market"
  BY MarketAssumption
<1>2. polled = {"Market"}
  <2>1. \A f \in FirstFresh("watch", q) : f = 1
    BY <1>1 DEF FirstFresh
  <2>2. {j \in DOMAIN q : \A f \in FirstFresh("watch", q) : j <= f} = {1}
    BY <1>1, <2>1
  <2> HIDE DEF q
  <2> QED BY <1>1, <2>2
<1>3. cursor' = [cursor EXCEPT !["watch"] =
                   [st \in Streams |-> IF st \in polled THEN Advanced("watch", st) ELSE @[st]]]
  BY DEF Poll
<1> HIDE DEF polled
<1>4. position' = Advanced("watch", "Market")
  BY <1>0, <1>2, <1>3 DEF Handed, position
<1>5. DOMAIN cursor' = Subscribers
  BY <1>3 DEF Handed
<1>8. ASSUME NEW event \in Received("watch", q)
      PROVE  Fresh("watch", "Market") /\ event = market[position]
  <2>1. PICK i \in FirstFresh("watch", q) : event = NextOf("watch", q[i])
    BY <1>8 DEF Received
  <2>2. i = 1 /\ Fresh("watch", q[i])
    BY <1>1, <2>1 DEF FirstFresh
  <2> QED BY <1>1, <2>1, <2>2 DEF NextOf, market, position
<1> QED BY <1>4, <1>5, <1>8 DEF Poll

\* The receivers of others are their own.
LEMMA DeskPolls ==
  ASSUME Handed, NEW q, Poll("desk", q)
  PROVE  DOMAIN cursor' = Subscribers /\ position' = position
BY DEF Poll, Handed, position

LEMMA HandedInit == MarketInit => Handed
<1> SUFFICES ASSUME MarketInit PROVE Handed
  OBVIOUS
<1>1. position = 1 /\ market = <<>>
  BY BusAssumption, MarketAssumption DEF MarketInit, BusInit, position, market
<1> QED BY <1>1 DEF MarketInit, BusInit, Handed

\* Watch either hands an event to the detector, or moves the receiver alone.
LEMMA WatchStep ==
  ASSUME Channel, Handed, Watch
  PROVE  /\ Handed'
         /\ place' # place =>
              /\ detector'.seq > detector.seq
              /\ detector'.halted <=>
                   \/ detector.halted
                   \/ /\ detector.known /\ detector'.at > detector.at
                      /\ place' - place > SevereTicks
<1>1. /\ DOMAIN cursor' = Subscribers
      /\ position' = Advanced("watch", "Market")
      /\ \A event \in Received("watch", Listens["watch"]) :
           Fresh("watch", "Market") /\ event = market[position]
      /\ market' = market
  BY WatchPolls DEF Watch, market
<1>2. /\ position \in Nat /\ place \in Nat /\ Len(market) \in Nat /\ Capacity \in Nat \ {0}
      /\ place < position /\ position >= 1 /\ position <= Len(market) + 1
  BY BusAssumption DEF Handed, Channel
<1>3. CASE UNCHANGED watch
  <2>1. place' = place /\ detector' = detector
    BY <1>3 DEF watch
  <2>2. position' \in 1 .. Len(market) + 1 /\ position' >= position
    BY <1>1, <1>2 DEF Advanced, Empty, Lagged, Oldest, position, market
  <2> QED BY <1>1, <1>2, <2>1, <2>2 DEF Handed
<1>4. ASSUME NEW event \in Received("watch", Listens["watch"]),
             ProcessMarketEvent(event), place' = position
      PROVE  /\ Handed'
             /\ place' # place =>
                  /\ detector'.seq > detector.seq
                  /\ detector'.halted <=>
                       \/ detector.halted
                       \/ /\ detector.known /\ detector'.at > detector.at
                          /\ place' - place > SevereTicks
  <2>1. Fresh("watch", "Market") /\ event = market[position]
    BY <1>1
  <2>2. position <= Len(market) /\ position' = position + 1
    BY <1>1, <1>2, <2>1 DEF Fresh, Empty, Lagged, Advanced, position, market
  <2>3. event \in Tick /\ event.seq = position
    BY <1>2, <2>1, <2>2 DEF Channel
  <2>4. PICK level \in Verdicts(event) :
          detector' = [known |-> TRUE, seq |-> event.seq, at |-> event.payload.at,
                       samples |-> IF /\ detector.known /\ event.payload.at > detector.at
                                      /\ detector.samples < MinSamples
                                   THEN detector.samples + 1 ELSE detector.samples,
                       halted |-> detector.halted \/ level = "severe"]
    BY <1>4 DEF ProcessMarketEvent
  <2>5. detector \in [known : BOOLEAN, seq : Nat, at : Nat, samples : Nat, halted : BOOLEAN]
    BY DEF Handed
  <2>6. /\ detector'.known = TRUE /\ detector'.seq = position
        /\ detector'.at = event.payload.at
        /\ detector'.halted = (detector.halted \/ level = "severe")
    BY <2>3, <2>4
  <2>7. event.seq \in Nat /\ event.payload.at \in Nat
    BY <2>3 DEF Tick
  <2>8. detector' \in [known : BOOLEAN, seq : Nat, at : Nat, samples : Nat, halted : BOOLEAN]
    <3>1. (IF /\ detector.known /\ event.payload.at > detector.at
              /\ detector.samples < MinSamples
           THEN detector.samples + 1 ELSE detector.samples) \in Nat
      BY <2>5
    <3>2. (detector.halted \/ level = "severe") \in BOOLEAN
      OBVIOUS
    <3> QED BY <2>4, <2>7, <3>1, <3>2
  <2>9. Handed'
    BY <1>1, <1>2, <1>4, <2>2, <2>6, <2>8 DEF Handed
  <2>10. place = detector.seq
    BY DEF Handed
  <2>11. detector'.seq > detector.seq
    BY <1>2, <2>6, <2>10
  <2>12. CASE detector.known /\ event.payload.at > detector.at
    <3>1. level = "severe" <=> MissedTicks(detector.seq, event.seq) >= SevereTicks
      <4> DEFINE missed == MissedTicks(detector.seq, event.seq)
      <4>1. level \in GapLevels(missed, detector.samples >= MinSamples)
        BY <2>12 DEF Verdicts
      <4>2. missed \in Nat
        BY <2>5, <2>7 DEF MissedTicks
      <4> HIDE DEF missed
      <4>3. level = "severe" <=> missed >= SevereTicks
        BY <4>1, <4>2, DetectorAssumption DEF GapLevels
      <4> QED BY <4>3 DEF missed
    <3>2. MissedTicks(detector.seq, event.seq) >= SevereTicks <=> position - place > SevereTicks
      BY <1>2, <2>3, <2>10, DetectorAssumption DEF MissedTicks
    <3>3. detector'.halted <=> detector.halted \/ position - place > SevereTicks
      BY <2>5, <2>6, <3>1, <3>2
    <3> QED BY <1>4, <2>6, <2>9, <2>11, <2>12, <3>3
  <2>13. CASE ~(detector.known /\ event.payload.at > detector.at)
    <3>1. level = "none"
      BY <2>13 DEF Verdicts
    <3> QED BY <1>4, <2>5, <2>6, <2>9, <2>11, <2>13, <3>1
  <2> QED BY <2>12, <2>13
<1>5. \/ UNCHANGED watch
      \/ \E event \in Received("watch", Listens["watch"]) :
           ProcessMarketEvent(event) /\ place' = position
  BY DEF Watch, position
<1> QED BY <1>3, <1>4, <1>5

\* No other step hands anything to the detector.
LEMMA HandedStep ==
  ASSUME Channel, Handed, [MarketNext]_marketVars
  PROVE  Handed' /\ (Watch \/ place' = place)
<1>1. CASE Watch
  BY <1>1, WatchStep
<1>2. ASSUME UNCHANGED <<cursor, detector, place>>, market' = market \/ Len(market') = Len(market) + 1
      PROVE  Handed' /\ place' = place
  <2>1. position' = position /\ Len(market) \in Nat
    BY <1>2 DEF position, Channel
  <2> QED BY <1>2, <2>1 DEF Handed
<1>3. CASE SendTick
  <2>1. PICK e : sent' = [sent EXCEPT !["Market"] = Append(@, e)]
    BY <1>3, MarketAssumption DEF SendTick, Send
  <2>2. Len(market') = Len(market) + 1
    BY <2>1, BusAssumption, MarketAssumption DEF Channel, market
  <2> QED BY <1>2, <1>3, <2>2 DEF SendTick, Send, watch
<1>4. CASE SendGap
  <2>1. market' = market
    BY <1>4, BusAssumption, MarketAssumption DEF SendGap, Send, market
  <2> QED BY <1>2, <1>4, <2>1 DEF SendGap, Send
<1>5. CASE NumberTick \/ NumberGap
  BY <1>2, <1>5 DEF NumberTick, NumberGap, TakeNumber, watch, market
<1>6. CASE \/ Start \/ Connect \/ Subscribe \/ Loop \/ ReceiveTick \/ ConnectionLost \/ FeedError
           \/ CountTick \/ Reconnect \/ Attempt \/ Resubscribe \/ Reconnected
  BY <1>2, <1>6 DEF Start, Connect, Subscribe, Loop, ReceiveTick, ConnectionLost, FeedError,
                    CountTick, Reconnect, Attempt, Resubscribe, Reconnected, bus, watch, market
<1>7. CASE Stop \/ Disconnect \/ Aborted \/ RequestShutdown \/ AbortTask \/ AnnounceShutdown
  BY <1>2, <1>7 DEF Stop, Disconnect, Aborted, RequestShutdown, AbortTask, AnnounceShutdown,
                    bus, watch, market
<1>8. CASE ResetHalt
  <2>1. UNCHANGED <<cursor, place, market>> /\ detector' = [detector EXCEPT !.halted = FALSE]
    BY <1>8 DEF ResetHalt, bus, market
  <2>2. /\ detector' \in [known : BOOLEAN, seq : Nat, at : Nat, samples : Nat, halted : BOOLEAN]
        /\ detector'.known = detector.known /\ detector'.seq = detector.seq
    BY <2>1 DEF Handed
  <2> QED BY <2>1, <2>2 DEF Handed, position
<1>9. CASE Desk
  <2>1. PICK q : Poll("desk", q)
    BY <1>9 DEF Desk
  <2>2. DOMAIN cursor' = Subscribers /\ position' = position
    BY <2>1, DeskPolls
  <2>3. UNCHANGED <<detector, place, market>>
    BY <1>9, <2>1 DEF Desk, Poll, watch, market
  <2> QED BY <2>2, <2>3 DEF Handed
<1>10. CASE UNCHANGED marketVars
  BY <1>2, <1>10 DEF marketVars, bus, watch, market
<1> QED BY <1>1, <1>3, <1>4, <1>5, <1>6, <1>7, <1>8, <1>9, <1>10 DEF MarketNext, Manager

LEMMA StreamInvariance == MarketSpec => [](Channel /\ Handed)
<1>1. MarketInit => Channel /\ Handed
  BY ChannelInit, HandedInit
<1>2. (Channel /\ Handed) /\ [MarketNext]_marketVars => (Channel /\ Handed)'
  BY ChannelStep, HandedStep
<1> QED BY <1>1, <1>2, PTL DEF MarketSpec

\* A consumer receives what the gateway publishes in the order of its numbers, for every
\* capacity of the channel and however many others listen, over losses and duplicates.
THEOREM ReceivedInOrder == MarketSpec => InOrder
<1>1. Channel /\ Handed /\ [MarketNext]_marketVars =>
        [place' # place => detector'.seq > detector.seq]_marketVars
  BY HandedStep, WatchStep
<1> QED BY <1>1, StreamInvariance, PTL DEF MarketSpec, InOrder

\* The detector halts trading exactly when so many events were overwritten between two
\* it was handed: its arithmetic on numbers is right because the numbers are places.
THEOREM HaltsForLosses == MarketSpec => HaltsOnLoss
<1>1. Channel /\ Handed /\ [MarketNext]_marketVars =>
        [place' # place =>
           (detector'.halted <=>
              \/ detector.halted
              \/ /\ detector.known /\ detector'.at > detector.at
                 /\ place' - place > SevereTicks)]_marketVars
  BY HandedStep, WatchStep
<1> QED BY <1>1, StreamInvariance, PTL DEF MarketSpec, HaltsOnLoss

-----------------------------------------------------------------------------
(* The store: the encoding *)

\* A delta, and what it is applied to, are as long as the newer payload.
LEMMA DeltaType ==
  ASSUME NEW prev \in Payload, NEW t \in Payload
  PROVE  /\ ComputeDelta(prev, t) \in Payload /\ Len(ComputeDelta(prev, t)) = Len(t)
         /\ ApplyDelta(prev, t) \in Payload /\ Len(ApplyDelta(prev, t)) = Len(t)
<1>1. ASSUME NEW i \in 1 .. Len(t)
      PROVE  XorBit(prev, t, i) \in BOOLEAN
  <2>1. t[i] \in BOOLEAN
    BY DEF Payload
  <2>2. (prev[i] # t[i]) \in BOOLEAN
    OBVIOUS
  <2> QED BY <2>1, <2>2 DEF XorBit
<1>2. Len(t) \in Nat
  BY DEF Payload
<1>3. [i \in 1 .. Len(t) |-> XorBit(prev, t, i)] \in [1 .. Len(t) -> BOOLEAN]
  BY <1>1
<1> QED BY <1>2, <1>3 DEF Payload, ComputeDelta, ApplyDelta

\* Applying a delta to the payload it was taken against gives the payload it was taken
\* of, whichever of the two is longer (compute_delta and apply_delta).
THEOREM DeltaRoundTrip ==
  ASSUME NEW prev \in Payload, NEW current \in Payload
  PROVE  ApplyDelta(prev, ComputeDelta(prev, current)) = current
<1> DEFINE delta == ComputeDelta(prev, current)
<1>1. delta \in Payload /\ Len(delta) = Len(current)
  BY DeltaType
<1>2. ApplyDelta(prev, delta) \in Payload /\ Len(ApplyDelta(prev, delta)) = Len(current)
  BY <1>1, DeltaType
<1>3. ASSUME NEW i \in 1 .. Len(current)
      PROVE  ApplyDelta(prev, delta)[i] = current[i]
  <2>1. current[i] \in BOOLEAN /\ (i <= Len(prev) => prev[i] \in BOOLEAN)
    BY DEF Payload
  <2>2. delta[i] = XorBit(prev, current, i)
    BY DEF ComputeDelta
  <2>3. ApplyDelta(prev, delta)[i] = XorBit(prev, delta, i)
    BY <1>1 DEF ApplyDelta
  <2>4. CASE i <= Len(prev)
    <3>1. ApplyDelta(prev, delta)[i] = (prev[i] # (prev[i] # current[i]))
      BY <2>2, <2>3, <2>4 DEF XorBit
    <3> QED BY <2>1, <2>4, <3>1
  <2>5. CASE ~(i <= Len(prev))
    BY <2>2, <2>3, <2>5 DEF XorBit
  <2> QED BY <2>4, <2>5
<1> QED BY <1>2, <1>3 DEF Payload
-----------------------------------------------------------------------------
(* Types *)

\* put keeps a partial function on 1 .. MaxSeq one
LEMMA PutType ==
  ASSUME NEW S, NEW f, DOMAIN f \subseteq 1 .. MaxSeq, f \in [DOMAIN f -> S],
         NEW key \in 1 .. MaxSeq, NEW value \in S
  PROVE  /\ DOMAIN Put(f, key, value) = DOMAIN f \cup {key}
         /\ Put(f, key, value) \in [DOMAIN f \cup {key} -> S]
BY DEF Put

\* A store in progress has an event.
InProgress == write # "none" => order.seq \in 1 .. MaxSeq

Typed == TypeOK /\ InProgress

LEMMA TypedInit == Init => Typed
<1> SUFFICES ASSUME Init PROVE Typed
  OBVIOUS
<1>1. <<>> \in Payload
  BY DEF Payload
<1>2. DOMAIN events = {} /\ DOMAIN acked = {}
  BY DEF Init
<1> QED BY <1>1, <1>2, StoreAssumption DEF Init, Typed, TypeOK, InProgress, NoOrder, Entry

LEMMA EncodedType ==
  ASSUME last \in Payload, NEW payload \in Payload
  PROVE  Encoded(payload) \in Entry
<1>1. ComputeDelta(last, payload) \in Payload
  BY DeltaType
<1>2. (Cardinality(index) % BaseInterval = 0) \in BOOLEAN
  OBVIOUS
<1> QED BY <1>1, <1>2 DEF Encoded, Entry

LEMMA TypedStep == Typed /\ [Next]_vars => Typed'
<1> SUFFICES ASSUME Typed, [Next]_vars PROVE Typed'
  OBVIOUS
<1> USE DEF Typed, TypeOK, InProgress
<1>1. ASSUME NEW seq \in 1 .. MaxSeq, NEW payload \in ByteStrings, Store(seq, payload)
      PROVE  Typed'
  <2>1. payload \in Payload
    BY StoreAssumption
  <2>2. Encoded(payload) \in Entry
    BY <2>1, EncodedType
  <2>3. (seq = order.seq) \in BOOLEAN
    OBVIOUS
  <2>4. order' \in [seq : 0 .. MaxSeq, payload : Payload, entry : Entry, again : BOOLEAN]
    BY <1>1, <2>1, <2>2, <2>3 DEF Store
  <2> QED BY <1>1, <2>4 DEF Store, trees
<1>2. CASE InsertEvent
  <2>1. /\ DOMAIN events' = DOMAIN events \cup {order.seq}
        /\ events' \in [DOMAIN events \cup {order.seq} -> Entry]
    <3>1. order.seq \in 1 .. MaxSeq /\ order.entry \in Entry
      BY <1>2 DEF InsertEvent, Writes
    <3>2. /\ DOMAIN Put(events, order.seq, order.entry) = DOMAIN events \cup {order.seq}
          /\ Put(events, order.seq, order.entry) \in [DOMAIN events \cup {order.seq} -> Entry]
      BY <3>1, PutType
    <3> QED BY <1>2, <3>2 DEF InsertEvent
  <2>2. order.seq \in 1 .. MaxSeq
    BY <1>2 DEF InsertEvent, Writes
  <2>3. DOMAIN events' \subseteq 1 .. MaxSeq
    BY <2>1, <2>2
  <2>4. events' \in [DOMAIN events' -> Entry]
    BY <2>1
  <2>5. /\ write' = "headers"
        /\ UNCHANGED <<headers, index, last, bases, order, acked, calm, faults>>
    BY <1>2 DEF InsertEvent, Writes
  <2> QED BY <2>2, <2>3, <2>4, <2>5
<1>3. CASE InsertHeader
  BY <1>3 DEF InsertHeader, Writes
<1>4. CASE InsertIndex
  BY <1>4 DEF InsertIndex, Writes
<1>5. CASE InsertLast
  BY <1>5 DEF InsertLast, Writes
<1>6. CASE InsertBase
  BY <1>6 DEF InsertBase, Writes
<1>7. CASE Flush
  <2>1. /\ DOMAIN acked' = DOMAIN acked \cup {order.seq}
        /\ acked' \in [DOMAIN acked \cup {order.seq} -> Payload]
    <3>1. order.seq \in 1 .. MaxSeq /\ order.payload \in Payload
      BY <1>7 DEF Flush
    <3>2. /\ DOMAIN Put(acked, order.seq, order.payload) = DOMAIN acked \cup {order.seq}
          /\ Put(acked, order.seq, order.payload) \in [DOMAIN acked \cup {order.seq} -> Payload]
      BY <3>1, PutType
    <3> QED BY <1>7, <3>2 DEF Flush
  <2>2. <<>> \in Payload
    BY DEF Payload
  <2>3. order' \in [seq : 0 .. MaxSeq, payload : Payload, entry : Entry, again : BOOLEAN]
    BY <1>7, <2>2, StoreAssumption DEF Flush, NoOrder, Entry
  <2>4. order.seq \in 1 .. MaxSeq
    BY <1>7 DEF Flush
  <2>5. DOMAIN acked' \subseteq 1 .. MaxSeq
    BY <2>1, <2>4
  <2>6. acked' \in [DOMAIN acked' -> Payload]
    BY <2>1
  <2>7. calm' \subseteq DOMAIN acked'
    BY <1>7, <2>1 DEF Flush
  <2>8. write' = "none" /\ UNCHANGED <<events, headers, index, last, bases, faults>>
    BY <1>7 DEF Flush, trees
  <2> QED BY <2>3, <2>5, <2>6, <2>7, <2>8
<1>8. CASE Crash
  BY <1>8, StoreAssumption DEF Crash, trees
<1>9. ASSUME NEW seq \in 1 .. MaxSeq, NEW ended \in BOOLEAN, RemoveEvent(seq, ended)
      PROVE  Typed'
  BY <1>9, StoreAssumption DEF RemoveEvent
<1>10. CASE UNCHANGED vars
  BY <1>10 DEF vars, trees
<1> QED BY <1>1, <1>2, <1>3, <1>4, <1>5, <1>6, <1>7, <1>8, <1>9, <1>10 DEF Next

\* Every reachable state of the trees, and of the store in progress, has its type.
THEOREM StoreTypeCorrect == Spec => []TypeOK
<1>1. Typed => TypeOK
  BY DEF Typed
<1> QED BY <1>1, TypedInit, TypedStep, PTL DEF Spec

-----------------------------------------------------------------------------
(* The index *)

\* What of an event is there at each write of its store
Written ==
  /\ write \in {"headers", "index", "last", "bases", "flush"} => order.seq \in DOMAIN events
  /\ write \in {"index", "last", "bases", "flush"} => order.seq \in headers

\* An index entry points at data and header, or at an event removed since: in whole,
\* or up to its header.
Backed ==
  \A seq \in index : seq \in DOMAIN events \cap headers \/ seq \in DOMAIN acked \ headers

IndexInv == Typed /\ Written /\ Backed

LEMMA IndexInit == Init => IndexInv
BY TypedInit DEF Init, IndexInv, Written, Backed

\* What a step may do to the index
BackedStep ==
  \A seq \in index' : seq \notin DOMAIN events' \cap headers'
     => seq \in index /\ seq \notin headers' /\ seq \in DOMAIN acked

LEMMA IndexStep == IndexInv /\ [Next]_vars => IndexInv' /\ [BackedStep]_vars
<1> SUFFICES ASSUME IndexInv, [Next]_vars PROVE Written' /\ Backed' /\ [BackedStep]_vars
  BY TypedStep DEF IndexInv
<1> USE DEF IndexInv, Written, Backed, BackedStep
<1>0. /\ DOMAIN events \subseteq 1 .. MaxSeq
      /\ write # "none" => order.seq \in 1 .. MaxSeq
  BY DEF Typed, TypeOK, InProgress
<1>1. ASSUME NEW seq \in 1 .. MaxSeq, NEW payload \in ByteStrings, Store(seq, payload)
      PROVE  Written' /\ Backed' /\ BackedStep
  BY <1>1 DEF Store, trees
<1>2. CASE InsertEvent
  <2>1. DOMAIN events' = DOMAIN events \cup {order.seq}
    BY <1>2 DEF InsertEvent, Put
  <2> QED BY <1>2, <2>1 DEF InsertEvent, Writes
<1>3. CASE InsertHeader
  BY <1>3 DEF InsertHeader, Writes
<1>4. CASE InsertIndex
  BY <1>4 DEF InsertIndex, Writes
<1>5. CASE InsertLast
  BY <1>5 DEF InsertLast, Writes
<1>6. CASE InsertBase
  BY <1>6 DEF InsertBase, Writes
<1>7. CASE Flush
  <2>1. DOMAIN acked \subseteq DOMAIN acked'
    BY <1>7 DEF Flush, Put
  <2>2. UNCHANGED trees /\ write' = "none"
    BY <1>7 DEF Flush
  <2> QED BY <2>1, <2>2 DEF trees
<1>8. CASE Crash
  BY <1>8 DEF Crash, trees
<1>9. ASSUME NEW seq \in 1 .. MaxSeq, NEW ended \in BOOLEAN, RemoveEvent(seq, ended)
      PROVE  Written' /\ Backed' /\ BackedStep
  <2>1. DOMAIN events \ {seq} \subseteq DOMAIN events'
    BY <1>9 DEF RemoveEvent
  <2>2. /\ headers' = headers \ {seq} /\ seq \in DOMAIN acked
        /\ UNCHANGED <<index, acked>> /\ write' = "none"
    BY <1>9 DEF RemoveEvent
  <2> QED BY <2>1, <2>2
<1>10. CASE UNCHANGED vars
  BY <1>10 DEF vars, trees
<1> QED BY <1>1, <1>2, <1>3, <1>4, <1>5, <1>6, <1>7, <1>8, <1>9, <1>10 DEF Next

\* No write of a store, no crash and no removal leaves the index pointing at an event
\* that was not written before it: what it points at in vain was removed.
THEOREM IndexIsBacked == Spec => IndexBacked
<1>1. IndexInv /\ [Next]_vars => [BackedStep]_vars
  BY IndexStep
<1>2. IndexInv /\ [Next]_vars => IndexInv'
  BY IndexStep
<1> QED BY <1>1, <1>2, IndexInit, PTL DEF Spec, IndexBacked, BackedStep

-----------------------------------------------------------------------------
(* Numbers *)

\* The greatest of some numbers up to b is one of them (find_base_before).
LEMMA GreatestNumber ==
  ASSUME NEW T \in SUBSET Nat, T # {}, NEW b \in Nat, \A x \in T : x <= b
  PROVE  Max(T) \in T /\ \A y \in T : y <= Max(T)
<1> DEFINE U == {n \in Nat : b - n \in T}
<1>1. PICK t \in T : TRUE
  OBVIOUS
<1>2. b - t \in Nat /\ b - (b - t) = t
  OBVIOUS
<1>3. U # {} /\ U \in SUBSET Nat
  BY <1>2
<1>4. PICK u \in U : \A y \in U : u <= y
  <2> HIDE DEF U
  <2> QED BY <1>3, LeastNumber
<1>5. b - u \in T
  BY <1>4
<1>6. ASSUME NEW y \in T PROVE b - u >= y
  <2>1. b - y \in Nat /\ b - (b - y) = y
    OBVIOUS
  <2>2. b - y \in U
    BY <2>1
  <2>3. u <= b - y /\ u \in Nat
    BY <1>4, <2>2
  <2> QED BY <2>3
<1>7. \E x \in T : \A y \in T : x >= y
  BY <1>5, <1>6
<1>8. Max(T) \in T /\ \A y \in T : Max(T) >= y
  BY <1>7 DEF Max
<1>9. Max(T) \in Nat
  BY <1>8
<1> QED BY <1>8, <1>9

-----------------------------------------------------------------------------
(* Walks *)

\* A step of a replay, over entries and an index that are given
StepIn(ev, ix, walked, n) ==
  IF n \in ix
  THEN IF ev[n].full THEN [payload |-> ev[n].data, loaded |-> TRUE]
       ELSE IF walked.loaded THEN [walked EXCEPT !.payload = ApplyDelta(@, ev[n].data)]
       ELSE walked
  ELSE walked

\* The states of a replay from an event to another one
IsWalk(g, ev, ix, first, start, seq) ==
  g = [n \in start - 1 .. seq |-> IF n < start THEN first ELSE StepIn(ev, ix, g[n - 1], n)]

\* The recursion of Decode defines a function.
LEMMA WalkExists ==
  ASSUME NEW ev, NEW ix, NEW first, NEW start \in Nat \ {0}, NEW seq \in Nat, start - 1 <= seq
  PROVE  \E g : IsWalk(g, ev, ix, first, start, seq)
<1> DEFINE S == {n \in Int : \E g : IsWalk(g, ev, ix, first, start, n)}
<1>1. start - 1 \in S
  <2> DEFINE g == [n \in start - 1 .. start - 1 |-> first]
  <2>1. IsWalk(g, ev, ix, first, start, start - 1)
    BY DEF IsWalk
  <2> QED BY <2>1
<1>2. ASSUME NEW m \in start - 1 .. seq - 1, m \in S
      PROVE  m + 1 \in S
  <2>1. PICK g : IsWalk(g, ev, ix, first, start, m)
    BY <1>2
  <2> DEFINE h == [n \in start - 1 .. m + 1 |->
                     IF n = m + 1 THEN StepIn(ev, ix, g[m], m + 1) ELSE g[n]]
  <2>2. \A n \in start - 1 .. m : h[n] = g[n]
    OBVIOUS
  <2>3. ASSUME NEW n \in start - 1 .. m + 1
        PROVE  h[n] = IF n < start THEN first ELSE StepIn(ev, ix, h[n - 1], n)
    <3>1. CASE n = m + 1
      <4>1. h[n - 1] = g[m] /\ ~(n < start)
        BY <3>1
      <4>2. h[n] = StepIn(ev, ix, g[m], n)
        BY <3>1
      <4> QED BY <4>1, <4>2
    <3>2. CASE n # m + 1
      <4>1. n \in start - 1 .. m /\ h[n] = g[n]
        BY <3>2
      <4>2. g[n] = IF n < start THEN first ELSE StepIn(ev, ix, g[n - 1], n)
        BY <2>1, <4>1 DEF IsWalk
      <4>3. ~(n < start) => h[n - 1] = g[n - 1]
        BY <3>2
      <4> QED BY <4>1, <4>2, <4>3
    <3> QED BY <3>1, <3>2
  <2>4. IsWalk(h, ev, ix, first, start, m + 1)
    <3>1. h = [n \in start - 1 .. m + 1 |-> h[n]]
      OBVIOUS
    <3> HIDE DEF h
    <3> QED BY <2>3, <3>1 DEF IsWalk
  <2> QED BY <2>4
<1>3. start - 1 .. seq \subseteq S
  <2> HIDE DEF S
  <2> QED BY <1>1, <1>2, IntervalInduction
<1> QED BY <1>3

\* The state a walk starts in
First(start) == [payload |-> <<>>, loaded |-> BasesBefore(start) = {}]

\* Decode, of entries and an index that are given
DecodeOf(ev, ix, first, start, seq) ==
  LET walked[n \in start - 1 .. seq] ==
        IF n < start THEN first ELSE StepIn(ev, ix, walked[n - 1], n)
  IN walked[seq]

LEMMA DecodeIs ==
  ASSUME NEW start, NEW seq
  PROVE  Decode(start, seq) = DecodeOf(events, index, First(start), start, seq)
BY DEF Decode, DecodeOf, StepIn, Replayed, First

\* Decode is the last state of a walk.
LEMMA DecodeWalks ==
  ASSUME NEW ev, NEW ix, NEW first, NEW start \in Nat \ {0}, NEW seq \in Nat, start - 1 <= seq
  PROVE  \E g : IsWalk(g, ev, ix, first, start, seq) /\ DecodeOf(ev, ix, first, start, seq) = g[seq]
<1> DEFINE g == CHOOSE h : IsWalk(h, ev, ix, first, start, seq)
<1>1. IsWalk(g, ev, ix, first, start, seq)
  BY WalkExists
<1>2. DecodeOf(ev, ix, first, start, seq) = g[seq]
  BY DEF DecodeOf, IsWalk
<1> QED BY <1>1, <1>2

\* Two walks of the same entries to the same first state are the same.
LEMMA WalkUnique ==
  ASSUME NEW start \in Nat \ {0}, NEW seq \in Nat, start - 1 <= seq,
         NEW ev, NEW ix, NEW first, NEW g, IsWalk(g, ev, ix, first, start, seq),
         NEW ev2, NEW ix2, NEW h, IsWalk(h, ev2, ix2, first, start, seq),
         \A n \in start .. seq : (n \in ix <=> n \in ix2) /\ (n \in ix => ev[n] = ev2[n])
  PROVE  g[seq] = h[seq]
<1> DEFINE S == {n \in start - 1 .. seq : g[n] = h[n]}
<1>1. start - 1 \in S
  BY DEF IsWalk
<1>2. ASSUME NEW n \in start - 1 .. seq - 1, n \in S PROVE n + 1 \in S
  <2>1. n + 1 \in start .. seq /\ (n + 1) - 1 = n /\ n + 1 \in start - 1 .. seq
    OBVIOUS
  <2>2. g[n + 1] = StepIn(ev, ix, g[n], n + 1)
    BY <2>1 DEF IsWalk
  <2>3. h[n + 1] = StepIn(ev2, ix2, h[n], n + 1)
    BY <2>1 DEF IsWalk
  <2>4. g[n] = h[n]
    BY <1>2
  <2>5. StepIn(ev, ix, g[n], n + 1) = StepIn(ev2, ix2, g[n], n + 1)
    BY <2>1 DEF StepIn
  <2> QED BY <2>1, <2>2, <2>3, <2>4, <2>5
<1>3. start - 1 .. seq \subseteq S
  <2> HIDE DEF S
  <2> QED BY <1>1, <1>2, IntervalInduction
<1> QED BY <1>3

\* A walk that starts earlier, loaded or not, has found what one from a base finds.
LEMMA WalkFromBase ==
  ASSUME NEW low \in Nat \ {0}, NEW start \in Nat \ {0}, NEW seq \in Nat,
         low <= start, start <= seq,
         NEW ev, NEW ix, NEW first, NEW other, ~first.loaded,
         NEW g, IsWalk(g, ev, ix, first, start, seq),
         NEW h, IsWalk(h, ev, ix, other, low, seq),
         g[seq].loaded
  PROVE  h[seq] = g[seq]
<1> DEFINE S == {n \in start - 1 .. seq : g[n].loaded => h[n] = g[n]}
<1>1. start - 1 \in S
  BY DEF IsWalk
<1>2. ASSUME NEW n \in start - 1 .. seq - 1, n \in S PROVE n + 1 \in S
  <2>1. /\ n + 1 \in start .. seq /\ (n + 1) - 1 = n /\ n + 1 \in start - 1 .. seq
        /\ n + 1 \in low .. seq /\ n + 1 \in low - 1 .. seq
    OBVIOUS
  <2>2. g[n + 1] = StepIn(ev, ix, g[n], n + 1)
    BY <2>1 DEF IsWalk
  <2>3. h[n + 1] = StepIn(ev, ix, h[n], n + 1)
    BY <2>1 DEF IsWalk
  <2>4. CASE g[n].loaded
    BY <1>2, <2>1, <2>2, <2>3, <2>4
  <2>5. CASE ~g[n].loaded /\ n + 1 \in ix /\ ev[n + 1].full
    BY <2>1, <2>2, <2>3, <2>5 DEF StepIn
  <2>6. CASE ~g[n].loaded /\ ~(n + 1 \in ix /\ ev[n + 1].full)
    <3>1. g[n + 1] = g[n]
      BY <2>2, <2>6 DEF StepIn
    <3> QED BY <2>1, <2>6, <3>1
  <2> QED BY <2>4, <2>5, <2>6
<1>3. start - 1 .. seq \subseteq S
  <2> HIDE DEF S
  <2> QED BY <1>1, <1>2, IntervalInduction
<1> QED BY <1>3

-----------------------------------------------------------------------------
(* Replay *)

\* A walk to an event that holds its payload whole finds it.
LEMMA FullIsFound ==
  ASSUME NEW start \in Nat \ {0}, NEW seq \in Nat, start <= seq,
         seq \in index, events[seq].full
  PROVE  Decode(start, seq) = [payload |-> events[seq].data, loaded |-> TRUE]
<1>1. PICK g : IsWalk(g, events, index, First(start), start, seq) /\ Decode(start, seq) = g[seq]
  BY DecodeWalks, DecodeIs
<1>2. g[seq] = StepIn(events, index, g[seq - 1], seq)
  BY <1>1 DEF IsWalk
<1> QED BY <1>1, <1>2 DEF StepIn

LEMMA StartType ==
  ASSUME bases \subseteq 1 .. MaxSeq, NEW seq \in 1 .. MaxSeq
  PROVE  /\ StartOf(seq) \in 1 .. MaxSeq /\ StartOf(seq) <= seq
         /\ BasesBefore(seq) # {} => /\ StartOf(seq) \in BasesBefore(seq)
                                     /\ \A b \in BasesBefore(seq) : b <= StartOf(seq)
         /\ BasesBefore(seq) = {} => StartOf(seq) = seq
<1> USE StoreAssumption
<1>0. BasesBefore(seq) \subseteq bases /\ \A b \in BasesBefore(seq) : b <= seq
  BY DEF BasesBefore
<1>1. BasesBefore(seq) \in SUBSET Nat /\ \A b \in BasesBefore(seq) : b <= seq /\ b \in 1 .. MaxSeq
  <2> HIDE DEF BasesBefore
  <2>1. \A b \in BasesBefore(seq) : b \in 1 .. MaxSeq
    BY <1>0
  <2>2. MaxSeq \in Nat
    OBVIOUS
  <2>3. \A b \in 1 .. MaxSeq : b \in Nat
    BY <2>2
  <2>4. BasesBefore(seq) \in SUBSET Nat
    BY <2>1, <2>3
  <2> QED BY <1>0, <2>1, <2>4
<1>2. CASE BasesBefore(seq) # {}
  <2>1. /\ Max(BasesBefore(seq)) \in BasesBefore(seq)
        /\ \A b \in BasesBefore(seq) : b <= Max(BasesBefore(seq))
    <3>1. seq \in Nat
      OBVIOUS
    <3> QED BY <1>1, <1>2, <3>1, GreatestNumber
  <2> QED BY <1>1, <1>2, <2>1 DEF StartOf
<1>3. CASE BasesBefore(seq) = {}
  BY <1>3 DEF StartOf
<1> QED BY <1>2, <1>3

\* A walk from an event with a base before it does not start loaded.
LEMMA StartsUnloaded ==
  ASSUME bases \subseteq 1 .. MaxSeq, NEW seq \in 1 .. MaxSeq, BasesBefore(seq) # {}
  PROVE  First(StartOf(seq)).loaded = FALSE
<1>1. StartOf(seq) \in BasesBefore(seq) /\ StartOf(seq) \in Nat
  BY StartType, StoreAssumption
<1>2. StartOf(seq) \in BasesBefore(StartOf(seq))
  BY <1>1 DEF BasesBefore
<1> QED BY <1>2 DEF First

\* What load reads of an event
Loads(seq, payload) ==
  /\ seq \in DOMAIN events \cap headers
  /\ \/ events[seq].full /\ payload = events[seq].data
     \/ /\ ~events[seq].full /\ seq \in index /\ Present(Walk(StartOf(seq), seq))
        /\ Decode(StartOf(seq), seq).loaded /\ payload = Decode(StartOf(seq), seq).payload

LEMMA LoadLoads ==
  ASSUME NEW seq, NEW payload
  PROVE  Load(seq) = {payload} <=> Loads(seq, payload)
BY DEF Load, Loads

\* The index has every event whose store has returned, and the one that is stored once
\* its entry is written.
Indexed ==
  /\ DOMAIN acked \subseteq index
  /\ write \in {"last", "bases", "flush"} => order.seq \in index

LEMMA IndexedStep ==
  ASSUME Typed, Indexed, [Next]_vars
  PROVE  Indexed'
<1>1. ASSUME NEW seq \in 1 .. MaxSeq, NEW payload \in ByteStrings, Store(seq, payload)
      PROVE  Indexed'
  BY <1>1 DEF Store, trees, Indexed
<1>2. CASE InsertEvent
  BY <1>2 DEF InsertEvent, Writes, Indexed
<1>3. CASE InsertHeader
  BY <1>3 DEF InsertHeader, Writes, Indexed
<1>4. CASE InsertIndex
  BY <1>4 DEF InsertIndex, Writes, Indexed
<1>5. CASE InsertLast
  BY <1>5 DEF InsertLast, Writes, Indexed
<1>6. CASE InsertBase
  BY <1>6 DEF InsertBase, Writes, Indexed
<1>7. CASE Flush
  <2>1. DOMAIN acked' = DOMAIN acked \cup {order.seq}
    BY <1>7 DEF Flush, Put
  <2>2. index' = index /\ write' = "none" /\ write = "flush"
    BY <1>7 DEF Flush, trees
  <2> QED BY <2>1, <2>2 DEF Indexed
<1>8. CASE Crash
  BY <1>8 DEF Crash, trees, Indexed
<1>9. ASSUME NEW seq \in 1 .. MaxSeq, NEW ended \in BOOLEAN, RemoveEvent(seq, ended)
      PROVE  Indexed'
  BY <1>9 DEF RemoveEvent, Indexed
<1>10. CASE UNCHANGED vars
  BY <1>10 DEF vars, trees, Indexed
<1> QED BY <1>1, <1>2, <1>3, <1>4, <1>5, <1>6, <1>7, <1>8, <1>9, <1>10 DEF Next

\* Whatever the trees hold, once the index has what was stored and the types are right,
\* a replay and a load of the same event agree.
LEMMA LoadAgreesWithReplay == Typed /\ Indexed => ReplayAgrees
<1> SUFFICES ASSUME Typed, Indexed, NEW from \in index, NEW seq \in DOMAIN acked,
                    seq >= from, BasesBefore(seq) # {}, Readable(seq)
             PROVE  seq \in DOMAIN Replay(from) /\ Replay(from)[seq] = acked[seq]
  BY DEF ReplayAgrees
<1> DEFINE low == StartOf(from)  start == StartOf(seq)
<1>1. /\ bases \subseteq 1 .. MaxSeq /\ from \in 1 .. MaxSeq /\ seq \in 1 .. MaxSeq
      /\ MaxSeq \in Nat /\ seq \in index
  BY StoreAssumption DEF Typed, TypeOK, Indexed
<1>2. /\ low \in 1 .. MaxSeq /\ low <= from
      /\ BasesBefore(from) # {} => low \in BasesBefore(from)
      /\ BasesBefore(from) = {} => low = from
  BY <1>1, StartType
<1>3. start \in BasesBefore(seq) /\ start \in 1 .. MaxSeq /\ start <= seq
      /\ \A b \in BasesBefore(seq) : b <= start
  BY <1>1, StartType
<1>4. low <= start
  <2> HIDE DEF low, start
  <2>1. CASE BasesBefore(from) # {}
    <3>1. low \in BasesBefore(seq)
      BY <1>1, <1>2, <2>1 DEF BasesBefore
    <3> QED BY <1>3, <3>1
  <2>2. CASE BasesBefore(from) = {}
    <3>1. ~(start <= from)
      BY <1>1, <1>3, <2>2 DEF BasesBefore
    <3> QED BY <1>1, <1>2, <1>3, <2>2, <3>1
  <2> QED BY <2>1, <2>2
<1>5. Loads(seq, acked[seq])
  BY LoadLoads DEF Readable
<1>6. Decode(low, seq).loaded /\ Decode(low, seq).payload = acked[seq]
  <2>0. low \in Nat \ {0} /\ start \in Nat \ {0} /\ seq \in Nat /\ low <= seq
        /\ low - 1 <= seq /\ start - 1 <= seq
    <3> HIDE DEF low, start
    <3> QED BY <1>1, <1>2, <1>3, <1>4
  <2>1. CASE events[seq].full
    <3>1. Decode(low, seq) = [payload |-> events[seq].data, loaded |-> TRUE]
      <4> HIDE DEF low, start
      <4> QED BY <1>1, <2>0, <2>1, FullIsFound
    <3> QED BY <1>5, <2>1, <3>1 DEF Loads
  <2>2. CASE ~events[seq].full
    <3>1. Decode(start, seq).loaded /\ Decode(start, seq).payload = acked[seq]
      BY <1>5, <2>2 DEF Loads
    <3>2. ~First(start).loaded
      BY <1>1, StartsUnloaded
    <3> HIDE DEF low, start
    <3>3. PICK g : IsWalk(g, events, index, First(start), start, seq)
                   /\ Decode(start, seq) = g[seq]
      BY <2>0, DecodeWalks, DecodeIs
    <3>4. PICK h : IsWalk(h, events, index, First(low), low, seq) /\ Decode(low, seq) = h[seq]
      BY <2>0, DecodeWalks, DecodeIs
    <3>5. h[seq] = g[seq]
      BY <1>3, <1>4, <2>0, <3>1, <3>2, <3>3, <3>4, WalkFromBase
    <3> QED BY <3>1, <3>3, <3>4, <3>5
  <2> QED BY <2>1, <2>2
<1>7. seq \in Walk(from, MaxSeq)
  BY <1>1 DEF Walk
<1> QED BY <1>6, <1>7 DEF Replay

\* In every reachable state, whatever was lost or removed, replay finds for an event
\* with a base before it what load finds.
THEOREM ReplayAlwaysAgrees == Spec => []ReplayAgrees
<1>1. Init => Typed /\ Indexed
  BY TypedInit DEF Init, Indexed
<1>2. Typed /\ Indexed /\ [Next]_vars => Typed' /\ Indexed'
  BY TypedStep, IndexedStep
<1> QED BY <1>1, <1>2, LoadAgreesWithReplay, PTL DEF Spec

-----------------------------------------------------------------------------
(* What was readable *)

\* All that a load of an event reads stays as it is.
Kept(seq) ==
  /\ \A n \in 1 .. seq :
       /\ n \in DOMAIN events' <=> n \in DOMAIN events
       /\ n \in DOMAIN events => events'[n] = events[n]
       /\ n \in index' <=> n \in index
       /\ n \in bases' <=> n \in bases
  /\ seq \in headers' <=> seq \in headers

LEMMA KeptStart ==
  ASSUME NEW seq \in 1 .. MaxSeq, bases \subseteq 1 .. MaxSeq, bases' \subseteq 1 .. MaxSeq,
         Kept(seq), NEW n \in 1 .. seq
  PROVE  BasesBefore(n)' = BasesBefore(n)
<1> USE StoreAssumption
<1>1. \A b \in bases' : b <= n => b \in 1 .. seq
  OBVIOUS
<1>2. \A b \in bases : b <= n => b \in 1 .. seq
  OBVIOUS
<1> QED BY <1>1, <1>2 DEF BasesBefore, Kept

LEMMA KeptLoads ==
  ASSUME NEW seq \in 1 .. MaxSeq, bases \subseteq 1 .. MaxSeq, bases' \subseteq 1 .. MaxSeq,
         index' \subseteq 1 .. MaxSeq,
         Kept(seq), NEW payload, Loads(seq, payload)
  PROVE  Loads(seq, payload)'
<1>1. PICK start \in 1 .. MaxSeq : start = StartOf(seq) /\ start <= seq
  BY StartType
<1>2. seq \in Nat /\ start \in Nat \ {0} /\ seq \in 1 .. seq /\ start \in 1 .. seq /\ start - 1 <= seq
  BY <1>1, StoreAssumption
<1>3. BasesBefore(seq)' = BasesBefore(seq) /\ BasesBefore(start)' = BasesBefore(start)
  BY <1>2, KeptStart
<1>4. StartOf(seq)' = start
  BY <1>1, <1>3 DEF StartOf
<1>5. seq \in DOMAIN events' \cap headers' /\ events'[seq] = events[seq]
  BY <1>2 DEF Kept, Loads
<1>6. CASE events[seq].full
  BY <1>5, <1>6 DEF Loads
<1>7. CASE ~events[seq].full
  <2>1. /\ seq \in index /\ Present(Walk(start, seq))
        /\ Decode(start, seq).loaded /\ payload = Decode(start, seq).payload
    BY <1>1, <1>7 DEF Loads
  <2>2. \A n \in start .. seq : n \in 1 .. seq
    BY <1>2
  <2>3. \A n \in index : start <= n /\ n <= seq => n \in DOMAIN events
    BY <2>1 DEF Present, Walk
  <2>4. \A n \in start .. seq : (n \in index <=> n \in index') /\ (n \in index => events[n] = events'[n])
    <3> SUFFICES ASSUME NEW n \in start .. seq
                 PROVE  (n \in index <=> n \in index') /\ (n \in index => events[n] = events'[n])
      OBVIOUS
    <3>1. n \in 1 .. seq /\ start <= n /\ n <= seq
      BY <1>2, <2>2
    <3> QED BY <2>3, <3>1 DEF Kept
  <2>5. Decode(start, seq)' = Decode(start, seq)
    <3>1. PICK g : /\ IsWalk(g, events, index, First(start), start, seq)
                   /\ DecodeOf(events, index, First(start), start, seq) = g[seq]
      BY <1>2, DecodeWalks
    <3>2. PICK h : /\ IsWalk(h, events', index', First(start), start, seq)
                   /\ DecodeOf(events', index', First(start), start, seq) = h[seq]
      BY <1>2, DecodeWalks
    <3>3. g[seq] = h[seq]
      BY <1>2, <2>4, <3>1, <3>2, WalkUnique
    <3>4. Decode(start, seq) = DecodeOf(events, index, First(start), start, seq)
      BY DecodeIs
    <3>5. Decode(start, seq)' = DecodeOf(events', index', First(start), start, seq)
      BY <1>3 DEF Decode, DecodeOf, StepIn, Replayed, First
    <3> QED BY <3>1, <3>2, <3>3, <3>4, <3>5
  <2>6. Present(Walk(start, seq))'
    <3>1. ASSUME NEW n \in index', start <= n, n <= seq PROVE n \in DOMAIN events'
      <4>1. n \in 1 .. seq
        BY <1>2, <3>1, StoreAssumption
      <4> QED BY <2>3, <3>1, <4>1 DEF Kept
    <3> QED BY <3>1 DEF Present, Walk
  <2>7. seq \in index'
    BY <1>2, <2>1 DEF Kept
  <2> QED BY <1>4, <1>5, <1>7, <2>1, <2>5, <2>6, <2>7 DEF Loads
<1> QED BY <1>6, <1>7

\* The event being stored, or left interrupted, comes after all whose store has returned.
Ahead == order.seq # 0 => \A s \in DOMAIN acked : s < order.seq

LEMMA NextAfter ==
  ASSUME Typed, Ahead, NEW seq \in 1 .. MaxSeq, seq \in NextEvents
  PROVE  /\ \A s \in DOMAIN acked : s < seq
         /\ Interrupted => order.seq <= seq
<1> DEFINE own  == IF Interrupted THEN {order.seq} ELSE {}
           past == DOMAIN acked \cup own
           top  == IF past = {} THEN 0 ELSE Max(past)
<1>1. past \subseteq 0 .. MaxSeq
  BY StoreAssumption DEF Typed, TypeOK
<1>2. seq \in own \/ seq = top + 1 \/ seq = top + 2
  BY DEF NextEvents
<1>3. CASE seq \in own
  BY <1>3 DEF Ahead
<1>4. CASE seq \notin own
  <2>1. top \in Nat /\ \A s \in past : s <= top
    <3> HIDE DEF past
    <3>1. CASE past = {}
      BY <3>1
    <3>2. CASE past # {}
      <4>1. past \in SUBSET Nat /\ \A s \in past : s <= MaxSeq
        BY <1>1, StoreAssumption
      <4>2. Max(past) \in past /\ \A s \in past : s <= Max(past)
        BY <3>2, <4>1, StoreAssumption, GreatestNumber
      <4> QED BY <3>2, <4>1, <4>2
    <3> QED BY <3>1, <3>2
  <2>2. \A s \in past : s \in Nat /\ s < seq
    <3> HIDE DEF past, top
    <3>1. \A s \in past : s \in Nat
      BY <1>1, StoreAssumption
    <3>2. seq = top + 1 \/ seq = top + 2
      BY <1>2, <1>4
    <3> QED BY <2>1, <3>1, <3>2
  <2> QED BY <2>2
<1> QED BY <1>3, <1>4

LEMMA AheadStep ==
  ASSUME Typed, Ahead, [Next]_vars
  PROVE  Ahead'
<1>1. ASSUME NEW seq \in 1 .. MaxSeq, NEW payload \in ByteStrings, Store(seq, payload)
      PROVE  Ahead'
  <2>1. \A s \in DOMAIN acked : s < seq
    BY <1>1, NextAfter DEF Store
  <2>2. order'.seq = seq /\ acked' = acked
    BY <1>1 DEF Store
  <2> QED BY <2>1, <2>2 DEF Ahead
<1>2. CASE InsertEvent \/ InsertHeader \/ InsertIndex \/ InsertLast \/ InsertBase
  BY <1>2 DEF InsertEvent, InsertHeader, InsertIndex, InsertLast, InsertBase, Writes, Ahead
<1>3. CASE Flush
  BY <1>3 DEF Flush, NoOrder, Ahead
<1>4. CASE Crash
  BY <1>4 DEF Crash, Ahead
<1>5. ASSUME NEW seq \in 1 .. MaxSeq, NEW ended \in BOOLEAN, RemoveEvent(seq, ended)
      PROVE  Ahead'
  BY <1>5 DEF RemoveEvent, Ahead
<1>6. CASE UNCHANGED vars
  BY <1>6 DEF vars, Ahead
<1> QED BY <1>1, <1>2, <1>3, <1>4, <1>5, <1>6 DEF Next

DurableInv == Typed /\ Ahead

\* What a step may do to an event that can be read
DurableStep ==
  \A seq \in DOMAIN acked :
    Readable(seq) /\ (\A x \in Removed : x > seq) => Readable(seq)'

\* A step that writes of no event at or before one, or removes a later one, keeps it.
LEMMA ReadableKept ==
  ASSUME Typed, Typed', NEW seq \in DOMAIN acked, Kept(seq), Readable(seq),
         seq \in DOMAIN acked', acked'[seq] = acked[seq]
  PROVE  Readable(seq)'
<1>1. seq \in 1 .. MaxSeq /\ bases \subseteq 1 .. MaxSeq /\ bases' \subseteq 1 .. MaxSeq
      /\ index' \subseteq 1 .. MaxSeq
  BY DEF Typed, TypeOK
<1>2. PICK payload : payload = acked[seq]
  OBVIOUS
<1>3. Loads(seq, payload)
  BY <1>2, LoadLoads DEF Readable
<1>4. Loads(seq, payload)'
  BY <1>1, <1>3, KeptLoads
<1>5. Load(seq)' = {payload}
  BY <1>4 DEF Load, Loads
<1> QED BY <1>2, <1>5 DEF Readable

LEMMA DurableStepHolds == DurableInv /\ [Next]_vars => [DurableStep]_vars
<1> SUFFICES ASSUME DurableInv, [Next]_vars, NEW seq \in DOMAIN acked, Readable(seq),
                    \A x \in Removed : x > seq
             PROVE  Readable(seq)' \/ UNCHANGED vars
  BY DEF DurableStep
<1>1. seq \in 1 .. MaxSeq /\ Typed /\ Typed'
  BY TypedStep DEF DurableInv, Typed, TypeOK
<1>2. write # "none" => order.seq \in 1 .. MaxSeq /\ seq < order.seq
  BY <1>1 DEF DurableInv, Typed, InProgress, Ahead
<1>3. ASSUME NEW s \in 1 .. MaxSeq, NEW payload \in ByteStrings, Store(s, payload)
      PROVE  Kept(seq) /\ acked' = acked
  BY <1>3 DEF Store, trees, Kept
<1>4. ASSUME InsertEvent \/ InsertHeader \/ InsertIndex \/ InsertLast \/ InsertBase
      PROVE  Kept(seq) /\ acked' = acked
  <2>1. write # "none" /\ acked' = acked
    BY <1>4 DEF InsertEvent, InsertHeader, InsertIndex, InsertLast, InsertBase, Writes
  <2>2. \A n \in 1 .. seq : n # order.seq
    BY <1>1, <1>2, <2>1
  <2>3. seq # order.seq
    BY <1>1, <1>2, <2>1
  <2>4. CASE InsertEvent
    <3>1. /\ \A n \in DOMAIN events' : n \in DOMAIN events \/ n = order.seq
          /\ \A n \in DOMAIN events : n \in DOMAIN events' /\ (n # order.seq => events'[n] = events[n])
      BY <2>4 DEF InsertEvent, Put
    <3>2. UNCHANGED <<headers, index, bases>>
      BY <2>4 DEF InsertEvent
    <3> QED BY <2>1, <2>2, <3>1, <3>2 DEF Kept
  <2>5. CASE InsertHeader \/ InsertIndex \/ InsertLast \/ InsertBase
    BY <2>1, <2>2, <2>3, <2>5 DEF InsertHeader, InsertIndex, InsertLast, InsertBase, Kept
  <2> QED BY <1>4, <2>4, <2>5
<1>5. ASSUME Flush
      PROVE  Kept(seq) /\ seq \in DOMAIN acked' /\ acked'[seq] = acked[seq]
  <2>1. UNCHANGED trees
    BY <1>5 DEF Flush
  <2>2. seq # order.seq
    BY <1>1, <1>2, <1>5 DEF Flush
  <2>3. seq \in DOMAIN acked' /\ acked'[seq] = acked[seq]
    BY <1>5, <2>2 DEF Flush, Put
  <2> QED BY <2>1, <2>3 DEF trees, Kept
<1>6. ASSUME Crash
      PROVE  Kept(seq) /\ acked' = acked
  BY <1>6 DEF Crash, trees, Kept
<1>7. ASSUME NEW s \in 1 .. MaxSeq, NEW ended \in BOOLEAN, RemoveEvent(s, ended)
      PROVE  Kept(seq) /\ acked' = acked
  <2>1. UNCHANGED <<index, bases, acked>>
    BY <1>7 DEF RemoveEvent
  <2>2. s \in headers => s > seq
    BY <1>7 DEF RemoveEvent, Removed
  <2>3. seq \in headers' <=> seq \in headers
    BY <1>1, <1>7, <2>2 DEF RemoveEvent
  <2>4. CASE ended
    BY <1>7, <2>1, <2>3, <2>4 DEF RemoveEvent, Kept
  <2>5. CASE ~ended
    <3>1. /\ \A n \in DOMAIN events' : n \in DOMAIN events /\ events'[n] = events[n]
          /\ \A n \in DOMAIN events : n # s => n \in DOMAIN events'
          /\ s \in DOMAIN events \ DOMAIN events'
      BY <1>7, <2>5 DEF RemoveEvent
    <3>2. s > seq
      BY <3>1 DEF Removed
    <3>3. \A n \in 1 .. seq : n # s
      BY <1>1, <3>2
    <3> QED BY <2>1, <2>3, <3>1, <3>3 DEF Kept
  <2> QED BY <2>4, <2>5
<1>8. Kept(seq) /\ seq \in DOMAIN acked' /\ acked'[seq] = acked[seq] => Readable(seq)'
  BY <1>1, ReadableKept
<1> QED BY <1>3, <1>4, <1>5, <1>6, <1>7, <1>8 DEF Next

\* What can be read can still be read after any write of any store, any crash, and the
\* removal of a later event.
THEOREM ReadableStaysReadable == Spec => Durable
<1>1. Init => DurableInv
  BY TypedInit DEF Init, NoOrder, DurableInv, Ahead
<1>2. DurableInv /\ [Next]_vars => DurableInv'
  BY TypedStep, AheadStep DEF DurableInv
<1> QED BY <1>1, <1>2, DurableStepHolds, PTL DEF Spec, Durable, DurableStep

-----------------------------------------------------------------------------
(* The calm after a fault *)

\* No tree knows of an event after both those whose store has returned and the one at hand.
Bounded ==
  \A n \in DOMAIN events \cup headers \cup index \cup bases :
    n <= order.seq \/ \E s \in DOMAIN acked : n <= s

\* A store that was interrupted, or one that tries it again, ends the calm.
Undisturbed == calm # {} => ~order.again /\ (write = "none" => order.seq = 0)

\* The event stored before another one since the last fault
Before(p, seq) == p < seq /\ \A q \in calm : q < seq => q <= p

\* What was stored since the last fault is in the trees: whole, with its base, or as a
\* delta on the event stored before it.
CalmStored ==
  \A seq \in calm :
    /\ seq \in DOMAIN events /\ seq \in headers /\ seq \in index
    /\ events[seq].full => seq \in bases /\ events[seq].data = acked[seq]
    /\ ~events[seq].full => seq \notin bases
    /\ \A p \in calm : ~events[seq].full /\ Before(p, seq)
                       => events[seq].data = ComputeDelta(acked[p], acked[seq])

\* Nothing else is in the index from there on, but the event being stored.
CalmAlone ==
  \A c \in calm : \A n \in index : c <= n => n \in calm \/ n = order.seq

\* The payload noted last is that of the event stored last.
LastNoted ==
  /\ write \in {"bases", "flush"} => last = order.payload
  /\ write \notin {"bases", "flush"} /\ calm # {} => last = acked[Max(calm)]

\* What the store in progress has encoded, and what of it is in the trees
Underway ==
  write # "none" /\ ~order.again =>
    /\ order.entry.full => order.entry.data = order.payload
    /\ ~order.entry.full /\ calm # {}
         => order.entry.data = ComputeDelta(acked[Max(calm)], order.payload)
    /\ write # "events" => order.seq \in DOMAIN events /\ events[order.seq] = order.entry
    /\ write # "flush" => order.seq \notin bases
    /\ write = "flush" => (order.seq \in bases <=> order.entry.full)

CalmInv ==
  /\ IndexInv /\ Indexed /\ Ahead /\ Bounded /\ Undisturbed
  /\ CalmStored /\ CalmAlone /\ LastNoted /\ Underway

LEMMA CalmInit == Init => CalmInv
<1> SUFFICES ASSUME Init PROVE CalmInv
  OBVIOUS
<1> USE DEF Init, NoOrder
<1>1. IndexInv /\ Indexed /\ Ahead
  BY IndexInit DEF Indexed, Ahead
<1>2. Bounded /\ Undisturbed /\ CalmStored /\ CalmAlone /\ LastNoted /\ Underway
  BY DEF Bounded, Undisturbed, CalmStored, CalmAlone, LastNoted, Underway
<1> QED BY <1>1, <1>2 DEF CalmInv

\* The event stored last since the last fault
LEMMA LatestCalm ==
  ASSUME Typed, calm # {}
  PROVE  Max(calm) \in calm /\ \A c \in calm : c <= Max(calm)
<1>1. calm \in SUBSET Nat /\ \A c \in calm : c <= MaxSeq
  BY StoreAssumption DEF Typed, TypeOK
<1> QED BY <1>1, StoreAssumption, GreatestNumber

\* The parts of CalmInv that a step must be shown to keep
Calmness == Bounded /\ Undisturbed /\ CalmStored /\ CalmAlone /\ LastNoted /\ Underway

LEMMA CalmNumbers ==
  ASSUME Typed
  PROVE  /\ \A n \in DOMAIN events \cup headers \cup index \cup bases : n \in Nat /\ 0 < n
         /\ \A s \in DOMAIN acked : s \in Nat /\ 0 < s
         /\ order.seq \in Nat /\ calm \subseteq DOMAIN acked
<1>1. DOMAIN events \cup headers \cup index \cup bases \subseteq 1 .. MaxSeq
  BY DEF Typed, TypeOK
<1>2. DOMAIN acked \subseteq 1 .. MaxSeq /\ order.seq \in 0 .. MaxSeq /\ calm \subseteq DOMAIN acked
  BY DEF Typed, TypeOK
<1> QED BY <1>1, <1>2, StoreAssumption

LEMMA CalmStore ==
  ASSUME CalmInv, NEW seq \in 1 .. MaxSeq, NEW payload \in ByteStrings, Store(seq, payload)
  PROVE  Calmness'
<1> USE DEF CalmInv, IndexInv
<1>1. /\ write = "none" /\ write' = "events"
      /\ UNCHANGED <<events, headers, index, last, bases, acked, calm>>
      /\ order'.seq = seq /\ order'.payload = payload /\ order'.entry = Encoded(payload)
      /\ order'.again = (seq = order.seq) /\ seq \in NextEvents
  BY DEF Store, trees
<1>2. \A s \in DOMAIN acked : s < seq
  BY <1>1, NextAfter
<1>3. order.seq <= seq /\ seq \in Nat /\ order.seq \in Nat /\ 0 < seq
  <2>1. order.seq # 0 => Interrupted
    BY DEF Interrupted, NoOrder
  <2>2. seq \in Nat /\ 0 < seq
    BY StoreAssumption
  <2> QED BY <1>1, <2>1, <2>2, NextAfter, CalmNumbers
<1>4. Bounded'
  <2>1. ASSUME NEW n \in DOMAIN events \cup headers \cup index \cup bases
        PROVE  n <= seq
    <3>1. n <= order.seq \/ \E s \in DOMAIN acked : n <= s
      BY DEF Bounded
    <3> QED BY <1>2, <1>3, <3>1, CalmNumbers
  <2> QED BY <1>1, <2>1 DEF Bounded
<1>5. calm # {} => order.seq = 0 /\ seq # order.seq
  BY <1>1, <1>3 DEF Undisturbed
<1>6. Undisturbed'
  BY <1>1, <1>5 DEF Undisturbed
<1>7. CalmStored'
  BY <1>1 DEF CalmStored, Before
<1>8. CalmAlone'
  <2>1. \A n \in index : 0 < n /\ n \in Nat
    BY CalmNumbers
  <2> QED BY <1>1, <1>5, <2>1 DEF CalmAlone
<1>9. LastNoted'
  BY <1>1 DEF LastNoted
<1>10. Underway'
  <2>1. Encoded(payload).full => Encoded(payload).data = payload
    BY DEF Encoded
  <2>2. ~Encoded(payload).full => Encoded(payload).data = ComputeDelta(last, payload)
    BY DEF Encoded
  <2>3. calm # {} => last = acked[Max(calm)]
    BY <1>1 DEF LastNoted
  <2>4. seq # order.seq => seq \notin bases
    <3> SUFFICES ASSUME seq # order.seq, seq \in bases PROVE FALSE
      OBVIOUS
    <3>1. seq <= order.seq \/ \E s \in DOMAIN acked : seq <= s
      BY DEF Bounded
    <3> QED BY <1>2, <1>3, <3>1, CalmNumbers
  <2> QED BY <1>1, <2>1, <2>2, <2>3, <2>4 DEF Underway
<1> QED BY <1>4, <1>6, <1>7, <1>8, <1>9, <1>10 DEF Calmness

\* The insertions of a store
LEMMA CalmInsert ==
  ASSUME CalmInv, InsertEvent \/ InsertHeader \/ InsertIndex \/ InsertLast \/ InsertBase
  PROVE  Calmness'
<1> USE DEF CalmInv, IndexInv
<1>1. write # "none" /\ UNCHANGED <<order, acked, calm, faults>> /\ order.seq # 0
  BY CalmNumbers DEF InsertEvent, InsertHeader, InsertIndex, InsertLast, InsertBase, Writes,
                     Typed, InProgress
<1>2. \A c \in calm : c # order.seq /\ c < order.seq
  BY <1>1, CalmNumbers DEF Ahead
<1>3. Undisturbed'
  BY <1>1 DEF Undisturbed, InsertEvent, InsertHeader, InsertIndex, InsertLast, InsertBase, Writes
<1>4. CASE InsertEvent
  <2>1. /\ write = "events" /\ write' = "headers"
        /\ UNCHANGED <<headers, index, last, bases>>
        /\ DOMAIN events' = DOMAIN events \cup {order.seq} /\ events'[order.seq] = order.entry
        /\ \A n \in DOMAIN events : n # order.seq => events'[n] = events[n]
    BY <1>4 DEF InsertEvent, Writes, Put
  <2>2. Bounded'
    BY <1>1, <2>1, CalmNumbers DEF Bounded
  <2>3. CalmStored'
    BY <1>1, <1>2, <2>1 DEF CalmStored, Before
  <2>4. CalmAlone' /\ LastNoted' /\ Underway'
    BY <1>1, <2>1 DEF CalmAlone, LastNoted, Underway
  <2> QED BY <1>3, <2>2, <2>3, <2>4 DEF Calmness
<1>5. CASE InsertHeader
  <2>1. /\ write = "headers" /\ write' = "index" /\ headers' = headers \cup {order.seq}
        /\ UNCHANGED <<events, index, last, bases>>
    BY <1>5 DEF InsertHeader, Writes
  <2>2. Bounded'
    BY <1>1, <2>1, CalmNumbers DEF Bounded
  <2>3. CalmStored'
    BY <1>1, <2>1 DEF CalmStored, Before
  <2>4. CalmAlone' /\ LastNoted' /\ Underway'
    BY <1>1, <2>1 DEF CalmAlone, LastNoted, Underway
  <2> QED BY <1>3, <2>2, <2>3, <2>4 DEF Calmness
<1>6. CASE InsertIndex
  <2>1. /\ write = "index" /\ write' = "last" /\ index' = index \cup {order.seq}
        /\ UNCHANGED <<events, headers, last, bases>>
    BY <1>6 DEF InsertIndex, Writes
  <2>2. Bounded'
    BY <1>1, <2>1, CalmNumbers DEF Bounded
  <2>3. CalmStored'
    BY <1>1, <2>1 DEF CalmStored, Before
  <2>4. CalmAlone' /\ LastNoted' /\ Underway'
    BY <1>1, <2>1 DEF CalmAlone, LastNoted, Underway
  <2> QED BY <1>3, <2>2, <2>3, <2>4 DEF Calmness
<1>7. CASE InsertLast
  <2>1. /\ write = "last" /\ write' = "bases" /\ last' = order.payload
        /\ UNCHANGED <<events, headers, index, bases>>
    BY <1>7 DEF InsertLast, Writes
  <2>2. Bounded'
    BY <1>1, <2>1 DEF Bounded
  <2>3. CalmStored'
    BY <1>1, <2>1 DEF CalmStored, Before
  <2>4. CalmAlone' /\ LastNoted' /\ Underway'
    BY <1>1, <2>1 DEF CalmAlone, LastNoted, Underway
  <2> QED BY <1>3, <2>2, <2>3, <2>4 DEF Calmness
<1>8. CASE InsertBase
  <2>1. /\ write = "bases" /\ write' = "flush"
        /\ bases' = IF order.entry.full THEN bases \cup {order.seq} ELSE bases
        /\ UNCHANGED <<events, headers, index, last>>
    BY <1>8 DEF InsertBase, Writes
  <2>2. Bounded'
    BY <1>1, <2>1, CalmNumbers DEF Bounded
  <2>3. CalmStored'
    BY <1>1, <1>2, <2>1 DEF CalmStored, Before
  <2>4. CalmAlone' /\ LastNoted'
    BY <1>1, <2>1 DEF CalmAlone, LastNoted
  <2>5. Underway'
    BY <1>1, <2>1 DEF Underway
  <2> QED BY <1>3, <2>2, <2>3, <2>4, <2>5 DEF Calmness
<1> QED BY <1>4, <1>5, <1>6, <1>7, <1>8

\* The end of a store: its event is the next one of the calm, unless it was tried again.
LEMMA CalmFlush ==
  ASSUME CalmInv, Flush
  PROVE  Calmness'
<1> USE DEF CalmInv, IndexInv
<1>1. /\ write = "flush" /\ write' = "none" /\ order' = NoOrder /\ order'.seq = 0 /\ ~order'.again
      /\ UNCHANGED <<events, headers, index, last, bases>>
      /\ calm' = IF order.again THEN calm ELSE calm \cup {order.seq}
  BY DEF Flush, NoOrder, trees
<1>2. /\ DOMAIN acked' = DOMAIN acked \cup {order.seq} /\ acked'[order.seq] = order.payload
      /\ \A s \in DOMAIN acked : s # order.seq => acked'[s] = acked[s]
  BY DEF Flush, Put
<1>3. order.seq \in 1 .. MaxSeq /\ order.seq \in Nat /\ 0 < order.seq
  BY <1>1, StoreAssumption DEF Typed, InProgress
<1>4. \A s \in DOMAIN acked : s < order.seq /\ s # order.seq
  BY <1>3, CalmNumbers DEF Ahead
<1>5. \A n \in DOMAIN events \cup headers \cup index \cup bases : n <= order.seq
  <2> SUFFICES ASSUME NEW n \in DOMAIN events \cup headers \cup index \cup bases
               PROVE  n <= order.seq
    OBVIOUS
  <2>1. n <= order.seq \/ \E s \in DOMAIN acked : n <= s
    BY DEF Bounded
  <2> QED BY <1>3, <1>4, <2>1, CalmNumbers
<1>6. Bounded'
  BY <1>1, <1>2, <1>5 DEF Bounded
<1>7. Undisturbed'
  BY <1>1 DEF Undisturbed
<1>8. \A c \in calm : c \in DOMAIN acked /\ c \in Nat /\ c < order.seq /\ acked'[c] = acked[c]
  BY <1>2, <1>4, CalmNumbers
<1>9. CASE order.again
  <2>1. calm' = {}
    BY <1>1, <1>9 DEF Undisturbed
  <2>2. CalmStored' /\ CalmAlone' /\ LastNoted' /\ Underway'
    BY <1>1, <2>1 DEF CalmStored, CalmAlone, LastNoted, Underway
  <2> QED BY <1>6, <1>7, <2>2 DEF Calmness
<1>10. CASE ~order.again
  <2>1. calm' = calm \cup {order.seq}
    BY <1>1, <1>10
  <2>2. /\ order.seq \in DOMAIN events /\ order.seq \in headers /\ order.seq \in index
        /\ events[order.seq] = order.entry
        /\ order.seq \in bases <=> order.entry.full
        /\ order.entry.full => order.entry.data = order.payload
        /\ ~order.entry.full /\ calm # {}
             => order.entry.data = ComputeDelta(acked[Max(calm)], order.payload)
    BY <1>1, <1>10 DEF Written, Indexed, Underway
  <2>3. ASSUME NEW seq \in calm'
        PROVE  /\ seq \in DOMAIN events' /\ seq \in headers' /\ seq \in index'
               /\ events'[seq].full => seq \in bases' /\ events'[seq].data = acked'[seq]
               /\ ~events'[seq].full => seq \notin bases'
               /\ \A p \in calm' : ~events'[seq].full /\ Before(p, seq)'
                                  => events'[seq].data = ComputeDelta(acked'[p], acked'[seq])
    <3>1. CASE seq = order.seq
      <4>1. ASSUME NEW p \in calm', ~events[seq].full, Before(p, seq)'
            PROVE  events[seq].data = ComputeDelta(acked'[p], acked'[seq])
        <5>1. p < seq /\ \A q \in calm' : q < seq => q <= p
          BY <4>1 DEF Before
        <5>2. p \in calm
          BY <1>3, <2>1, <3>1, <5>1
        <5>3. Max(calm) \in calm /\ p <= Max(calm)
          BY <5>2, LatestCalm
        <5>4. Max(calm) <= p
          BY <1>8, <2>1, <3>1, <5>1, <5>3
        <5>5. p = Max(calm)
          BY <1>8, <5>2, <5>3, <5>4
        <5> QED BY <1>2, <1>8, <2>2, <3>1, <4>1, <5>2, <5>5
      <4> QED BY <1>1, <1>2, <2>2, <3>1, <4>1
    <3>2. CASE seq # order.seq
      <4>1. seq \in calm /\ acked'[seq] = acked[seq] /\ seq < order.seq /\ seq \in Nat
        BY <1>8, <2>1, <3>2
      <4>2. ASSUME NEW p \in calm', ~events[seq].full, Before(p, seq)'
            PROVE  events[seq].data = ComputeDelta(acked'[p], acked'[seq])
        <5>1. p < seq /\ \A q \in calm' : q < seq => q <= p
          BY <4>2 DEF Before
        <5>2. p \in calm
          BY <1>3, <2>1, <4>1, <5>1
        <5>3. Before(p, seq)
          BY <2>1, <5>1 DEF Before
        <5> QED BY <1>8, <4>1, <4>2, <5>2, <5>3 DEF CalmStored
      <4>3. /\ seq \in DOMAIN events /\ seq \in headers /\ seq \in index
            /\ events[seq].full => seq \in bases /\ events[seq].data = acked[seq]
            /\ ~events[seq].full => seq \notin bases
        BY <4>1 DEF CalmStored
      <4> QED BY <1>1, <4>1, <4>2, <4>3
    <3> QED BY <3>1, <3>2
  <2>4. CalmStored'
    BY <2>3 DEF CalmStored
  <2>5. CalmAlone'
    <3> SUFFICES ASSUME NEW c \in calm', NEW n \in index', c <= n PROVE n \in calm'
      BY DEF CalmAlone
    <3>1. n \in index /\ n <= order.seq /\ n \in Nat
      BY <1>1, <1>5, CalmNumbers
    <3>2. CASE c = order.seq
      BY <1>3, <2>1, <3>1, <3>2
    <3>3. CASE c # order.seq
      BY <2>1, <3>1, <3>3 DEF CalmAlone
    <3> QED BY <3>2, <3>3
  <2>6. LastNoted'
    <3>1. Typed'
      BY TypedStep DEF Next
    <3>2. \A c \in calm' : c <= order.seq /\ c \in Nat
      BY <1>3, <1>8, <2>1
    <3>3. Max(calm') \in calm' /\ \A c \in calm' : c <= Max(calm')
      <4>1. calm' \in SUBSET Nat /\ calm' # {}
        BY <2>1, <3>2
      <4> QED BY <1>3, <3>2, <4>1, GreatestNumber
    <3>4. Max(calm') = order.seq
      BY <1>3, <2>1, <3>2, <3>3
    <3>5. last = order.payload
      BY <1>1 DEF LastNoted
    <3> QED BY <1>1, <1>2, <3>4, <3>5 DEF LastNoted
  <2>7. Underway'
    BY <1>1 DEF Underway
  <2> QED BY <1>6, <1>7, <2>4, <2>5, <2>6, <2>7 DEF Calmness
<1> QED BY <1>9, <1>10

\* A crash and a removal end the calm.
LEMMA CalmFault ==
  ASSUME CalmInv,
         Crash \/ \E seq \in 1 .. MaxSeq, ended \in BOOLEAN : RemoveEvent(seq, ended)
  PROVE  Calmness'
<1> USE DEF CalmInv, IndexInv
<1>1. /\ calm' = {} /\ write' = "none"
      /\ UNCHANGED <<index, last, bases, order, acked>>
      /\ headers' \subseteq headers /\ DOMAIN events' \subseteq DOMAIN events
  BY DEF Crash, RemoveEvent, trees
<1>2. Bounded'
  BY <1>1 DEF Bounded
<1>3. Undisturbed' /\ CalmStored' /\ CalmAlone' /\ LastNoted' /\ Underway'
  BY <1>1 DEF Undisturbed, CalmStored, CalmAlone, LastNoted, Underway
<1> QED BY <1>2, <1>3 DEF Calmness

LEMMA CalmStep == CalmInv /\ [Next]_vars => CalmInv'
<1> SUFFICES ASSUME CalmInv, [Next]_vars PROVE CalmInv'
  OBVIOUS
<1>1. IndexInv' /\ Indexed' /\ Ahead'
  BY IndexStep, IndexedStep, AheadStep DEF CalmInv, IndexInv
<1>2. Calmness'
  <2>1. CASE UNCHANGED vars
    BY <2>1 DEF CalmInv, Calmness, vars, trees, Bounded, Undisturbed, CalmStored, Before,
                CalmAlone, LastNoted, Underway
  <2>2. CASE Next
    BY <2>2, CalmStore, CalmInsert, CalmFlush, CalmFault DEF Next
  <2> QED BY <2>1, <2>2
<1> QED BY <1>1, <1>2 DEF CalmInv, Calmness

LEMMA PayloadSet ==
  ASSUME NEW S, NEW new \in S, NEW r \in [payload : S, loaded : BOOLEAN]
  PROVE  [r EXCEPT !.payload = new] = [payload |-> new, loaded |-> r.loaded]
OBVIOUS

\* From a base of the calm on, the walk to an event of the calm has found, at each place,
\* the payload of the event stored last at or before it.
LEMMA CalmWalk ==
  ASSUME CalmInv, NEW seq \in calm, NEW start \in calm \cap bases, start <= seq,
         \A n \in index : start <= n /\ n <= seq => n \in calm
  PROVE  Decode(start, seq) = [payload |-> acked[seq], loaded |-> TRUE]
<1> USE DEF CalmInv, IndexInv
<1>1. start \in Nat \ {0} /\ seq \in Nat /\ start - 1 <= seq
  BY CalmNumbers
<1>2. calm \subseteq index
  BY DEF CalmStored
<1>3. PICK g : IsWalk(g, events, index, First(start), start, seq) /\ Decode(start, seq) = g[seq]
  BY <1>1, DecodeWalks, DecodeIs
<1> DEFINE Latest(c, n) == c <= n /\ \A q \in calm : q <= n => q <= c
           S == {n \in start .. seq : \E c \in calm : /\ start <= c /\ Latest(c, n)
                                       /\ g[n] = [payload |-> acked[c], loaded |-> TRUE]}
<1>4. start \in S
  <2>1. start \in start .. seq /\ start \in start - 1 .. seq /\ ~(start < start)
    BY <1>1
  <2>2. g[start] = StepIn(events, index, g[start - 1], start)
    BY <1>3, <2>1 DEF IsWalk
  <2>3. start \in index /\ events[start].full /\ events[start].data = acked[start]
    BY DEF CalmStored
  <2>4. g[start] = [payload |-> acked[start], loaded |-> TRUE]
    BY <2>2, <2>3 DEF StepIn
  <2>5. start <= start /\ Latest(start, start)
    BY <1>1
  <2> QED BY <2>1, <2>4, <2>5
<1>5. ASSUME NEW n \in start .. seq - 1, n \in S PROVE n + 1 \in S
  <2>1. /\ n + 1 \in start .. seq /\ n + 1 \in start - 1 .. seq /\ ~(n + 1 < start)
        /\ (n + 1) - 1 = n /\ n \in Nat
    BY <1>1
  <2>2. PICK c \in calm : /\ start <= c /\ Latest(c, n)
                          /\ g[n] = [payload |-> acked[c], loaded |-> TRUE]
    BY <1>5
  <2>3. g[n + 1] = StepIn(events, index, g[n], n + 1)
    BY <1>3, <2>1 DEF IsWalk
  <2>4. c \in Nat /\ \A q \in calm : q \in Nat
    BY CalmNumbers
  <2>5. CASE n + 1 \notin index
    <3>1. g[n + 1] = g[n]
      BY <2>3, <2>5 DEF StepIn
    <3>2. \A q \in calm : q # n + 1
      BY <1>2, <2>5
    <3>3. Latest(c, n + 1)
      BY <2>1, <2>2, <2>4, <3>2
    <3> QED BY <2>1, <2>2, <3>1, <3>3
  <2>6. CASE n + 1 \in index
    <3>1. n + 1 \in calm
      BY <2>1, <2>6
    <3>2. Before(c, n + 1)
      BY <2>1, <2>2, <2>4 DEF Before
    <3>3. Latest(n + 1, n + 1) /\ start <= n + 1
      BY <1>1, <2>1, <2>4
    <3>4. g[n + 1] = [payload |-> acked[n + 1], loaded |-> TRUE]
      <4>1. CASE events[n + 1].full
        <5>1. events[n + 1].data = acked[n + 1]
          BY <3>1, <4>1 DEF CalmStored
        <5> QED BY <2>3, <2>6, <4>1, <5>1 DEF StepIn
      <4>2. CASE ~events[n + 1].full
        <5>1. events[n + 1].data = ComputeDelta(acked[c], acked[n + 1])
          BY <3>1, <3>2, <4>2 DEF CalmStored
        <5>2. acked[c] \in Payload /\ acked[n + 1] \in Payload
          BY <3>1, CalmNumbers DEF Typed, TypeOK
        <5>3. ApplyDelta(acked[c], events[n + 1].data) = acked[n + 1]
          BY <5>1, <5>2, DeltaRoundTrip
        <5>4. g[n + 1] = [g[n] EXCEPT !.payload = ApplyDelta(@, events[n + 1].data)]
          BY <2>2, <2>3, <2>6, <4>2 DEF StepIn
        <5>5. g[n].payload = acked[c]
          BY <2>2
        <5>6. g[n + 1] = [g[n] EXCEPT !.payload = acked[n + 1]]
          BY <5>3, <5>4, <5>5
        <5>7. g[n] \in [payload : Payload, loaded : BOOLEAN] /\ g[n].loaded = TRUE
          BY <2>2, <5>2
        <5> QED BY <5>2, <5>6, <5>7, PayloadSet
      <4> QED BY <4>1, <4>2
    <3> QED BY <2>1, <3>1, <3>3, <3>4
  <2> QED BY <2>5, <2>6
<1>6. start .. seq \subseteq S
  <2> HIDE DEF S
  <2> QED BY <1>1, <1>4, <1>5, IntervalInduction
<1>7. PICK c \in calm : Latest(c, seq) /\ g[seq] = [payload |-> acked[c], loaded |-> TRUE]
  <2>1. seq \in start .. seq
    BY <1>1
  <2>2. seq \in S
    BY <1>6, <2>1
  <2> QED BY <2>2
<1>8. c = seq
  <2>1. c <= seq /\ seq <= c /\ c \in Nat
    BY <1>1, <1>7, CalmNumbers
  <2> QED BY <1>1, <2>1
<1> QED BY <1>3, <1>7, <1>8

LEMMA CalmHeals == CalmInv => BaseHeals
<1> SUFFICES ASSUME CalmInv, NEW seq \in calm, NEW b \in calm \cap bases, b <= seq
             PROVE  Readable(seq)
  BY DEF BaseHeals
<1> USE DEF CalmInv, IndexInv
<1>1. /\ seq \in DOMAIN acked /\ seq \in DOMAIN events \cap headers /\ seq \in index
      /\ events[seq].full => events[seq].data = acked[seq]
  BY CalmNumbers DEF CalmStored
<1>2. /\ seq \in 1 .. MaxSeq /\ bases \subseteq 1 .. MaxSeq /\ b \in BasesBefore(seq)
  BY <1>1 DEF Typed, TypeOK, CalmStored, BasesBefore
<1>3. PICK start \in 1 .. MaxSeq : /\ start = StartOf(seq) /\ start \in BasesBefore(seq)
                                   /\ start <= seq /\ b <= start
  BY <1>2, StartType
<1>4. \A n \in index : start <= n /\ n <= seq => n \in calm
  <2> SUFFICES ASSUME NEW n \in index, start <= n, n <= seq PROVE n \in calm
    OBVIOUS
  <2>1. b \in Nat /\ n \in Nat /\ start \in Nat /\ seq \in Nat /\ 0 < n /\ order.seq \in Nat
    BY <1>2, <1>3, CalmNumbers, StoreAssumption
  <2>2. b <= n
    BY <1>3, <2>1
  <2>3. order.seq # 0 => seq < order.seq
    BY <1>1 DEF Ahead
  <2>4. n # order.seq
    BY <2>1, <2>3
  <2> QED BY <2>2, <2>4 DEF CalmAlone
<1>5. start \in calm \cap bases
  BY <1>3, <1>4, <1>2, StoreAssumption DEF BasesBefore
<1>6. Decode(start, seq) = [payload |-> acked[seq], loaded |-> TRUE]
  BY <1>3, <1>4, <1>5, CalmWalk
<1>7. Present(Walk(start, seq))
  BY <1>4 DEF Present, Walk, CalmStored
<1>8. Loads(seq, acked[seq])
  BY <1>1, <1>3, <1>6, <1>7 DEF Loads
<1> QED BY <1>1, <1>8, LoadLoads DEF Readable

\* Whatever has happened to the trees before, an event is read back as it was stored once
\* a whole event has been stored since, undisturbed.
THEOREM BasesAlwaysHeal == Spec => []BaseHeals
BY CalmInit, CalmStep, CalmHeals, PTL DEF Spec
=============================================================================
