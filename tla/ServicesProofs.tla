--------------------------- MODULE ServicesProofs ---------------------------
(***************************************************************************)
(* What the parts of Services keep for every value of their constants: the  *)
(* numbers of FIX messages, the alerts of a loss, the events of tier 1, the  *)
(* files of a command, the models of the market, the features, the regime,  *)
(* the drawdowns and the feeds of a file.  Each part has an inductive        *)
(* invariant of its own, and takes its own steps or none.  Recursive           *)
(* definitions have proofs by the least number of a set.                    *)
(***************************************************************************)
EXTENDS Services, FractionProofs, TLAPS, FiniteSetTheorems, SequenceTheorems

-----------------------------------------------------------------------------
(* The FIX session: messages *)

FixTags  == {"34", "36", "49", "52", "56", "58", "98", "108", "141", "789"}
FixField == FixTags \X SUBSET Nat

\* A field is a tag and a text or a number.
LEMMA FieldTyped ==
  ASSUME NEW tag \in FixTags
  PROVE  Text(tag) \in FixField /\ \A m \in Nat : Num(tag, m) \in FixField
BY DEF Text, Num, FixField

\* Two sequences of one set, one after the other, are a sequence of it.
LEMMA LengthOfBoth ==
  ASSUME NEW S, NEW s \in Seq(S), NEW r \in Seq(S)
  PROVE  Len(s \o r) = Len(s) + Len(r) /\ Len(r) \in Nat /\ s \o r \in Seq(S)
OBVIOUS

\* What a counterparty puts into a message of each kind are fields, three at most.
LEMMA BodyFields ==
  ASSUME NEW n \in Nat,
         NEW kind \in {"Heartbeat", "TestRequest", "SequenceReset", "Logout", "ExecutionReport",
                       "Logon"}
  PROVE  Body(kind, n) \in Seq(FixField) /\ Len(Body(kind, n)) <= 3
<1>1. /\ Text("58") \in FixField /\ Text("36") \in FixField /\ Text("141") \in FixField
      /\ Num("34", n) \in FixField /\ Num("98", 0) \in FixField /\ Num("108", 30) \in FixField
  BY FieldTyped DEF FixTags
<1>2. CASE kind \in {"Heartbeat", "ExecutionReport"}
  BY <1>2 DEF Body
<1>3. CASE kind \in {"TestRequest", "Logout"}
  <2>1. Body(kind, n) = <<Text("58")>>
    BY <1>3 DEF Body
  <2>2. QED
    BY <1>1, <2>1
<1>4. CASE kind = "SequenceReset"
  <2>1. Body(kind, n) = <<Num("34", n), Text("36")>>
    BY <1>4 DEF Body
  <2>2. QED
    BY <1>1, <2>1
<1>5. CASE kind = "Logon"
  <2>1. Body(kind, n) = <<Num("98", 0), Num("108", 30), Text("141")>>
    BY <1>5 DEF Body
  <2>2. QED
    BY <1>1, <2>1
<1>6. QED
  BY <1>2, <1>3, <1>4, <1>5

\* build_fix_message puts four fields before those of the body.
LEMMA BuiltFields ==
  ASSUME NEW kind, NEW n \in Nat, NEW body \in Seq(FixField), Len(body) <= 3
  PROVE  Build(kind, body, n).fields \in Seq(FixField) /\ Len(Build(kind, body, n).fields) <= 7
<1> DEFINE header == <<Text("49"), Text("56"), Num("34", n), Text("52")>>
<1>1. Text("49") \in FixField /\ Text("56") \in FixField /\ Num("34", n) \in FixField /\ Text("52") \in FixField
  BY FieldTyped DEF FixTags
<1>2. header \in Seq(FixField) /\ Len(header) = 4
  BY <1>1
<1>3. Build(kind, body, n).fields = header \o body
  BY DEF Build
<1> HIDE DEF header
<1>4. Len(header \o body) = 4 + Len(body) /\ Len(body) \in Nat /\ header \o body \in Seq(FixField)
  BY <1>2, LengthOfBoth
<1>5. QED
  BY <1>3, <1>4

\* Every message a counterparty sends consists of fields, seven at most.
LEMMA IncomingFields ==
  ASSUME NEW raw \in Incoming
  PROVE  raw.fields \in Seq(FixField) /\ Len(raw.fields) <= 7
<1>1. \A n \in Numbers : n \in Nat
  BY FixAssumption DEF FixAssumption
<1>2. CASE \E kind \in {"Heartbeat", "TestRequest", "SequenceReset", "Logout", "ExecutionReport",
                        "Logon"}, n \in Numbers : raw = Build(kind, Body(kind, n), n)
  BY <1>1, <1>2, BodyFields, BuiltFields
<1>3. ASSUME NEW n \in Numbers, NEW kind, NEW tag \in {"36", "789"},
             raw = Build(kind, <<Num(tag, n)>>, 1)
      PROVE  raw.fields \in Seq(FixField) /\ Len(raw.fields) <= 7
  <2>1. Num(tag, n) \in FixField
    BY <1>1, <1>3, FieldTyped DEF FixTags
  <2>2. <<Num(tag, n)>> \in Seq(FixField) /\ Len(<<Num(tag, n)>>) <= 3
    BY <2>1
  <2>3. QED
    BY <1>3, <2>2, BuiltFields
<1>4. \/ \E kind \in {"Heartbeat", "TestRequest", "SequenceReset", "Logout", "ExecutionReport",
                     "Logon"}, n \in Numbers : raw = Build(kind, Body(kind, n), n)
      \/ \E n \in Numbers : raw = Build("SequenceReset", <<Num("36", n)>>, 1)
      \/ \E n \in Numbers : raw = Build("Logon", <<Num("789", n)>>, 1)
  BY DEF Incoming
<1>5. QED
  BY <1>2, <1>3, <1>4

\* Of some positions of such a message one is the last.
LEMMA SomeGreatest ==
  ASSUME NEW S \in SUBSET (1 .. 7), S # {}
  PROVE  \E i \in S : \A j \in S : j <= i
<1>1. CASE 7 \in S
  BY <1>1
<1>2. CASE 7 \notin S /\ 6 \in S
  BY <1>2
<1>3. CASE 7 \notin S /\ 6 \notin S /\ 5 \in S
  BY <1>3
<1>4. CASE S \cap (5 .. 7) = {} /\ 4 \in S
  BY <1>4
<1>5. CASE S \cap (4 .. 7) = {} /\ 3 \in S
  BY <1>5
<1>6. CASE S \cap (3 .. 7) = {} /\ 2 \in S
  BY <1>6
<1>7. CASE S \cap (2 .. 7) = {} /\ 1 \in S
  BY <1>7
<1>8. \E i \in 1 .. 7 : i \in S
  OBVIOUS
<1>9. QED
  BY <1>1, <1>2, <1>3, <1>4, <1>5, <1>6, <1>7, <1>8

\* What get_u64 reads from a message of a counterparty is a number, or nothing.
LEMMA NumbersRead ==
  ASSUME NEW raw \in Incoming, NEW t
  PROVE  Read(Parsed(raw), t) \subseteq Nat
<1>1. raw.fields \in Seq(FixField) /\ DOMAIN raw.fields \subseteq 1 .. 7
  BY IncomingFields
<1>2. CASE t \in {raw.fields[i][1] : i \in DOMAIN raw.fields}
  <2> DEFINE places == {i \in DOMAIN raw.fields : raw.fields[i][1] = t}
             last == CHOOSE i \in DOMAIN raw.fields :
                       /\ raw.fields[i][1] = t
                       /\ \A j \in DOMAIN raw.fields : raw.fields[j][1] = t => j <= i
  <2>1. places \in SUBSET (1 .. 7) /\ places # {}
    BY <1>1, <1>2
  <2>2. \E i \in places : \A j \in places : j <= i
    BY <2>1, SomeGreatest
  <2>3. last \in DOMAIN raw.fields
    BY <2>2
  <2>4. raw.fields[last][2] \subseteq Nat
    <3> HIDE DEF last
    <3>1. raw.fields[last] \in FixField
      BY <1>1, <2>3
    <3>2. QED
      BY <3>1 DEF FixField
  <2>5. Read(Parsed(raw), t) = raw.fields[last][2]
    BY <1>2 DEF Read, Parsed
  <2>6. QED
    BY <2>4, <2>5
<1>3. CASE t \notin {raw.fields[i][1] : i \in DOMAIN raw.fields}
  BY <1>3 DEF Read, Parsed
<1>4. QED
  BY <1>2, <1>3

-----------------------------------------------------------------------------
(* The invariant and its steps *)

NumbersInv ==
  /\ outbound \in Nat
  /\ number \in [Tasks -> Nat] /\ raced \in [Tasks -> BOOLEAN]
  /\ numbered \subseteq 0 .. outbound - 1
  /\ \A t \in Tasks : ~raced[t] => number[t] = outbound

\* Counting a message keeps the invariant: whoever had the number now is raced.
LEMMA AdvanceKeeps ==
  ASSUME NumbersInv, NEW t \in Tasks, Advance(t), UNCHANGED number
  PROVE  NumbersInv'
<1>1. outbound' = outbound + 1 /\ outbound' \in Nat
  BY DEF NumbersInv, Advance
<1>2. numbered' \subseteq 0 .. outbound' - 1
  <2>1. numbered \subseteq 0 .. outbound' - 1
    BY <1>1 DEF NumbersInv
  <2>2. ~raced[t] => number[t] \in 0 .. outbound' - 1
    BY <1>1 DEF NumbersInv
  <2>3. QED
    BY <2>1, <2>2 DEF Advance
<1>3. \A u \in Tasks : raced'[u]
  BY DEF NumbersInv, Advance
<1>4. number' \in [Tasks -> Nat] /\ raced' \in [Tasks -> BOOLEAN]
  BY DEF NumbersInv, Advance
<1>5. QED
  BY <1>1, <1>2, <1>3, <1>4 DEF NumbersInv

\* So does a counter that the counterparty sets: nothing counts as numbered any more.
LEMMA StoreKeeps ==
  ASSUME NumbersInv, NEW n \in Nat, Store(n), UNCHANGED number
  PROVE  NumbersInv'
BY DEF NumbersInv, Store

\* So does building a message with the counter as it is.
LEMMA LoadKeeps ==
  ASSUME NumbersInv, NEW t \in Tasks, Load(t), UNCHANGED counters
  PROVE  NumbersInv'
<1>1. \A u \in Tasks : ~raced'[u] => number'[u] = outbound
  BY DEF NumbersInv, Load
<1>2. number' \in [Tasks -> Nat] /\ raced' \in [Tasks -> BOOLEAN]
  BY DEF NumbersInv, Load
<1>3. QED
  BY <1>1, <1>2 DEF NumbersInv, counters

\* Every step of every task keeps the invariant.
LEMMA StepKeeps ==
  ASSUME NumbersInv, [FixNext]_fixVars
  PROVE  NumbersInv'
<1>1. ASSUME UNCHANGED <<counters, number, raced>>
      PROVE  NumbersInv'
  BY <1>1 DEF NumbersInv, counters
<1>2. CASE UNCHANGED fixVars
  BY <1>1, <1>2 DEF fixVars, taskVars
<1>3. ASSUME NEW t \in Tasks, Call(t)
      PROVE  NumbersInv'
  <2>1. CASE CallConnect(t) \/ CallDisconnect(t)
    BY <1>1, <2>1 DEF CallConnect, CallDisconnect
  <2>2. CASE \E kind \in Kinds : CallSend(t, kind)
    BY <2>2, LoadKeeps DEF CallSend
  <2>3. ASSUME NEW raw \in Incoming, CallHandle(t, Parsed(raw))
        PROVE  NumbersInv'
    <3> DEFINE msg == Parsed(raw)
    <3>1. CASE UNCHANGED <<counters, number, raced>>
      BY <1>1, <3>1
    <3>2. CASE Load(t) /\ UNCHANGED counters
      BY <3>2, LoadKeeps
    <3>3. CASE UNCHANGED number /\ \E n \in Read(msg, "36") : Store(n)
      BY <3>3, NumbersRead, StoreKeeps
    <3>4. QED
      BY <2>3, <3>1, <3>2, <3>3 DEF CallHandle
  <2>4. QED
    BY <1>3, <2>1, <2>2, <2>3 DEF Call
<1>4. ASSUME NEW t \in Tasks, Advances(t)
      PROVE  NumbersInv'
  <2>1. CASE BuildLogon(t)
    BY <2>1, LoadKeeps DEF BuildLogon
  <2>2. CASE WriteLogon(t) \/ CountMessage(t)
    BY <2>2, AdvanceKeeps DEF WriteLogon, CountMessage
  <2>3. CASE TcpFails(t) \/ TcpConnects(t) \/ WriteFails(t) \/ LogonFails(t) \/ ConnectEnds(t)
    BY <1>1, <2>3 DEF TcpFails, TcpConnects, WriteFails, LogonFails, ConnectEnds
  <2>4. CASE \/ Disconnected(t) \/ IsLoggedOn(t) \/ IsLoggingOn(t) \/ LogoffSent(t)
             \/ LogoutReceived(t)
    BY <1>1, <2>4 DEF Disconnected, IsLoggedOn, IsLoggingOn, LogoffSent, LogoutReceived
  <2>5. QED
    BY <1>4, <2>1, <2>2, <2>3, <2>4 DEF Advances
<1>5. ASSUME NEW t \in Tasks, NEW raw \in Incoming, LogonConfirmed(t, Parsed(raw))
      PROVE  NumbersInv'
  <2> DEFINE msg == Parsed(raw)
  <2>1. CASE UNCHANGED <<counters, number, raced>>
    BY <1>1, <2>1
  <2>2. CASE UNCHANGED number /\ \E n \in Read(msg, "789") : Store(n)
    BY <2>2, NumbersRead, StoreKeeps
  <2>3. QED
    BY <1>5, <2>1, <2>2 DEF LogonConfirmed
<1>6. QED
  BY <1>2, <1>3, <1>4, <1>5 DEF FixNext, Answered

-----------------------------------------------------------------------------
(* Alerts *)

AlertTimes == 1 .. Times

EvaluationType ==
  [loss : DayLosses, time : AlertTimes,
   alert : SUBSET [kind : {"RiskLimit"}, severity : {"Critical", "Warning"}, time : AlertTimes]]

Reported(i) == evaluations[i].alert # {}

\* The evaluator holds the time of the last alert that was raised.
LastReported ==
  \/ evaluator["RiskLimit"] = {} /\ \A i \in DOMAIN evaluations : ~Reported(i)
  \/ \E last \in DOMAIN evaluations :
       /\ evaluator["RiskLimit"] = {evaluations[last].time} /\ Reported(last)
       /\ \A i \in DOMAIN evaluations :
            Reported(i) => evaluations[i].time <= evaluations[last].time

AlertingInv ==
  /\ evaluations \in Seq(EvaluationType)
  /\ evaluator \in [AlertKinds -> SUBSET Int]
  /\ LastReported
  /\ PersistingReported

LEMMA AlertingInitInv == AlertingInit => AlertingInv
<1> SUFFICES ASSUME AlertingInit PROVE AlertingInv
  OBVIOUS
<1>1. evaluations = <<>> /\ DOMAIN evaluations = {} /\ evaluations \in Seq(EvaluationType)
  BY DEF AlertingInit
<1>2. evaluator \in [AlertKinds -> SUBSET Int] /\ evaluator["RiskLimit"] = {}
  BY DEF AlertingInit, NewEvaluator, AlertKinds
<1> QED BY <1>1, <1>2 DEF AlertingInv, LastReported, PersistingReported

\* What an evaluation of the loss of the day against a limit of one comes to
LEMMA EvaluationCases ==
  ASSUME NEW loss \in DayLosses, NEW time \in AlertTimes
  PROVE  LET r == EvaluateRiskLimit(evaluator, loss, One, time)
         IN \/ r = Quiet(evaluator) /\ ~(RiskThreshold \preceq AbsFrac(loss))
            \/ \E severity \in {"Critical", "Warning"} :
                 r = Raise(evaluator, "RiskLimit", severity, time)
<1>1. PICK n \in Int, d \in Nat \ {0} : loss = <<n, d>>
  BY AlertingAssumption DEF IsFrac
<1>2. IntAbs(n) \in Nat /\ IntAbs(n) * 1 = IntAbs(n) /\ d * 1 = d
  BY DEF IntAbs
<1>3. AbsFrac(loss) = <<IntAbs(n), d>> /\ One = <<1, 1>>
  BY <1>1 DEF AbsFrac, One, Whole
<1>4. AbsFrac(loss) // One = Frac(IntAbs(n), d)
  BY <1>2, <1>3 DEF //
<1>5. (AbsFrac(loss) // One) \prec RiskThreshold <=> AbsFrac(loss) \prec RiskThreshold
  BY <1>2, <1>3, <1>4, FracBelow, AlertingAssumption
<1>6. AbsFrac(loss) \prec RiskThreshold <=> ~(RiskThreshold \preceq AbsFrac(loss))
  <2>1. PICK p \in Int, q \in Nat \ {0} : RiskThreshold = <<p, q>>
    BY AlertingAssumption DEF IsFrac
  <2> DEFINE x == IntAbs(n) * q
             y == p * d
  <2>2. x \in Int /\ y \in Int
    BY <1>2
  <2>3. AbsFrac(loss) \prec RiskThreshold <=> x < y
    BY <1>3, <2>1 DEF \prec
  <2>4. RiskThreshold \preceq AbsFrac(loss) <=> y <= x
    BY <1>3, <2>1 DEF \preceq
  <2> HIDE DEF x, y
  <2> QED BY <2>2, <2>3, <2>4
<1>7. ~(One \preceq Zero)
  BY DEF One, Zero, Whole, \preceq
<1> QED BY <1>5, <1>6, <1>7 DEF EvaluateRiskLimit

LEMMA AlertingStep ==
  ASSUME AlertInterval # 0
  PROVE  AlertingInv /\ [AlertingNext]_alertingVars => AlertingInv'
<1> SUFFICES ASSUME AlertingInv, [AlertingNext]_alertingVars PROVE AlertingInv'
  OBVIOUS
<1>1. CASE UNCHANGED alertingVars
  BY <1>1 DEF alertingVars, AlertingInv, LastReported, Reported, PersistingReported
<1>2. ASSUME NEW loss \in DayLosses, NEW time \in AlertTimes, LossEvaluated(loss, time)
      PROVE  AlertingInv'
  <2> PICK n : n = Len(evaluations)
    OBVIOUS
  <2>0. n \in Nat /\ DOMAIN evaluations = 1 .. n /\ evaluations \in Seq(EvaluationType)
    BY DEF AlertingInv
  <2>1. \A i \in 1 .. n : evaluations[i].time <= time /\ evaluations[i].time \in AlertTimes
    <3>1. \A i \in 1 .. n : evaluations[i].time <= time
      BY <1>2, <2>0 DEF LossEvaluated
    <3>2. \A i \in 1 .. n : evaluations[i] \in EvaluationType
      BY <2>0
    <3> QED BY <3>1, <3>2 DEF EvaluationType
  <2>2. PICK r : /\ r = EvaluateRiskLimit(evaluator, loss, One, time)
                 /\ evaluator' = r.evaluator
                 /\ evaluations' = Append(evaluations, [loss |-> loss, time |-> time,
                                                        alert |-> r.alert])
    BY <1>2 DEF LossEvaluated
  <2> DEFINE e == [loss |-> loss, time |-> time, alert |-> r.alert]
  <2>3. /\ DOMAIN evaluations' = 1 .. n + 1 /\ evaluations'[n + 1] = e
        /\ \A i \in 1 .. n : evaluations'[i] = evaluations[i]
        /\ e.time = time /\ e.alert = r.alert /\ e.loss = loss
    BY <2>0, <2>2
  <2>4. e \in EvaluationType => evaluations' \in Seq(EvaluationType)
    BY <2>0, <2>2
  <2> HIDE DEF e
  <2>5. ASSUME r.evaluator = evaluator, r.alert = {},
               RiskThreshold \preceq AbsFrac(loss) =>
                 \E j \in 1 .. n : Reported(j) /\ time - evaluations[j].time < AlertInterval
        PROVE  AlertingInv'
    <3>1. e \in EvaluationType
      BY <2>5 DEF e, EvaluationType
    <3>2. \A i \in 1 .. n : Reported(i)' <=> Reported(i)
      BY <2>3 DEF Reported
    <3>3. ~Reported(n + 1)'
      BY <2>3, <2>5 DEF Reported
    <3>4. LastReported'
      <4>1. CASE evaluator["RiskLimit"] = {} /\ \A i \in 1 .. n : ~Reported(i)
        BY <2>0, <2>2, <2>3, <2>5, <3>2, <3>3, <4>1 DEF LastReported
      <4>2. ASSUME NEW last \in 1 .. n,
                   evaluator["RiskLimit"] = {evaluations[last].time}, Reported(last),
                   \A i \in 1 .. n : Reported(i) => evaluations[i].time <= evaluations[last].time
            PROVE  LastReported'
        <5>1. last \in 1 .. n + 1
          BY <2>0
        <5>2. \A i \in 1 .. n + 1 : Reported(i)' =>
                evaluations'[i].time <= evaluations'[last].time
          BY <2>0, <2>3, <3>2, <3>3, <4>2
        <5> QED BY <2>2, <2>3, <2>5, <3>2, <4>2, <5>1, <5>2 DEF LastReported
      <4> QED BY <2>0, <4>1, <4>2 DEF AlertingInv, LastReported
    <3>5. PersistingReported'
      <4>1. ASSUME NEW i \in 1 .. n
            PROVE  /\ RiskThreshold \preceq AbsFrac(evaluations'[i].loss)
                        => \E j \in 1 .. i : /\ evaluations'[j].alert # {}
                                             /\ evaluations'[i].time - evaluations'[j].time
                                                  < AlertInterval
                   /\ evaluations'[i].alert # {} => \A j \in 1 .. i - 1 :
                        evaluations'[j].alert # {} =>
                          ~(evaluations'[i].time - evaluations'[j].time < AlertInterval)
        <5>1. \A j \in 1 .. i : evaluations'[j] = evaluations[j]
          BY <2>0, <2>3
        <5>2. \A j \in 1 .. i - 1 : j \in 1 .. i
          OBVIOUS
        <5>3. i \in 1 .. i /\ i \in DOMAIN evaluations
          BY <2>0
        <5> QED BY <5>1, <5>2, <5>3 DEF AlertingInv, PersistingReported
      <4>2. RiskThreshold \preceq AbsFrac(evaluations'[n + 1].loss)
              => \E j \in 1 .. n + 1 : /\ evaluations'[j].alert # {}
                                       /\ evaluations'[n + 1].time - evaluations'[j].time
                                            < AlertInterval
        <5>1. \A j \in 1 .. n : j \in 1 .. n + 1
          BY <2>0
        <5> QED BY <2>3, <2>5, <5>1 DEF Reported
      <4>3. evaluations'[n + 1].alert = {}
        BY <2>3, <2>5
      <4>4. \A i \in 1 .. n + 1 : i \in 1 .. n \/ i = n + 1
        BY <2>0
      <4> QED BY <2>3, <4>1, <4>2, <4>3, <4>4 DEF PersistingReported
    <3>6. evaluator' \in [AlertKinds -> SUBSET Int]
      BY <2>2, <2>5 DEF AlertingInv
    <3> QED BY <2>4, <3>1, <3>4, <3>5, <3>6 DEF AlertingInv
  <2>6. ASSUME NEW severity \in {"Critical", "Warning"}, ~Debounced(evaluator, "RiskLimit", time),
               r.evaluator = [evaluator EXCEPT !["RiskLimit"] = {time}],
               r.alert = {[kind |-> "RiskLimit", severity |-> severity, time |-> time]}
        PROVE  AlertingInv'
    <3>1. e \in EvaluationType
      <4>1. [kind |-> "RiskLimit", severity |-> severity, time |-> time]
              \in [kind : {"RiskLimit"}, severity : {"Critical", "Warning"}, time : AlertTimes]
        OBVIOUS
      <4> QED BY <2>6, <4>1 DEF e, EvaluationType
    <3>2. \A i \in 1 .. n : Reported(i)' <=> Reported(i)
      BY <2>3 DEF Reported
    <3>3. Reported(n + 1)'
      BY <2>3, <2>6 DEF Reported
    <3>4. evaluator' \in [AlertKinds -> SUBSET Int] /\ evaluator'["RiskLimit"] = {time}
      <4>1. {time} \in SUBSET Int /\ "RiskLimit" \in AlertKinds
        BY DEF AlertTimes, AlertKinds
      <4> QED BY <2>2, <2>6, <4>1 DEF AlertingInv
    <3>5. n + 1 \in 1 .. n + 1 /\ \A i \in 1 .. n + 1 : i \in 1 .. n \/ i = n + 1
      BY <2>0
    <3>6. LastReported'
      <4>1. \A i \in 1 .. n + 1 : evaluations'[i].time <= evaluations'[n + 1].time
        BY <2>1, <2>3, <3>5 DEF AlertTimes
      <4> QED BY <2>3, <3>3, <3>4, <3>5, <4>1 DEF LastReported
    <3>7. \A j \in 1 .. n : Reported(j) => ~(time - evaluations[j].time < AlertInterval)
      <4>1. CASE evaluator["RiskLimit"] = {} /\ \A i \in 1 .. n : ~Reported(i)
        BY <4>1
      <4>2. ASSUME NEW last \in 1 .. n,
                   evaluator["RiskLimit"] = {evaluations[last].time}, Reported(last),
                   \A i \in 1 .. n : Reported(i) => evaluations[i].time <= evaluations[last].time,
                   NEW j \in 1 .. n, Reported(j)
            PROVE  ~(time - evaluations[j].time < AlertInterval)
        <5>1. ~(time - evaluations[last].time < AlertInterval)
          BY <2>6, <4>2 DEF Debounced
        <5>2. PICK a \in AlertTimes, b \in AlertTimes :
                evaluations[last].time = a /\ evaluations[j].time = b /\ b <= a
          BY <2>1, <4>2
        <5> QED BY <5>1, <5>2, AlertingAssumption DEF AlertTimes
      <4> QED BY <2>0, <4>1, <4>2 DEF AlertingInv, LastReported
    <3>8. PersistingReported'
      <4>1. ASSUME NEW i \in 1 .. n
            PROVE  /\ RiskThreshold \preceq AbsFrac(evaluations'[i].loss)
                        => \E j \in 1 .. i : /\ evaluations'[j].alert # {}
                                             /\ evaluations'[i].time - evaluations'[j].time
                                                  < AlertInterval
                   /\ evaluations'[i].alert # {} => \A j \in 1 .. i - 1 :
                        evaluations'[j].alert # {} =>
                          ~(evaluations'[i].time - evaluations'[j].time < AlertInterval)
        <5>1. \A j \in 1 .. i : evaluations'[j] = evaluations[j]
          BY <2>0, <2>3
        <5>2. \A j \in 1 .. i - 1 : j \in 1 .. i
          OBVIOUS
        <5>3. i \in 1 .. i /\ i \in DOMAIN evaluations
          BY <2>0
        <5> QED BY <5>1, <5>2, <5>3 DEF AlertingInv, PersistingReported
      <4>2. evaluations'[n + 1].alert # {} /\ evaluations'[n + 1].time = time
            /\ time - time < AlertInterval
        BY <2>3, <3>3, AlertingAssumption DEF Reported, AlertTimes
      <4>3. \A j \in 1 .. (n + 1) - 1 :
              evaluations'[j].alert # {} => ~(time - evaluations'[j].time < AlertInterval)
        <5>1. (n + 1) - 1 = n
          BY <2>0
        <5> QED BY <2>3, <3>7, <5>1 DEF Reported
      <4> QED BY <2>3, <3>5, <4>1, <4>2, <4>3 DEF PersistingReported
    <3> QED BY <2>4, <3>1, <3>4, <3>6, <3>8 DEF AlertingInv
  <2>7. CASE r = Quiet(evaluator) /\ ~(RiskThreshold \preceq AbsFrac(loss))
    BY <2>5, <2>7 DEF Quiet
  <2>8. ASSUME NEW severity \in {"Critical", "Warning"},
               r = Raise(evaluator, "RiskLimit", severity, time)
        PROVE  AlertingInv'
    <3>1. CASE Debounced(evaluator, "RiskLimit", time)
      <4>1. \E j \in 1 .. n : Reported(j) /\ time - evaluations[j].time < AlertInterval
        BY <2>0, <3>1 DEF Debounced, AlertingInv, LastReported
      <4> QED BY <2>5, <2>8, <3>1, <4>1 DEF Raise
    <3>2. CASE ~Debounced(evaluator, "RiskLimit", time)
      BY <2>6, <2>8, <3>2 DEF Raise
    <3> QED BY <3>1, <3>2
  <2> QED BY <2>2, <2>7, <2>8, EvaluationCases
<1> QED BY <1>1, <1>2 DEF AlertingNext, AlertTimes

-----------------------------------------------------------------------------
(* The store of tier 1 *)

\* A sorted set has all its elements.
LEMMA OrderedHas ==
  ASSUME NEW S \in SUBSET Tier1Events, NEW e \in S
  PROVE  e \in ToSet(Ordered(S))
<1> DEFINE Below(x) == {y \in S : Precedes(y, x)}
           Place(x) == Cardinality(Below(x)) + 1
<1>1. IsFiniteSet(S) /\ Cardinality(S) \in Nat
  BY FS_Subset, FS_CardinalityType, TierAssumption
<1>2. \A x \in S : Below(x) \subseteq S /\ x \notin Below(x)
  BY TierAssumption DEF Precedes
<1>3. ASSUME NEW x \in S
      PROVE  Place(x) \in 1 .. Cardinality(S) /\ Cardinality(Below(x)) \in Nat
             /\ IsFiniteSet(Below(x))
  <2> DEFINE B == Below(x)
  <2>1. B \subseteq S /\ x \notin B
    BY <1>2
  <2> HIDE DEF B
  <2>2. IsFiniteSet(B) /\ Cardinality(B) \in Nat /\ Cardinality(B) <= Cardinality(S)
        /\ (Cardinality(S) = Cardinality(B) => S = B)
    BY <1>1, <2>1, FS_Subset, FS_CardinalityType
  <2>3. Cardinality(B) # Cardinality(S)
    BY <2>1, <2>2
  <2>4. Cardinality(B) + 1 \in 1 .. Cardinality(S)
    BY <1>1, <2>2, <2>3
  <2> QED BY <2>2, <2>4 DEF B
<1>4. ASSUME NEW x \in S, NEW y \in S, Precedes(x, y)
      PROVE  Place(x) < Place(y)
  <2> DEFINE A == Below(x)
             B == Below(y)
  <2>1. A \subseteq B /\ x \in B /\ x \notin A
    BY <1>2, <1>4, TierAssumption DEF Precedes
  <2>2. IsFiniteSet(A) /\ IsFiniteSet(B) /\ Cardinality(A) \in Nat /\ Cardinality(B) \in Nat
    BY <1>3
  <2> HIDE DEF A, B
  <2>3. Cardinality(A) <= Cardinality(B) /\ (Cardinality(B) = Cardinality(A) => B = A)
    BY <2>1, <2>2, FS_Subset
  <2>4. Cardinality(A) < Cardinality(B)
    BY <2>1, <2>2, <2>3
  <2>5. Cardinality(A) + 1 < Cardinality(B) + 1
    BY <2>2, <2>4
  <2> QED BY <2>5 DEF A, B
<1> DEFINE i == Place(e)
<1>5. i \in 1 .. Cardinality(S)
  BY <1>3
<1> DEFINE f == CHOOSE x \in S : Place(x) = i
<1>6. f \in S /\ Place(f) = i
  <2>1. \E x \in S : Place(x) = i
    OBVIOUS
  <2> HIDE DEF Place, i
  <2> QED BY <2>1
<1>7. Ordered(S)[i] = f /\ i \in DOMAIN Ordered(S)
  BY <1>5 DEF Ordered
<1>8. f = e
  <2> HIDE DEF Below, f
  <2>1. Place(e) \in Int /\ Place(f) = Place(e)
    BY <1>3, <1>6
  <2>2. ~Precedes(f, e) /\ ~Precedes(e, f)
    <3> HIDE DEF Place
    <3> QED BY <1>4, <1>6, <2>1
  <2>3. f \in Tier1Events /\ e \in Tier1Events
    BY <1>6
  <2> QED BY <2>2, <2>3, TierAssumption DEF Precedes
<1> HIDE DEF i, f
<1> QED BY <1>7, <1>8 DEF ToSet

\* The writes that are made
Writes ==
  {WriteEvent(e) : e \in Tier1Events} \cup {WriteIndex(e) : e \in Tier1Events}
    \cup {DeleteEvent(e) : e \in Tier1Events}

\* The trees after the writes of a set of places in a sequence of them
IsWriting(g, n, first, writes) ==
  g = [s \in SUBSET (1 .. n) |->
        IF s = {} THEN first ELSE Written(g[s \ {Max(s)}], writes[Max(s)])]

\* The greatest of some places is one of them.
LEMMA GreatestPlace ==
  ASSUME NEW n \in Nat, NEW s \in SUBSET (1 .. n + 1), n + 1 \in s
  PROVE  Max(s) = n + 1
<1>1. \A y \in s : n + 1 >= y
  OBVIOUS
<1>2. Max(s) \in s /\ \A y \in s : Max(s) >= y
  BY <1>1 DEF Max
<1>3. Max(s) \in 1 .. n + 1 /\ Max(s) >= n + 1
  BY <1>2
<1> QED BY <1>3

\* The recursion of a fold over the writes defines a function.
LEMMA WritingExists ==
  ASSUME NEW first, NEW writes, NEW n \in Nat
  PROVE  \E g : IsWriting(g, n, first, writes)
<1> DEFINE S == {m \in 0 .. n : \E g : IsWriting(g, m, first, writes)}
<1>1. 0 \in S
  <2>1. IsWriting([s \in SUBSET (1 .. 0) |-> first], 0, first, writes)
    <3>1. \A s \in SUBSET (1 .. 0) : s = {}
      OBVIOUS
    <3> QED BY <3>1 DEF IsWriting
  <2> QED BY <2>1
<1>2. \A m \in 0 .. n - 1 : m \in S => m + 1 \in S
  <2> SUFFICES ASSUME NEW m \in 0 .. n - 1, NEW g, IsWriting(g, m, first, writes)
               PROVE  \E h : IsWriting(h, m + 1, first, writes)
    OBVIOUS
  <2> DEFINE h == [s \in SUBSET (1 .. m + 1) |->
                    IF m + 1 \in s THEN Written(g[s \ {m + 1}], writes[m + 1]) ELSE g[s]]
  <2>1. ASSUME NEW s \in SUBSET (1 .. m + 1)
        PROVE  h[s] = IF s = {} THEN first ELSE Written(h[s \ {Max(s)}], writes[Max(s)])
    <3>1. CASE m + 1 \in s
      <4> DEFINE t == s \ {m + 1}
      <4>1. Max(s) = m + 1
        BY <3>1, GreatestPlace
      <4>2. t \in SUBSET (1 .. m + 1) /\ m + 1 \notin t
        OBVIOUS
      <4>3. h[s] = Written(g[t], writes[m + 1]) /\ h[t] = g[t]
        BY <3>1, <4>2
      <4> HIDE DEF h
      <4> QED BY <3>1, <4>1, <4>3
    <3>2. CASE m + 1 \notin s
      <4>1. s \in SUBSET (1 .. m) /\ h[s] = g[s]
        BY <3>2
      <4>2. CASE s = {}
        BY <4>1, <4>2 DEF IsWriting
      <4>3. CASE s # {}
        <5>1. g[s] = Written(g[s \ {Max(s)}], writes[Max(s)])
          BY <4>1, <4>3 DEF IsWriting
        <5>2. s \ {Max(s)} \in SUBSET (1 .. m + 1) /\ m + 1 \notin s \ {Max(s)}
          BY <3>2
        <5>3. h[s \ {Max(s)}] = g[s \ {Max(s)}]
          BY <5>2
        <5> HIDE DEF h
        <5> QED BY <4>1, <4>3, <5>1, <5>3
      <4> QED BY <4>2, <4>3
    <3> QED BY <3>1, <3>2
  <2>2. h = [s \in SUBSET (1 .. m + 1) |-> h[s]]
    OBVIOUS
  <2> HIDE DEF h
  <2>3. IsWriting(h, m + 1, first, writes)
    BY <2>1, <2>2 DEF IsWriting
  <2> QED BY <2>3
<1> HIDE DEF S
<1>3. 0 .. n \subseteq S
  BY <1>1, <1>2, IntervalInduction
<1> QED BY <1>3 DEF S

\* Writings that agree on the first places agree on what they lead to.
LEMMA WritingAgrees ==
  ASSUME NEW first, NEW writes, NEW others, NEW n \in Nat, NEW k \in Nat, NEW g, NEW h,
         IsWriting(g, n, first, writes), IsWriting(h, k, first, others), n <= k,
         \A i \in 1 .. n : writes[i] = others[i]
  PROVE  g[1 .. n] = h[1 .. n]
<1> DEFINE S == {m \in 0 .. n : \A s \in SUBSET (1 .. m) : g[s] = h[s]}
<1>1. 0 \in S
  <2>1. \A s \in SUBSET (1 .. 0) : s = {}
    OBVIOUS
  <2>2. g[{}] = first /\ h[{}] = first
    BY DEF IsWriting
  <2>3. \A s \in SUBSET (1 .. 0) : g[s] = h[s]
    BY <2>1, <2>2
  <2> QED BY <2>3
<1>2. \A m \in 0 .. n - 1 : m \in S => m + 1 \in S
  <2> SUFFICES ASSUME NEW m \in 0 .. n - 1, \A s \in SUBSET (1 .. m) : g[s] = h[s],
                      NEW s \in SUBSET (1 .. m + 1)
               PROVE  g[s] = h[s]
    OBVIOUS
  <2>1. CASE m + 1 \notin s
    BY <2>1
  <2>2. CASE m + 1 \in s
    <3> DEFINE t == s \ {m + 1}
    <3>1. Max(s) = m + 1 /\ s # {}
      BY <2>2, GreatestPlace
    <3>2. t \in SUBSET (1 .. m) /\ m + 1 \in 1 .. n
      OBVIOUS
    <3>3. s \in SUBSET (1 .. n) /\ s \in SUBSET (1 .. k)
      OBVIOUS
    <3>4. g[s] = Written(g[t], writes[m + 1])
      BY <3>1, <3>3 DEF IsWriting
    <3>5. h[s] = Written(h[t], others[m + 1])
      BY <3>1, <3>3 DEF IsWriting
    <3> HIDE DEF t
    <3> QED BY <3>2, <3>4, <3>5
  <2> QED BY <2>1, <2>2
<1> HIDE DEF S
<1>3. 0 .. n \subseteq S
  BY <1>1, <1>2, IntervalInduction
<1>4. \A s \in SUBSET (1 .. n) : g[s] = h[s]
  BY <1>3 DEF S
<1> QED BY <1>4

\* AllWritten takes the last step of its recursion.
LEMMA AllWrittenIs ==
  ASSUME NEW first, NEW writes \in Seq(Writes)
  PROVE  \E g : IsWriting(g, Len(writes), first, writes)
                /\ AllWritten(first, writes) = g[1 .. Len(writes)]
<1> PICK n \in Nat : n = Len(writes)
  OBVIOUS
<1> DEFINE g == CHOOSE g : IsWriting(g, n, first, writes)
<1>1. IsWriting(g, n, first, writes)
  BY WritingExists
<1>2. DOMAIN writes = 1 .. n
  OBVIOUS
<1>3. AllWritten(first, writes) = g[1 .. n]
  BY <1>2 DEF AllWritten, FoldLeft, MapThenFoldSet, IsWriting
<1> QED BY <1>1, <1>3

LEMMA AllWrittenNone ==
  ASSUME NEW first
  PROVE  AllWritten(first, <<>>) = first
<1>1. <<>> \in Seq(Writes) /\ Len(<<>>) = 0
  OBVIOUS
<1>2. PICK g : IsWriting(g, 0, first, <<>>) /\ AllWritten(first, <<>>) = g[1 .. 0]
  BY <1>1, AllWrittenIs
<1>3. 1 .. 0 = {}
  OBVIOUS
<1> QED BY <1>2, <1>3 DEF IsWriting

LEMMA AllWrittenMore ==
  ASSUME NEW first, NEW writes \in Seq(Writes), NEW w \in Writes
  PROVE  AllWritten(first, Append(writes, w)) = Written(AllWritten(first, writes), w)
<1> PICK n \in Nat : n = Len(writes)
  OBVIOUS
<1>0. PICK more : more = Append(writes, w)
  OBVIOUS
<1>1. /\ more \in Seq(Writes) /\ Len(more) = n + 1 /\ more[n + 1] = w
      /\ \A i \in 1 .. n : writes[i] = more[i]
  BY <1>0
<1>2. PICK g : IsWriting(g, n, first, writes) /\ AllWritten(first, writes) = g[1 .. n]
  BY AllWrittenIs
<1>3. PICK h : IsWriting(h, n + 1, first, more) /\ AllWritten(first, more) = h[1 .. n + 1]
  <2>1. \E h : IsWriting(h, Len(more), first, more) /\ AllWritten(first, more) = h[1 .. Len(more)]
    BY <1>1, AllWrittenIs
  <2> QED BY <1>1, <2>1
<1>4. g[1 .. n] = h[1 .. n]
  <2>1. PICK k \in Nat : k = n + 1
    OBVIOUS
  <2>2. IsWriting(h, k, first, more)
    BY <1>3, <2>1
  <2>3. \A i \in 1 .. n : writes[i] = more[i]
    BY <1>1
  <2>4. n <= k
    BY <2>1
  <2> QED BY <1>2, <2>1, <2>2, <2>3, <2>4, WritingAgrees
<1>5. h[1 .. n + 1] = Written(h[1 .. n], w)
  <2> DEFINE s == 1 .. n + 1
  <2>1. s \in SUBSET (1 .. n + 1) /\ n + 1 \in s /\ s # {} /\ s \ {n + 1} = 1 .. n
    OBVIOUS
  <2> HIDE DEF s
  <2>2. Max(s) = n + 1
    BY <2>1, GreatestPlace
  <2>3. h[s] = Written(h[s \ {n + 1}], more[n + 1])
    BY <1>3, <2>1, <2>2 DEF IsWriting
  <2> QED BY <1>1, <2>1, <2>3 DEF s
<1> QED BY <1>0, <1>2, <1>3, <1>4, <1>5

TreesType == [events : SUBSET Tier1Events, index : SUBSET Tier1Events]

\* What the trees must have, in memory and after a crash at any place: the event of an index
\* entry unless its removal was asked for, what was stored, and an entry of its number.
Sound(t) ==
  /\ t \in TreesType
  /\ t.index \subseteq t.events \cup gone
  /\ known \ gone \subseteq t.events
  /\ \A e \in known : \E x \in t.index : SameKey(x, e)

\* A call that stores has done what is no longer to do; one that removes was asked for.
Underway(c) ==
  /\ c \in [event : Tier1Events, removes : BOOLEAN, todo : Seq(Writes)]
  /\ c.removes => c.event \in gone /\ c.todo \in {RemoveWrites(c.event), <<>>}
  /\ ~c.removes =>
       /\ c.todo \in {StoreWrites(c.event), <<WriteIndex(c.event)>>, <<>>}
       /\ c.todo # StoreWrites(c.event) => c.event \in trees.events \cup gone
       /\ c.todo = <<>> => \E x \in trees.index : SameKey(x, c.event)

AfterSome(k) == AllWritten(durable, SubSeq(unflushed, 1, k))

TierInv ==
  /\ unflushed \in Seq(Writes)
  /\ known \subseteq Tier1Events
  /\ trees = AllWritten(durable, unflushed)
  /\ \A k \in 0 .. Len(unflushed) : Sound(AfterSome(k))
  /\ \A c \in writers : Underway(c)

LEMMA TierInitInv == TierInit => TierInv
<1> SUFFICES ASSUME TierInit PROVE TierInv
  OBVIOUS
<1>1. unflushed = <<>> /\ Len(unflushed) = 0 /\ SubSeq(unflushed, 1, 0) = <<>>
      /\ unflushed \in Seq(Writes)
  BY DEF TierInit
<1>2. AllWritten(durable, unflushed) = durable
  BY <1>1, AllWrittenNone
<1>3. Sound(durable)
  BY DEF TierInit, Sound, TreesType, NewTrees
<1>4. \A k \in 0 .. 0 : k = 0
  OBVIOUS
<1>5. \A k \in 0 .. Len(unflushed) : Sound(AfterSome(k))
  BY <1>1, <1>2, <1>3, <1>4 DEF AfterSome
<1> QED BY <1>1, <1>2, <1>5 DEF TierInit, TierInv

\* Writes that are not flushed, and one more
LEMMA OneMoreWrite ==
  ASSUME NEW writes \in Seq(Writes), NEW w \in Writes, NEW more, more = Append(writes, w),
         NEW n, n = Len(writes)
  PROVE  /\ more \in Seq(Writes) /\ Len(more) = n + 1
         /\ \A k \in 0 .. n : SubSeq(more, 1, k) = SubSeq(writes, 1, k)
         /\ SubSeq(more, 1, n + 1) = more
         /\ SubSeq(writes, 1, n) = writes
<1>1. n \in Nat /\ more \in Seq(Writes) /\ Len(more) = n + 1
  OBVIOUS
<1>2. \A k \in 0 .. n : SubSeq(more, 1, k) = SubSeq(writes, 1, k)
  OBVIOUS
<1>3. SubSeq(more, 1, n + 1) = more
  OBVIOUS
<1>4. SubSeq(writes, 1, n) = writes
  OBVIOUS
<1> QED BY <1>1, <1>2, <1>3, <1>4

\* A write keeps the trees sound: a deletion was asked for, and an entry has its event.
LEMMA WrittenSound ==
  ASSUME Sound(trees), known \subseteq Tier1Events, NEW w \in Writes, NEW e \in Tier1Events,
         \/ w = WriteEvent(e)
         \/ w = WriteIndex(e) /\ e \in trees.events \cup gone
         \/ w = DeleteEvent(e) /\ e \in gone
  PROVE  LET t == Written(trees, w)
         IN /\ Sound(t)
            /\ trees.events \subseteq t.events \cup gone
            /\ \A x \in Tier1Events : (\E y \in trees.index : SameKey(y, x))
                                        => \E y \in t.index : SameKey(y, x)
            /\ w = WriteEvent(e) => e \in t.events
            /\ w = WriteIndex(e) => \E y \in t.index : SameKey(y, e)
<1> PICK events \in SUBSET Tier1Events, index \in SUBSET Tier1Events :
      trees = [events |-> events, index |-> index]
  BY DEF Sound, TreesType
<1>0. trees.events = events /\ trees.index = index
  OBVIOUS
<1> USE <1>0
<1>1. CASE w = WriteEvent(e)
  <2>1. w.kind = "event" /\ w.event = e
    BY <1>1 DEF WriteEvent
  <2>2. Written(trees, w) = [events |-> events \cup {e}, index |-> index]
    BY <2>1 DEF Written
  <2>3. WriteEvent(e) # WriteIndex(e)
    BY DEF WriteEvent, WriteIndex
  <2> QED BY <1>1, <2>2, <2>3 DEF Sound, TreesType
<1>2. CASE w = WriteIndex(e) /\ e \in trees.events \cup gone
  <2> DEFINE new == {x \in index : ~SameKey(x, e)} \cup {e}
  <2>1. w.kind = "index" /\ w.event = e
    BY <1>2 DEF WriteIndex
  <2>2. Written(trees, w) = [events |-> events, index |-> new]
    BY <2>1 DEF Written
  <2>3. new \subseteq Tier1Events /\ new \subseteq events \cup gone
    BY <1>2 DEF Sound
  <2>4. ASSUME NEW x \in Tier1Events, NEW y \in index, SameKey(y, x)
        PROVE  \E z \in new : SameKey(z, x)
    <3>1. CASE SameKey(y, e)
      BY <2>4, <3>1 DEF SameKey
    <3>2. CASE ~SameKey(y, e)
      BY <2>4, <3>2
    <3> QED BY <3>1, <3>2
  <2>5. SameKey(e, e) /\ e \in new
    BY DEF SameKey
  <2>6. WriteEvent(e) # WriteIndex(e)
    BY DEF WriteEvent, WriteIndex
  <2> HIDE DEF new
  <2>7. PICK t : t = Written(trees, w)
    OBVIOUS
  <2>8. t.events = events /\ t.index = new /\ t \in TreesType
    BY <2>2, <2>3, <2>7 DEF TreesType
  <2>9. \A x \in known : \E y \in t.index : SameKey(y, x)
    BY <2>4, <2>8 DEF Sound
  <2>10. Sound(t)
    BY <2>3, <2>8, <2>9 DEF Sound
  <2> QED BY <1>2, <2>4, <2>5, <2>6, <2>7, <2>8, <2>10
<1>3. CASE w = DeleteEvent(e) /\ e \in gone
  <2>1. w.kind = "delete" /\ w.event = e
    BY <1>3 DEF DeleteEvent
  <2>2. Written(trees, w) = [events |-> events \ {e}, index |-> index]
    BY <2>1 DEF Written
  <2>3. WriteEvent(e) # DeleteEvent(e) /\ WriteIndex(e) # DeleteEvent(e)
    BY DEF WriteEvent, WriteIndex, DeleteEvent
  <2> QED BY <1>3, <2>2, <2>3 DEF Sound, TreesType
<1> QED BY <1>1, <1>2, <1>3

LEMMA WritesSet ==
  ASSUME NEW e \in Tier1Events
  PROVE  /\ WriteEvent(e) \in Writes /\ WriteIndex(e) \in Writes /\ DeleteEvent(e) \in Writes
         /\ StoreWrites(e) \in Seq(Writes) /\ RemoveWrites(e) \in Seq(Writes)
         /\ StoreWrites(e) # <<>> /\ RemoveWrites(e) # <<>>
<1>1. WriteEvent(e) \in Writes /\ WriteIndex(e) \in Writes /\ DeleteEvent(e) \in Writes
  BY DEF Writes
<1> QED BY <1>1 DEF StoreWrites, RemoveWrites

\* A step that leaves the trees and what was written alone, and forgets nothing
LEMMA CallBegins ==
  ASSUME TierInv, UNCHANGED <<trees, durable, unflushed, known>>, gone \subseteq gone',
         \A c \in writers' : c \in writers \/ Underway(c)'
  PROVE  TierInv'
<1>1. \A t : Sound(t) => Sound(t)'
  BY DEF Sound
<1>2. \A c : Underway(c) => Underway(c)'
  BY DEF Underway
<1> QED BY <1>1, <1>2 DEF TierInv, AfterSome

LEMMA StoreBeginsInv ==
  ASSUME TierInv, NEW e \in Tier1Events, StoreBegins(e)
  PROVE  TierInv'
<1> PICK new : new = [event |-> e, removes |-> FALSE, todo |-> StoreWrites(e)]
  OBVIOUS
<1>1. writers' = writers \cup {new} /\ gone' = gone /\ UNCHANGED <<trees, durable, unflushed, known>>
  BY DEF StoreBegins, Begin
<1>2. new.event = e /\ new.removes = FALSE /\ new.todo = StoreWrites(e)
      /\ new \in [event : Tier1Events, removes : BOOLEAN, todo : Seq(Writes)]
  BY WritesSet
<1>3. Underway(new)'
  BY <1>2, WritesSet DEF Underway
<1> QED BY <1>1, <1>3, CallBegins

LEMMA RemoveBeginsInv ==
  ASSUME TierInv, NEW e \in Tier1Events, RemoveBegins(e)
  PROVE  TierInv'
<1> PICK new : new = [event |-> e, removes |-> TRUE, todo |-> RemoveWrites(e)]
  OBVIOUS
<1>1. writers' = writers \cup {new} /\ gone' = gone \cup {e}
      /\ UNCHANGED <<trees, durable, unflushed, known>>
  BY DEF RemoveBegins, Begin
<1>2. new.event = e /\ new.removes = TRUE /\ new.todo = RemoveWrites(e)
      /\ new \in [event : Tier1Events, removes : BOOLEAN, todo : Seq(Writes)]
  BY WritesSet
<1>3. Underway(new)'
  BY <1>1, <1>2 DEF Underway
<1> QED BY <1>1, <1>3, CallBegins

\* What a call has left to do, and what it does next
LEMMA NextWrite ==
  ASSUME NEW c, Underway(c), c.todo # <<>>
  PROVE  /\ c.event \in Tier1Events /\ Head(c.todo) \in Writes
         /\ \/ /\ ~c.removes /\ c.todo = StoreWrites(c.event)
               /\ Head(c.todo) = WriteEvent(c.event) /\ Tail(c.todo) = <<WriteIndex(c.event)>>
            \/ /\ ~c.removes /\ c.todo = <<WriteIndex(c.event)>>
               /\ Head(c.todo) = WriteIndex(c.event) /\ Tail(c.todo) = <<>>
               /\ c.event \in trees.events \cup gone
            \/ /\ c.removes /\ c.event \in gone
               /\ Head(c.todo) = DeleteEvent(c.event) /\ Tail(c.todo) = <<>>
<1>1. PICK e : e = c.event
  OBVIOUS
<1>2. e \in Tier1Events
  BY <1>1 DEF Underway
<1>3. WriteEvent(e) \in Writes /\ WriteIndex(e) \in Writes /\ DeleteEvent(e) \in Writes
  BY <1>2, WritesSet
<1>4. Head(StoreWrites(e)) = WriteEvent(e) /\ Tail(StoreWrites(e)) = <<WriteIndex(e)>>
  BY DEF StoreWrites
<1>5. Head(RemoveWrites(e)) = DeleteEvent(e) /\ Tail(RemoveWrites(e)) = <<>>
  BY DEF RemoveWrites
<1>6. Head(<<WriteIndex(e)>>) = WriteIndex(e) /\ Tail(<<WriteIndex(e)>>) = <<>>
  OBVIOUS
<1>7. StoreWrites(e) # <<WriteIndex(e)>>
  <2>1. Len(StoreWrites(e)) = 2 /\ Len(<<WriteIndex(e)>>) = 1
    BY DEF StoreWrites
  <2> QED BY <2>1
<1>8. CASE c.removes
  <2>1. c.event \in gone /\ c.todo = RemoveWrites(e)
    BY <1>1, <1>8 DEF Underway
  <2> QED BY <1>1, <1>2, <1>3, <1>5, <1>8, <2>1
<1>9. CASE ~c.removes
  <2>1. c.todo \in {StoreWrites(e), <<WriteIndex(e)>>}
    BY <1>1, <1>9 DEF Underway
  <2>2. c.todo # StoreWrites(e) => e \in trees.events \cup gone
    BY <1>1, <1>9 DEF Underway
  <2>3. CASE c.todo = StoreWrites(e)
    BY <1>1, <1>2, <1>3, <1>4, <1>9, <2>3
  <2>4. CASE c.todo = <<WriteIndex(e)>>
    BY <1>1, <1>2, <1>3, <1>6, <1>7, <1>9, <2>2, <2>4
  <2> QED BY <2>1, <2>3, <2>4
<1> QED BY <1>8, <1>9

LEMMA CallWritesInv ==
  ASSUME TierInv, NEW c \in writers, CallWrites(c)
  PROVE  TierInv'
<1> PICK e : e = c.event
  OBVIOUS
<1> PICK w : w = Head(c.todo)
  OBVIOUS
<1> PICK n : n = Len(unflushed)
  OBVIOUS
<1>1. /\ Underway(c) /\ c.todo # <<>> /\ trees' = Written(trees, w)
      /\ unflushed' = Append(unflushed, w) /\ UNCHANGED <<durable, known, gone>>
      /\ writers' = (writers \ {c}) \cup {[c EXCEPT !.todo = Tail(@)]}
  BY DEF CallWrites, TierInv
<1>2. /\ e \in Tier1Events /\ w \in Writes
      /\ \/ w = WriteEvent(e) /\ ~c.removes /\ Tail(c.todo) = <<WriteIndex(e)>>
         \/ w = WriteIndex(e) /\ e \in trees.events \cup gone /\ ~c.removes /\ Tail(c.todo) = <<>>
         \/ w = DeleteEvent(e) /\ e \in gone /\ c.removes /\ Tail(c.todo) = <<>>
  BY <1>1, NextWrite
<1>3. /\ unflushed \in Seq(Writes) /\ n \in Nat /\ known \subseteq Tier1Events
      /\ trees = AllWritten(durable, unflushed)
      /\ \A k \in 0 .. n : Sound(AfterSome(k))
  BY DEF TierInv
<1>4. /\ unflushed' \in Seq(Writes) /\ Len(unflushed') = n + 1
      /\ \A k \in 0 .. n : SubSeq(unflushed', 1, k) = SubSeq(unflushed, 1, k)
      /\ SubSeq(unflushed', 1, n + 1) = unflushed'
      /\ SubSeq(unflushed, 1, n) = unflushed
  <2>0. PICK u : u = unflushed
    OBVIOUS
  <2>1. PICK more : more = Append(u, w)
    OBVIOUS
  <2>2. /\ more \in Seq(Writes) /\ Len(more) = n + 1
        /\ \A k \in 0 .. n : SubSeq(more, 1, k) = SubSeq(u, 1, k)
        /\ SubSeq(more, 1, n + 1) = more
        /\ SubSeq(u, 1, n) = u
    <3>1. u \in Seq(Writes) /\ n = Len(u) /\ w \in Writes
      BY <1>2, <1>3, <2>0
    <3> QED BY <2>1, <3>1, OneMoreWrite
  <2> QED BY <1>1, <2>0, <2>1, <2>2
<1>5. Sound(trees)
  <2>1. n \in 0 .. n
    BY <1>3
  <2> QED BY <1>3, <1>4, <2>1 DEF AfterSome
<1>6. trees' = AllWritten(durable', unflushed')
  BY <1>1, <1>2, <1>3, AllWrittenMore
<1>7. /\ Sound(trees')
      /\ trees.events \subseteq trees'.events \cup gone
      /\ \A x \in Tier1Events : (\E y \in trees.index : SameKey(y, x))
                                  => \E y \in trees'.index : SameKey(y, x)
      /\ w = WriteEvent(e) => e \in trees'.events
      /\ w = WriteIndex(e) => \E y \in trees'.index : SameKey(y, e)
  BY <1>1, <1>2, <1>3, <1>5, WrittenSound
<1>8. \A t : Sound(t) => Sound(t)'
  BY <1>1 DEF Sound
<1>9. \A k \in 0 .. n + 1 : Sound(AfterSome(k))'
  <2>1. ASSUME NEW k \in 0 .. n
        PROVE  Sound(AfterSome(k))'
    BY <1>1, <1>3, <1>4, <1>8 DEF AfterSome
  <2>2. Sound(AfterSome(n + 1))'
    <3>1. PICK t : t = trees'
      OBVIOUS
    <3>2. Sound(t)'
      BY <1>7, <1>8, <3>1
    <3>3. AfterSome(n + 1)' = t
      BY <1>4, <1>6, <3>1 DEF AfterSome
    <3> QED BY <3>2, <3>3
  <2>3. \A k \in 0 .. n + 1 : k \in 0 .. n \/ k = n + 1
    BY <1>3
  <2> QED BY <2>1, <2>2, <2>3
<1>10. ASSUME NEW x, Underway(x)
       PROVE  Underway(x)'
  <2>1. x.event \in Tier1Events
    BY <1>10 DEF Underway
  <2> QED BY <1>1, <1>7, <1>10, <2>1 DEF Underway
<1>11. Underway([c EXCEPT !.todo = Tail(@)])'
  <2> PICK d : d = [c EXCEPT !.todo = Tail(@)]
    OBVIOUS
  <2>1. c \in [event : Tier1Events, removes : BOOLEAN, todo : Seq(Writes)]
    BY <1>1 DEF Underway
  <2>a. c \in [event : {c.event}, removes : {c.removes}, todo : {c.todo}]
    BY <2>1
  <2>b. d = [event |-> c.event, removes |-> c.removes, todo |-> Tail(c.todo)]
    BY <2>a
  <2>c. Tail(c.todo) \in Seq(Writes)
    BY <1>1, <2>1
  <2>2. /\ d.event = e /\ d.removes = c.removes /\ d.todo = Tail(c.todo)
        /\ d \in [event : Tier1Events, removes : BOOLEAN, todo : Seq(Writes)]
    BY <2>1, <2>b, <2>c
  <2>3. CASE w = WriteEvent(e) /\ ~c.removes /\ Tail(c.todo) = <<WriteIndex(e)>>
    <3>1. <<WriteIndex(e)>> # <<>>
      OBVIOUS
    <3> QED BY <1>1, <1>7, <2>2, <2>3, <3>1 DEF Underway
  <2>4. CASE w = WriteIndex(e) /\ e \in trees.events \cup gone /\ ~c.removes /\ Tail(c.todo) = <<>>
    BY <1>1, <1>7, <2>2, <2>4 DEF Underway
  <2>5. CASE w = DeleteEvent(e) /\ e \in gone /\ c.removes /\ Tail(c.todo) = <<>>
    BY <1>1, <2>2, <2>5 DEF Underway
  <2>6. Underway(d)'
    BY <1>2, <2>3, <2>4, <2>5
  <2> QED BY <2>6
<1>12. \A x \in writers' : Underway(x)'
  BY <1>1, <1>10, <1>11 DEF TierInv
<1> QED BY <1>1, <1>3, <1>4, <1>6, <1>9, <1>12 DEF TierInv

LEMMA CallReturnsInv ==
  ASSUME TierInv, NEW c \in writers, CallReturns(c)
  PROVE  TierInv'
<1> PICK n : n = Len(unflushed)
  OBVIOUS
<1>1. /\ Underway(c) /\ c.todo = <<>> /\ durable' = AllWritten(durable, unflushed)
      /\ unflushed' = <<>> /\ UNCHANGED <<trees, gone>> /\ writers' = writers \ {c}
      /\ known' = IF c.removes THEN known ELSE known \cup {c.event}
  BY DEF CallReturns, TierInv
<1>2. /\ unflushed \in Seq(Writes) /\ n \in Nat /\ known \subseteq Tier1Events
      /\ trees = AllWritten(durable, unflushed)
      /\ \A k \in 0 .. n : Sound(AfterSome(k))
  BY DEF TierInv
<1>3. Sound(trees)
  <2>1. n \in 0 .. n /\ SubSeq(unflushed, 1, n) = unflushed
    BY <1>2
  <2> QED BY <1>2, <2>1 DEF AfterSome
<1>4. Sound(trees)' /\ known' \subseteq Tier1Events
  <2>1. CASE c.removes
    BY <1>1, <1>2, <1>3, <2>1 DEF Sound
  <2>2. CASE ~c.removes
    <3>1. /\ c.event \in Tier1Events
          /\ \E x \in trees.index : SameKey(x, c.event)
          /\ c.event \in trees.events \cup gone
      <4>1. StoreWrites(c.event) # <<>> /\ c.event \in Tier1Events
        BY <1>1, WritesSet DEF Underway
      <4> QED BY <1>1, <2>2, <4>1 DEF Underway
    <3> QED BY <1>1, <1>2, <1>3, <2>2, <3>1 DEF Sound
  <2> QED BY <2>1, <2>2
<1>5. AfterSome(0)' = trees' /\ trees' = AllWritten(durable', unflushed')
  <2>1. SubSeq(<<>>, 1, 0) = <<>>
    OBVIOUS
  <2> QED BY <1>1, <1>2, <2>1, AllWrittenNone DEF AfterSome
<1>6. \A k \in 0 .. Len(unflushed') : Sound(AfterSome(k))'
  <2>1. \A k \in 0 .. Len(unflushed') : k = 0
    BY <1>1
  <2>2. Sound(AfterSome(0))'
    BY <1>4, <1>5
  <2> QED BY <2>1, <2>2
<1>7. \A x : Underway(x) => Underway(x)'
  BY <1>1 DEF Underway
<1>8. unflushed' \in Seq(Writes)
  BY <1>1
<1> QED BY <1>1, <1>4, <1>5, <1>6, <1>7, <1>8 DEF TierInv

LEMMA CrashInv ==
  ASSUME TierInv, CrashAndOpen
  PROVE  TierInv'
<1>1. PICK kept \in 0 .. Len(unflushed) : durable' = AfterSome(kept)
  BY DEF CrashAndOpen, AfterSome
<1>2. trees' = durable' /\ unflushed' = <<>> /\ writers' = {} /\ UNCHANGED <<known, gone>>
  BY DEF CrashAndOpen
<1>3. Sound(AfterSome(kept))
  BY DEF TierInv
<1>4. Sound(durable)'
  BY <1>1, <1>2, <1>3 DEF Sound
<1>5. AfterSome(0)' = durable' /\ durable' = AllWritten(durable', unflushed')
  <2>1. SubSeq(<<>>, 1, 0) = <<>>
    OBVIOUS
  <2> QED BY <1>2, <2>1, AllWrittenNone DEF AfterSome
<1>6. \A k \in 0 .. Len(unflushed') : Sound(AfterSome(k))'
  <2>1. \A k \in 0 .. Len(unflushed') : k = 0
    BY <1>2
  <2>2. Sound(AfterSome(0))'
    BY <1>4, <1>5
  <2> QED BY <2>1, <2>2
<1>7. unflushed' \in Seq(Writes) /\ known' \subseteq Tier1Events
  BY <1>2 DEF TierInv
<1> QED BY <1>2, <1>5, <1>6, <1>7 DEF TierInv

LEMMA TierStep == TierInv /\ [TierNext]_tierVars => TierInv'
<1> SUFFICES ASSUME TierInv, [TierNext]_tierVars PROVE TierInv'
  OBVIOUS
<1>1. CASE UNCHANGED tierVars
  BY <1>1 DEF tierVars, TierInv, Sound, AfterSome, Underway
<1>2. ASSUME NEW e \in Tier1Events, StoreBegins(e) \/ RemoveBegins(e)
      PROVE  TierInv'
  BY <1>2, StoreBeginsInv, RemoveBeginsInv
<1>3. ASSUME NEW c \in writers, CallWrites(c) \/ CallReturns(c)
      PROVE  TierInv'
  BY <1>3, CallWritesInv, CallReturnsInv
<1> QED BY <1>1, <1>2, <1>3, CrashInv DEF TierNext

LEMMA TierKeeps == TierInv => StoreSurvives
<1> SUFFICES ASSUME TierInv, NEW e \in known \ gone
             PROVE  /\ LoadTier1(trees, e.id) = {e}
                    /\ (\A x \in gone : ~SameKey(x, e))
                         => \E x \in ToSet(ReplayTier1(trees, e.stream, 0)) : SameKey(x, e)
  BY DEF StoreSurvives
<1>1. Sound(trees)
  <2>1. PICK n : n = Len(unflushed)
    OBVIOUS
  <2>2. n \in 0 .. n /\ SubSeq(unflushed, 1, n) = unflushed
    BY <2>1 DEF TierInv
  <2> QED BY <2>1, <2>2 DEF TierInv, AfterSome
<1>2. e \in Tier1Events /\ trees.events \subseteq Tier1Events /\ trees.index \subseteq Tier1Events
  BY <1>1 DEF TierInv, Sound, TreesType
<1>3. LoadTier1(trees, e.id) = {e}
  BY <1>1, <1>2, TierAssumption DEF LoadTier1, Sound
<1>4. ASSUME \A x \in gone : ~SameKey(x, e)
      PROVE  \E x \in ToSet(ReplayTier1(trees, e.stream, 0)) : SameKey(x, e)
  <2>1. PICK x \in trees.index : SameKey(x, e)
    BY <1>1 DEF Sound
  <2>2. x \in trees.events
    BY <1>1, <1>4, <2>1 DEF Sound
  <2> DEFINE S == {y \in trees.index : y.stream = e.stream /\ y.seq >= 0 /\ y \in trees.events}
  <2>3. x \in S /\ S \in SUBSET Tier1Events
    BY <1>2, <2>1, <2>2, TierAssumption DEF SameKey
  <2> HIDE DEF S
  <2>4. x \in ToSet(Ordered(S))
    BY <2>3, OrderedHas
  <2>5. Ordered(S) = ReplayTier1(trees, e.stream, 0)
    BY DEF S, ReplayTier1
  <2> QED BY <2>1, <2>4, <2>5
<1> QED BY <1>3, <1>4

-----------------------------------------------------------------------------
(* The commands *)

Names ==
  {"config", "override", "import", "run", "create_dir", "format", "source", "forward",
   "result_exists", "bridge_script", "python", "output_exists", "read_validation",
   "create", "write"}

Stages == [do : Names, file : ResultFiles \cup {""}]
Results == {"json", "trades"}
Export == Write("q_state")

\* A job is a record, whatever its request and its configuration are.
IsJob(j) ==
  /\ j \in [request : {j.request}, run : {j.run}, todo : {j.todo}, config : {j.config},
            learned : {j.learned}, partial : {j.partial}]
  /\ j.todo \in Seq(Stages) /\ j.todo # <<>>

\* In what is left to do, a result that is created is written after, and the export comes
\* after the results that are still to be written.
InOrder(todo) ==
  \A f \in Results :
    /\ \A i \in DOMAIN todo : todo[i] = Create(f) => \E k \in DOMAIN todo : i < k /\ todo[k] = Write(f)
    /\ \A i, k \in DOMAIN todo : todo[i] = Export /\ todo[k] = Write(f) => k < i

\* A job that will export has its results on disk, or has them still to write.
Accounted(j) ==
  \A f \in Results : (\E i \in DOMAIN j.todo : j.todo[i] = Export) =>
    \/ \E k \in DOMAIN j.todo : j.todo[k] = Write(f)
    \/ \E c \in disk[f] : c.whole /\ c.run = j.run

CommandInv ==
  /\ DOMAIN disk = ResultFiles
  /\ \A j \in job : IsJob(j) /\ InOrder(j.todo) /\ Accounted(j)

\* The stages of a backtest before the export
Before(args) ==
  <<Stage("config"), Stage("override")>>
    \o If(args.import, <<Stage("import")>>)
    \o If(args.dump, <<Create("features")>>)
    \o <<Stage("run")>> \o If(args.dump, <<Write("features")>>)

LEMMA Append2 ==
  ASSUME NEW S, NEW s \in Seq(S), NEW t \in Seq(S)
  PROVE  /\ s \o t \in Seq(S) /\ Len(s \o t) = Len(s) + Len(t)
         /\ \A i \in 1 .. Len(s) : (s \o t)[i] = s[i]
         /\ \A i \in Len(s) + 1 .. Len(s) + Len(t) : (s \o t)[i] = t[i - Len(s)]
OBVIOUS

EarlyStages ==
  {Stage("config"), Stage("override"), Stage("import"), Create("features"), Stage("run"),
   Write("features")}

LEMMA StageTypes ==
  /\ \A f \in ResultFiles : Create(f) \in Stages /\ Write(f) \in Stages
  /\ \A what \in Names : Stage(what) \in Stages
BY DEF Stages, Stage, Create, Write, Names

\* No two of the stages of a backtest are the same.
LEMMA StagesDiffer ==
  ASSUME NEW f \in Results
  PROVE  /\ Create(f) \notin EarlyStages \cup {Stage("create_dir"), Stage("format"), Create("q_state"), Export}
         /\ Write(f) \notin EarlyStages \cup {Stage("create_dir"), Stage("format"), Create("q_state"), Export}
         /\ Export \notin EarlyStages \cup {Stage("create_dir")}
         /\ \A g \in Results : Create(f) # Write(g) /\ (f # g => Create(f) # Create(g) /\ Write(f) # Write(g))
BY DEF EarlyStages, Stage, Create, Write, Export, Results

LEMMA BeforeStages ==
  ASSUME NEW args
  PROVE  Before(args) \in Seq(EarlyStages)
<1> DEFINE S == EarlyStages
           a == <<Stage("config"), Stage("override")>>
           b == If(args.import, <<Stage("import")>>)
           c == If(args.dump, <<Create("features")>>)
           d == <<Stage("run")>>
           e == If(args.dump, <<Write("features")>>)
<1>1. /\ a \in Seq(S) /\ d \in Seq(S) /\ <<Stage("import")>> \in Seq(S)
      /\ <<Create("features")>> \in Seq(S) /\ <<Write("features")>> \in Seq(S) /\ <<>> \in Seq(S)
  BY DEF EarlyStages
<1>2. b \in Seq(S) /\ c \in Seq(S) /\ e \in Seq(S)
  BY <1>1 DEF If
<1>3. Before(args) = (((a \o b) \o c) \o d) \o e
  BY DEF Before
<1> HIDE DEF S, a, b, c, d, e
<1>4. (((a \o b) \o c) \o d) \o e \in Seq(S)
  BY <1>1, <1>2, Append2
<1> QED BY <1>3, <1>4 DEF S

\* The results of a backtest, and its export
ResultStages ==
  <<Stage("create_dir"), Create("json"), Write("json"), Create("trades"), Write("trades")>>
ExportStages(args) ==
  If(args.export # "", <<Stage("format"), Create("q_state"), Write("q_state")>>)

LEMMA BacktestOrdered ==
  ASSUME NEW args
  PROVE  LET todo == BacktestStages(args)
         IN /\ todo \in Seq(Stages) /\ InOrder(todo)
            /\ \A f \in Results : \E k \in DOMAIN todo : todo[k] = Write(f)
<1> DEFINE early == Before(args)
           n == Len(early)
           late == ExportStages(args)
           todo == (early \o ResultStages) \o late
<1>1. BacktestStages(args) = todo
  BY DEF BacktestStages, Before, ResultStages, ExportStages
<1>2. early \in Seq(EarlyStages) /\ n \in Nat
  BY BeforeStages
<1>3. EarlyStages \subseteq Stages
  BY StageTypes DEF EarlyStages, Names, ResultFiles
<1>4. ResultStages \in Seq(Stages) /\ Len(ResultStages) = 5
  <2>1. /\ Stage("create_dir") \in Stages /\ Create("json") \in Stages /\ Write("json") \in Stages
        /\ Create("trades") \in Stages /\ Write("trades") \in Stages
    BY StageTypes DEF Names, ResultFiles
  <2> QED BY <2>1 DEF ResultStages
<1>5. late \in Seq(Stages) /\ Len(late) \in Nat
      /\ \A i \in 1 .. Len(late) : late[i] \in {Stage("format"), Create("q_state"), Export}
  <2>1. Stage("format") \in Stages /\ Create("q_state") \in Stages /\ Export \in Stages
    BY StageTypes DEF Names, ResultFiles, Export
  <2>2. CASE args.export # ""
    <3>1. late = <<Stage("format"), Create("q_state"), Export>>
      BY <2>2 DEF ExportStages, If, Export
    <3> QED BY <2>1, <3>1
  <2>3. CASE ~(args.export # "")
    <3>1. late = <<>>
      BY <2>3 DEF ExportStages, If
    <3> QED BY <3>1
  <2> QED BY <2>2, <2>3
<1> HIDE DEF early, late, n
<1>6. early \in Seq(Stages)
  BY <1>2, <1>3
<1>7. /\ todo \in Seq(Stages) /\ DOMAIN todo = 1 .. (n + 5) + Len(late)
      /\ \A i \in 1 .. n : todo[i] \in EarlyStages
      /\ \A i \in n + 1 .. n + 5 : todo[i] = ResultStages[i - n]
      /\ \A i \in n + 6 .. (n + 5) + Len(late) : todo[i] \in {Stage("format"), Create("q_state"), Export}
  <2>1. /\ early \o ResultStages \in Seq(Stages) /\ Len(early \o ResultStages) = n + 5
        /\ \A i \in 1 .. n : (early \o ResultStages)[i] = early[i]
        /\ \A i \in n + 1 .. n + 5 : (early \o ResultStages)[i] = ResultStages[i - n]
    <3>1. /\ early \o ResultStages \in Seq(Stages) /\ Len(early \o ResultStages) = Len(early) + Len(ResultStages)
          /\ \A i \in 1 .. Len(early) : (early \o ResultStages)[i] = early[i]
          /\ \A i \in Len(early) + 1 .. Len(early) + Len(ResultStages) :
               (early \o ResultStages)[i] = ResultStages[i - Len(early)]
      BY <1>4, <1>6, Append2
    <3> QED BY <1>4, <3>1 DEF n
  <2> DEFINE both == early \o ResultStages
  <2> HIDE DEF both
  <2>2. /\ todo \in Seq(Stages) /\ Len(todo) = (n + 5) + Len(late)
        /\ \A i \in 1 .. n + 5 : todo[i] = both[i]
        /\ \A i \in (n + 5) + 1 .. (n + 5) + Len(late) : todo[i] = late[i - (n + 5)]
    BY <1>5, <2>1, Append2 DEF both
  <2> HIDE DEF todo
  <2>3. \A i \in 1 .. n : todo[i] \in EarlyStages
    <3>1. \A i \in 1 .. n : early[i] \in EarlyStages
      BY <1>2 DEF n
    <3>2. \A i \in 1 .. n : i \in 1 .. n + 5
      BY <1>2
    <3>3. \A i \in 1 .. n : both[i] = early[i]
      BY <2>1 DEF both
    <3> QED BY <2>2, <3>1, <3>2, <3>3
  <2>4. \A i \in n + 1 .. n + 5 : todo[i] = ResultStages[i - n]
    <3>1. \A i \in n + 1 .. n + 5 : i \in 1 .. n + 5
      BY <1>2
    <3>2. \A i \in n + 1 .. n + 5 : both[i] = ResultStages[i - n]
      BY <2>1 DEF both
    <3> QED BY <2>2, <3>1, <3>2
  <2>5. \A i \in n + 6 .. (n + 5) + Len(late) : todo[i] \in {Stage("format"), Create("q_state"), Export}
    <3> SUFFICES ASSUME NEW i \in n + 6 .. (n + 5) + Len(late)
                 PROVE  todo[i] \in {Stage("format"), Create("q_state"), Export}
      OBVIOUS
    <3>1. i \in (n + 5) + 1 .. (n + 5) + Len(late) /\ i - (n + 5) \in 1 .. Len(late)
      BY <1>2, <1>5
    <3> QED BY <1>5, <2>2, <3>1
  <2> QED BY <2>2, <2>3, <2>4, <2>5
<1> HIDE DEF todo
<1>8. /\ n + 1 \in DOMAIN todo /\ n + 2 \in DOMAIN todo /\ n + 3 \in DOMAIN todo
      /\ n + 4 \in DOMAIN todo /\ n + 5 \in DOMAIN todo
      /\ todo[n + 1] = Stage("create_dir")
      /\ todo[n + 2] = Create("json") /\ todo[n + 3] = Write("json")
      /\ todo[n + 4] = Create("trades") /\ todo[n + 5] = Write("trades")
  <2>1. /\ n + 1 \in n + 1 .. n + 5 /\ n + 2 \in n + 1 .. n + 5 /\ n + 3 \in n + 1 .. n + 5
        /\ n + 4 \in n + 1 .. n + 5 /\ n + 5 \in n + 1 .. n + 5
        /\ (n + 1) - n = 1 /\ (n + 2) - n = 2 /\ (n + 3) - n = 3 /\ (n + 4) - n = 4 /\ (n + 5) - n = 5
    BY <1>2
  <2>2. n + 1 .. n + 5 \subseteq DOMAIN todo
    BY <1>2, <1>5, <1>7
  <2>3. /\ ResultStages[1] = Stage("create_dir")
        /\ ResultStages[2] = Create("json") /\ ResultStages[3] = Write("json")
        /\ ResultStages[4] = Create("trades") /\ ResultStages[5] = Write("trades")
    BY DEF ResultStages
  <2> QED BY <1>7, <2>1, <2>2, <2>3
<1>9. \A i \in DOMAIN todo : i \in Nat /\
        \/ i <= n /\ todo[i] \in EarlyStages
        \/ i \in {n + 1, n + 2, n + 3, n + 4, n + 5}
        \/ i > n + 5 /\ todo[i] \in {Stage("format"), Create("q_state"), Export}
  <2> SUFFICES ASSUME NEW i \in DOMAIN todo
               PROVE  i \in Nat /\ (\/ i <= n /\ todo[i] \in EarlyStages
                                    \/ i \in {n + 1, n + 2, n + 3, n + 4, n + 5}
                                    \/ i > n + 5 /\ todo[i] \in {Stage("format"), Create("q_state"), Export})
    OBVIOUS
  <2>1. i \in Nat /\ 1 <= i /\ i <= (n + 5) + Len(late)
    BY <1>2, <1>5, <1>7
  <2>2. \/ i \in 1 .. n \/ i \in {n + 1, n + 2, n + 3, n + 4, n + 5}
        \/ i \in n + 6 .. (n + 5) + Len(late)
    BY <1>2, <1>5, <2>1
  <2>3. i \in n + 6 .. (n + 5) + Len(late) => i > n + 5
    BY <1>2, <1>5
  <2>4. i \in 1 .. n => i <= n
    BY <1>2
  <2> QED BY <1>7, <2>1, <2>2, <2>3, <2>4
<1>10. ASSUME NEW f \in Results
       PROVE  /\ \A i \in DOMAIN todo : todo[i] = Create(f) =>
                   \E k \in DOMAIN todo : i < k /\ todo[k] = Write(f)
              /\ \A i, k \in DOMAIN todo : todo[i] = Export /\ todo[k] = Write(f) => k < i
              /\ \E k \in DOMAIN todo : todo[k] = Write(f)
  <2>0. f \in {"json", "trades"}
    BY DEF Results
  <2>1. Create(f) \notin EarlyStages /\ Write(f) \notin EarlyStages /\ Export \notin EarlyStages
    BY StagesDiffer
  <2>2. Create(f) \notin {Stage("format"), Create("q_state"), Export}
        /\ Write(f) \notin {Stage("format"), Create("q_state"), Export}
    BY StagesDiffer
  <2>3. \A i \in {n + 1, n + 2, n + 3, n + 4, n + 5} : todo[i] # Export /\ i <= n + 5
    <3>1. /\ Export # Stage("create_dir") /\ \A g \in Results : Export # Create(g) /\ Export # Write(g)
      BY StagesDiffer
    <3>2. "json" \in Results /\ "trades" \in Results
      BY DEF Results
    <3> QED BY <1>2, <1>8, <3>1, <3>2
  <2>4. \A i \in DOMAIN todo : todo[i] = Export => i > n + 5
    BY <1>9, <2>1, <2>3
  <2>5. \A k \in DOMAIN todo : todo[k] = Write(f) => k <= n + 5
    BY <1>2, <1>9, <2>1, <2>2
  <2>6. \A i \in DOMAIN todo : todo[i] = Create(f) => \E k \in DOMAIN todo : i < k /\ todo[k] = Write(f)
    <3> SUFFICES ASSUME NEW i \in DOMAIN todo, todo[i] = Create(f)
                 PROVE  \E k \in DOMAIN todo : i < k /\ todo[k] = Write(f)
      OBVIOUS
    <3>1. i \in {n + 1, n + 2, n + 3, n + 4, n + 5}
      BY <1>9, <2>1, <2>2
    <3>2. CASE f = "json"
      <4>1. i = n + 2
        BY <1>8, <3>1, <3>2, StagesDiffer DEF Results
      <4> QED BY <1>2, <1>8, <3>2, <4>1
    <3>3. CASE f = "trades"
      <4>1. i = n + 4
        BY <1>8, <3>1, <3>3, StagesDiffer DEF Results
      <4> QED BY <1>2, <1>8, <3>3, <4>1
    <3> QED BY <2>0, <3>2, <3>3
  <2>7. \E k \in DOMAIN todo : todo[k] = Write(f)
    BY <1>8, <2>0
  <2>8. \A i, k \in DOMAIN todo : todo[i] = Export /\ todo[k] = Write(f) => k < i
    <3> SUFFICES ASSUME NEW i \in DOMAIN todo, NEW k \in DOMAIN todo, todo[i] = Export, todo[k] = Write(f)
                 PROVE  k < i
      OBVIOUS
    <3>1. i > n + 5 /\ k <= n + 5 /\ i \in Nat /\ k \in Nat
      BY <1>9, <2>4, <2>5
    <3> QED BY <1>2, <3>1
  <2> QED BY <2>6, <2>7, <2>8
<1>11. InOrder(todo)
  BY <1>10 DEF InOrder
<1> QED BY <1>1, <1>7, <1>10, <1>11

LEMMA OthersOrdered ==
  ASSUME NEW todo \in {ForwardStages, ValidateStages}
  PROVE  /\ todo \in Seq(Stages) /\ todo # <<>> /\ InOrder(todo)
         /\ \A i \in DOMAIN todo : todo[i] # Export
<1> DEFINE Plain == {Stage("config"), Stage("source"), Stage("forward"), Stage("create_dir"),
                     Create("forward"), Write("forward"), Stage("result_exists"),
                     Stage("bridge_script"), Stage("python"), Stage("output_exists"),
                     Stage("read_validation")}
<1>1. Plain \subseteq Stages
  BY StageTypes DEF Names, ResultFiles
<1>2. \A f \in Results : Create(f) \notin Plain /\ Write(f) \notin Plain
  BY DEF Results, Stage, Create, Write
<1>3. Export \notin Plain
  BY DEF Export, Stage, Create, Write
<1>4. todo \in Seq(Plain) /\ todo # <<>>
  <2>1. CASE todo = ForwardStages
    <3>1. /\ Stage("config") \in Plain /\ Stage("source") \in Plain /\ Stage("forward") \in Plain
          /\ Stage("create_dir") \in Plain /\ Create("forward") \in Plain /\ Write("forward") \in Plain
      OBVIOUS
    <3> HIDE DEF Plain
    <3> QED BY <2>1, <3>1 DEF ForwardStages
  <2>2. CASE todo = ValidateStages
    <3>1. /\ Stage("result_exists") \in Plain /\ Stage("bridge_script") \in Plain
          /\ Stage("create_dir") \in Plain /\ Stage("python") \in Plain
          /\ Stage("output_exists") \in Plain /\ Stage("read_validation") \in Plain
      OBVIOUS
    <3> HIDE DEF Plain
    <3> QED BY <2>2, <3>1 DEF ValidateStages
  <2> QED BY <2>1, <2>2
<1> HIDE DEF Plain
<1>5. \A i \in DOMAIN todo : todo[i] \in Plain
  BY <1>4
<1>6. InOrder(todo)
  BY <1>2, <1>5 DEF InOrder
<1> QED BY <1>1, <1>3, <1>4, <1>5, <1>6

LEMMA CommandInitInv == CommandInit => CommandInv
BY DEF CommandInit, CommandInv

\* A new command has everything still to do.
LEMMA GiveInv ==
  ASSUME CommandInv, NEW request \in Requests, Give(request)
  PROVE  CommandInv'
<1> DEFINE todo == StagesOf(request)
<1>0. PICK j : j = [request |-> request, run |-> runs + 1, todo |-> todo,
                    config |-> request.config, learned |-> {}, partial |-> FALSE]
  OBVIOUS
<1>1. job' = {j} /\ disk' = disk
  BY <1>0 DEF Give
<1>2. /\ todo \in Seq(Stages) /\ todo # <<>> /\ InOrder(todo)
      /\ (\E i \in DOMAIN todo : todo[i] = Export) =>
           \A f \in Results : \E k \in DOMAIN todo : todo[k] = Write(f)
  <2>1. request.command \in {"backtest", "forward-test", "validate"}
    BY CommandAssumption
  <2>2. CASE request.command = "backtest"
    <3>1. todo = BacktestStages(request.args)
      BY <2>2 DEF StagesOf
    <3>2. /\ BacktestStages(request.args) \in Seq(Stages) /\ InOrder(BacktestStages(request.args))
          /\ \A f \in Results : \E k \in DOMAIN BacktestStages(request.args) :
               BacktestStages(request.args)[k] = Write(f)
      BY BacktestOrdered
    <3>3. BacktestStages(request.args) # <<>>
      BY <3>2 DEF Results
    <3> HIDE DEF todo
    <3> QED BY <3>1, <3>2, <3>3
  <2>3. CASE request.command \in {"forward-test", "validate"}
    <3>1. todo \in {ForwardStages, ValidateStages}
      BY <2>3 DEF StagesOf
    <3> HIDE DEF todo
    <3> QED BY <3>1, OthersOrdered
  <2> QED BY <2>1, <2>2, <2>3
<1>3. j.todo = todo
  BY <1>0
<1>4. IsJob(j)
  <2> HIDE DEF todo
  <2>1. j \in [request : {j.request}, run : {j.run}, todo : {j.todo}, config : {j.config},
               learned : {j.learned}, partial : {j.partial}]
    BY <1>0
  <2> QED BY <1>2, <1>3, <2>1 DEF IsJob
<1>5. InOrder(j.todo)
  BY <1>2, <1>3
<1> HIDE DEF todo
<1>6. Accounted(j)'
  BY <1>2, <1>3 DEF Accounted
<1> QED BY <1>1, <1>4, <1>5, <1>6 DEF CommandInv

\* One part of a job is set.
LEMMA JobSet ==
  ASSUME NEW j, IsJob(j), NEW v
  PROVE  /\ IsJob([j EXCEPT !.config = v]) /\ IsJob([j EXCEPT !.learned = v])
         /\ IsJob([j EXCEPT !.partial = v])
         /\ \A k \in {[j EXCEPT !.config = v], [j EXCEPT !.learned = v], [j EXCEPT !.partial = v]} :
              k.run = j.run /\ k.todo = j.todo
<1>1. j \in [request : {j.request}, run : {j.run}, todo : {j.todo}, config : {j.config},
             learned : {j.learned}, partial : {j.partial}]
  BY DEF IsJob
<1>2. /\ [j EXCEPT !.config = v] = [request |-> j.request, run |-> j.run, todo |-> j.todo,
                                    config |-> v, learned |-> j.learned, partial |-> j.partial]
      /\ [j EXCEPT !.learned = v] = [request |-> j.request, run |-> j.run, todo |-> j.todo,
                                    config |-> j.config, learned |-> v, partial |-> j.partial]
      /\ [j EXCEPT !.partial = v] = [request |-> j.request, run |-> j.run, todo |-> j.todo,
                                    config |-> j.config, learned |-> j.learned, partial |-> v]
  BY <1>1
<1> QED BY <1>2 DEF IsJob

LEMMA JobTail ==
  ASSUME NEW j, IsJob(j), NEW todo \in Seq(Stages), todo # <<>>
  PROVE  IsJob([j EXCEPT !.todo = todo]) /\ [j EXCEPT !.todo = todo].run = j.run
         /\ [j EXCEPT !.todo = todo].todo = todo
<1>1. j \in [request : {j.request}, run : {j.run}, todo : {j.todo}, config : {j.config},
             learned : {j.learned}, partial : {j.partial}]
  BY DEF IsJob
<1>2. [j EXCEPT !.todo = todo] = [request |-> j.request, run |-> j.run, todo |-> todo,
                                  config |-> j.config, learned |-> j.learned, partial |-> j.partial]
  BY <1>1
<1> QED BY <1>2 DEF IsJob

LEMMA TailParts ==
  ASSUME NEW S, NEW s \in Seq(S), Len(s) > 1
  PROVE  /\ Tail(s) \in Seq(S) /\ Tail(s) # <<>> /\ DOMAIN Tail(s) = 1 .. Len(s) - 1
         /\ \A i \in DOMAIN Tail(s) : i \in Nat /\ Tail(s)[i] = s[i + 1] /\ i + 1 \in DOMAIN s
         /\ \A k \in DOMAIN s : k # 1 => k - 1 \in DOMAIN Tail(s) /\ Tail(s)[k - 1] = s[k]
<1>1. Tail(s) \in Seq(S) /\ Len(Tail(s)) = Len(s) - 1 /\ DOMAIN s = 1 .. Len(s) /\ Len(s) \in Nat
  OBVIOUS
<1>2. DOMAIN Tail(s) = 1 .. Len(s) - 1
  BY <1>1
<1>3. \A i \in 1 .. Len(s) - 1 : i \in Nat /\ Tail(s)[i] = s[i + 1] /\ i + 1 \in 1 .. Len(s)
  BY <1>1
<1>4. \A k \in 1 .. Len(s) : k # 1 => k - 1 \in 1 .. Len(s) - 1 /\ (k - 1) + 1 = k
  BY <1>1
<1>5. Tail(s) # <<>>
  <2>1. Len(Tail(s)) # 0
    BY <1>1
  <2>2. ASSUME NEW t, Len(t) # 0 PROVE t # <<>>
    BY <2>2, Len(<<>>) = 0
  <2> QED BY <2>1, <2>2
<1> QED BY <1>1, <1>2, <1>3, <1>4, <1>5

\* What a stage may do to the files
StageOn(j) ==
  /\ DOMAIN disk' = ResultFiles
  /\ \A f \in Results :
       /\ Head(j.todo) = Write(f) => \E c \in disk'[f] : c.whole /\ c.run = j.run
       /\ Head(j.todo) \notin {Create(f), Write(f)} => disk'[f] = disk[f]

\* A stage that does no more than that keeps the invariant.
LEMMA ProceedInv ==
  ASSUME CommandInv, NEW j \in job, NEW changed, IsJob(changed), changed.run = j.run,
         changed.todo = j.todo, Proceed(j, changed), StageOn(j)
  PROVE  CommandInv'
<1>1. CASE job' = {}
  BY <1>1 DEF CommandInv, StageOn
<1>2. CASE job' # {}
  <2> DEFINE todo == j.todo
             rest == Tail(todo)
             next == [changed EXCEPT !.todo = Tail(@)]
  <2>1. job' = {next} /\ Len(todo) # 1
    BY <1>2 DEF Proceed
  <2>0. todo \in Seq(Stages) /\ todo # <<>> /\ InOrder(todo) /\ Accounted(j)
    BY DEF CommandInv, IsJob
  <2>2. /\ todo \in Seq(Stages) /\ todo # <<>> /\ InOrder(todo) /\ Accounted(j)
        /\ DOMAIN todo = 1 .. Len(todo) /\ Len(todo) \in Nat /\ Len(todo) > 1
    <3>1. Len(todo) \in Nat /\ Len(todo) # 0 /\ DOMAIN todo = 1 .. Len(todo)
      <4> HIDE DEF todo
      <4> QED BY <2>0
    <3> HIDE DEF todo
    <3> QED BY <2>0, <2>1, <3>1
  <2>3. /\ rest \in Seq(Stages) /\ rest # <<>> /\ DOMAIN rest = 1 .. Len(todo) - 1
        /\ \A i \in DOMAIN rest : i \in Nat /\ rest[i] = todo[i + 1] /\ i + 1 \in DOMAIN todo
        /\ \A k \in DOMAIN todo : k # 1 => k - 1 \in DOMAIN rest /\ rest[k - 1] = todo[k]
    <3> HIDE DEF todo
    <3> QED BY <2>2, TailParts
  <2>4. next = [changed EXCEPT !.todo = rest]
    OBVIOUS
  <2> HIDE DEF next, rest, todo
  <2>5. IsJob(next) /\ next.run = j.run /\ next.todo = rest
    BY <2>3, <2>4, JobTail
  <2>6. InOrder(rest)
    <3> SUFFICES ASSUME NEW f \in Results
                 PROVE  /\ \A i \in DOMAIN rest : rest[i] = Create(f) =>
                             \E k \in DOMAIN rest : i < k /\ rest[k] = Write(f)
                        /\ \A i, k \in DOMAIN rest : rest[i] = Export /\ rest[k] = Write(f) => k < i
      BY DEF InOrder
    <3>1. ASSUME NEW i \in DOMAIN rest, rest[i] = Create(f)
          PROVE  \E k \in DOMAIN rest : i < k /\ rest[k] = Write(f)
      <4>1. PICK k \in DOMAIN todo : i + 1 < k /\ todo[k] = Write(f)
        BY <2>2, <2>3, <3>1 DEF InOrder
      <4>2. k - 1 \in DOMAIN rest /\ rest[k - 1] = todo[k] /\ i < k - 1
        BY <2>2, <2>3, <4>1
      <4> QED BY <4>1, <4>2
    <3>2. ASSUME NEW i \in DOMAIN rest, NEW k \in DOMAIN rest, rest[i] = Export, rest[k] = Write(f)
          PROVE  k < i
      <4>1. k + 1 < i + 1
        BY <2>2, <2>3, <3>2 DEF InOrder
      <4> QED BY <2>3, <4>1
    <3> QED BY <3>1, <3>2
  <2>7. Accounted(next)'
    <3> SUFFICES ASSUME NEW f \in Results, NEW i \in DOMAIN rest, rest[i] = Export
                 PROVE  \/ \E k \in DOMAIN rest : rest[k] = Write(f)
                        \/ \E c \in disk'[f] : c.whole /\ c.run = j.run
      BY <2>5 DEF Accounted
    <3>1. todo[i + 1] = Export /\ i + 1 \in DOMAIN todo /\ 1 \in DOMAIN todo /\ Head(todo) = todo[1]
      BY <2>2, <2>3
    <3>2. CASE \E k \in DOMAIN todo : todo[k] = Write(f)
      <4>1. PICK k \in DOMAIN todo : todo[k] = Write(f)
        BY <3>2
      <4>2. CASE k = 1
        BY <3>1, <4>1, <4>2 DEF StageOn, todo
      <4>3. CASE k # 1
        BY <2>3, <4>1, <4>3
      <4> QED BY <4>2, <4>3
    <3>3. CASE ~\E k \in DOMAIN todo : todo[k] = Write(f)
      <4>1. \E c \in disk[f] : c.whole /\ c.run = j.run
        BY <2>2, <3>1, <3>3 DEF Accounted, todo
      <4>2. Head(todo) # Write(f)
        BY <3>1, <3>3
      <4>3. Head(todo) # Create(f)
        BY <2>2, <3>1, <3>3 DEF InOrder
      <4> QED BY <4>1, <4>2, <4>3 DEF StageOn, todo
    <3> QED BY <3>2, <3>3
  <2> QED BY <2>1, <2>5, <2>6, <2>7 DEF CommandInv, StageOn
<1> QED BY <1>1, <1>2

LEMMA HeadStage ==
  ASSUME NEW j, IsJob(j)
  PROVE  /\ Head(j.todo) \in Stages
         /\ \A f \in Results : /\ Head(j.todo) = Create(f) => Head(j.todo).do = "create"
                               /\ Head(j.todo) = Write(f) => Head(j.todo).do = "write"
<1>1. Head(j.todo) \in Stages
  BY DEF IsJob
<1> QED BY <1>1 DEF Create, Write

\* A stage that writes none of the results
LEMMA QuietStage ==
  ASSUME CommandInv, NEW j \in job, Head(j.todo).do \notin {"create", "write"},
         DOMAIN disk' = ResultFiles, \A f \in Results : disk'[f] = disk[f]
  PROVE  StageOn(j)
<1>1. IsJob(j)
  BY DEF CommandInv
<1> QED BY <1>1, HeadStage DEF StageOn

\* The step of a job that is neither a creation nor a write
Reads(j) ==
  \/ Checked(j) \/ Override(j) \/ Import(j) \/ RunBacktest(j) \/ ChooseSource(j)
  \/ RunForward(j) \/ ResultExists(j) \/ Python(j) \/ OutputExists(j)

LEMMA ReadsInv ==
  ASSUME CommandInv, NEW j \in job, Reads(j)
  PROVE  CommandInv' /\ disk'["q_state"] = disk["q_state"]
<1>1. IsJob(j) /\ DOMAIN disk = ResultFiles
  BY DEF CommandInv
<1>2. PICK changed : /\ IsJob(changed) /\ changed.run = j.run /\ changed.todo = j.todo
                     /\ Proceed(j, changed)
  BY <1>1, JobSet DEF Reads, Checked, Override, Import, RunBacktest, ChooseSource, RunForward,
                      ResultExists, Python, OutputExists
<1>3. Head(j.todo).do \notin {"create", "write"}
  BY DEF Reads, Checked, Override, Import, RunBacktest, ChooseSource, RunForward,
         ResultExists, Python, OutputExists, Doing
<1>4. /\ DOMAIN disk' = ResultFiles
      /\ \A f \in Results \cup {"q_state"} : disk'[f] = disk[f]
  <2>1. CASE disk' = disk
    BY <1>1, <2>1
  <2>2. CASE disk' # disk
    <3>1. disk' = [disk EXCEPT !["validation"] = {Content(j, TRUE)}]
      BY <2>2 DEF Reads, Checked, Override, Import, RunBacktest, ChooseSource, RunForward,
                  ResultExists, Python, OutputExists
    <3> QED BY <1>1, <3>1 DEF Results
  <2> QED BY <2>1, <2>2
<1>5. StageOn(j)
  BY <1>3, <1>4, QuietStage
<1> QED BY <1>2, <1>4, <1>5, ProceedInv

LEMMA CreateInv ==
  ASSUME CommandInv, NEW j \in job, CreateFile(j)
  PROVE  CommandInv' /\ \A s \in disk'["q_state"] : s.whole => s \in disk["q_state"]
<1>1. IsJob(j) /\ DOMAIN disk = ResultFiles /\ Head(j.todo) \in Stages
  BY HeadStage DEF CommandInv
<1> DEFINE target == Head(j.todo).file
<1>2. disk' = [disk EXCEPT ![target] = {Content(j, FALSE)}] /\ Proceed(j, j) /\ Head(j.todo).do = "create"
  BY DEF CreateFile, Doing
<1>3. \A f \in ResultFiles : disk'[f] = IF f = target THEN {Content(j, FALSE)} ELSE disk[f]
  BY <1>1, <1>2
<1>4. Content(j, FALSE).whole = FALSE
  BY DEF Content
<1>5. Head(j.todo) = Create(target)
  BY <1>1, <1>2 DEF Stages, Create
<1> HIDE DEF target
<1>6. \A f \in Results : f \in ResultFiles /\ Head(j.todo) # Write(f)
                         /\ (Head(j.todo) # Create(f) => f # target)
  BY <1>2, <1>5 DEF Results, ResultFiles, Create, Write
<1>7. StageOn(j)
  BY <1>1, <1>2, <1>3, <1>6 DEF StageOn
<1>8. CommandInv'
  BY <1>1, <1>2, <1>7, ProceedInv
<1> QED BY <1>3, <1>4, <1>8 DEF ResultFiles

\* A snapshot becomes whole when its job has its results on disk.
LEMMA WriteInv ==
  ASSUME CommandInv, NEW j \in job, WriteFile(j)
  PROVE  /\ CommandInv'
         /\ \A s \in disk'["q_state"] : s \notin disk["q_state"] =>
              \A f \in Results : \E c \in disk[f] : c.whole /\ c.run = s.run
<1>1. IsJob(j) /\ DOMAIN disk = ResultFiles /\ Head(j.todo) \in Stages
  BY HeadStage DEF CommandInv
<1> DEFINE target == Head(j.todo).file
<1>2. disk' = [disk EXCEPT ![target] = {Content(j, TRUE)}] /\ Proceed(j, j) /\ Head(j.todo).do = "write"
  BY DEF WriteFile, Doing
<1>3. \A f \in ResultFiles : disk'[f] = IF f = target THEN {Content(j, TRUE)} ELSE disk[f]
  BY <1>1, <1>2
<1>4. Content(j, TRUE).whole = TRUE /\ Content(j, TRUE).run = j.run
  BY DEF Content
<1>5. Head(j.todo) = Write(target)
  BY <1>1, <1>2 DEF Stages, Write
<1> HIDE DEF target
<1>6. \A f \in Results : f \in ResultFiles /\ Head(j.todo) # Create(f)
                         /\ (Head(j.todo) = Write(f) <=> f = target)
  BY <1>2, <1>5 DEF Results, ResultFiles, Create, Write
<1>7. StageOn(j)
  BY <1>1, <1>2, <1>3, <1>4, <1>6 DEF StageOn
<1>8. CommandInv'
  BY <1>1, <1>2, <1>7, ProceedInv
<1>9. ASSUME NEW s \in disk'["q_state"], s \notin disk["q_state"], NEW f \in Results
      PROVE  \E c \in disk[f] : c.whole /\ c.run = s.run
  <2>1. target = "q_state" /\ s = Content(j, TRUE)
    BY <1>3, <1>9 DEF ResultFiles
  <2>2. 1 \in DOMAIN j.todo /\ j.todo[1] = Export /\ \A k \in DOMAIN j.todo : ~(k < 1)
    BY <1>1, <1>5, <2>1 DEF Export, IsJob
  <2>3. InOrder(j.todo) /\ Accounted(j)
    BY DEF CommandInv
  <2>4. ~\E k \in DOMAIN j.todo : j.todo[k] = Write(f)
    BY <2>2, <2>3 DEF InOrder
  <2> QED BY <1>4, <2>1, <2>2, <2>3, <2>4 DEF Accounted
<1> QED BY <1>8, <1>9

\* What a step may add to the snapshots
Follows ==
  \A s \in disk'["q_state"] : s.whole /\ s \notin disk["q_state"]
       => \A f \in {"json", "trades"} : \E c \in disk[f] : c.whole /\ c.run = s.run

LEMMA CommandStep == CommandInv /\ [CommandNext]_commandVars => CommandInv' /\ [Follows]_commandVars
<1> SUFFICES ASSUME CommandInv, [CommandNext]_commandVars PROVE CommandInv' /\ Follows
  OBVIOUS
<1>1. ASSUME NEW request \in Requests, Give(request)
      PROVE  CommandInv' /\ Follows
  BY <1>1, GiveInv DEF Give, Follows
<1>2. CASE Stopped
  BY <1>2 DEF Stopped, CommandInv, Follows
<1>3. ASSUME NEW j \in job, Reads(j)
      PROVE  CommandInv' /\ Follows
  BY <1>3, ReadsInv DEF Follows
<1>4. ASSUME NEW j \in job, CreateFile(j)
      PROVE  CommandInv' /\ Follows
  BY <1>4, CreateInv DEF Follows
<1>5. ASSUME NEW j \in job, WriteFile(j)
      PROVE  CommandInv' /\ Follows
  BY <1>5, WriteInv DEF Follows, Results
<1>6. CASE UNCHANGED commandVars
  BY <1>6 DEF commandVars, CommandInv, Accounted, Follows
<1> QED BY <1>1, <1>2, <1>3, <1>4, <1>5, <1>6 DEF CommandNext, Reads

-----------------------------------------------------------------------------
(* The models of the market: the history of an LP *)

IsTaken(f, q, T, n) ==
  f = [k \in 0 .. n |-> IF k = 0 THEN <<>> ELSE IF k \in T THEN Append(f[k - 1], q[k]) ELSE f[k - 1]]

LEMMA TakenExists ==
  ASSUME NEW q, NEW T
  PROVE  \A n \in Nat : \E f : IsTaken(f, q, T, n)
<1> DEFINE S == {n \in Int : \E f : IsTaken(f, q, T, n)}
           More(f, k) == IF k \in T THEN Append(f[k - 1], q[k]) ELSE f[k - 1]
<1>1. 0 \in S
  <2> DEFINE f == [k \in 0 .. 0 |-> <<>>]
  <2>1. IsTaken(f, q, T, 0)
    BY DEF IsTaken
  <2> QED BY <2>1
<1>2. ASSUME NEW n \in Nat, n \in S
      PROVE  n + 1 \in S
  <2>1. PICK f : IsTaken(f, q, T, n)
    BY <1>2
  <2> DEFINE g == [k \in 0 .. n + 1 |-> IF k <= n THEN f[k] ELSE More(f, k)]
  <2>2. ASSUME NEW k \in 0 .. n + 1
        PROVE  g[k] = IF k = 0 THEN <<>> ELSE More(g, k)
    <3>1. CASE k = 0
      BY <2>1, <3>1 DEF IsTaken
    <3>2. CASE k # 0
      <4>1. k - 1 \in 0 .. n + 1 /\ k - 1 <= n
        BY <3>2
      <4>2. g[k - 1] = f[k - 1]
        BY <4>1
      <4>3. g[k] = More(f, k)
        <5>1. CASE k <= n
          <6>1. k \in 0 .. n
            BY <5>1
          <6>2. f[k] = More(f, k)
            BY <2>1, <6>1, <3>2 DEF IsTaken
          <6>3. g[k] = f[k]
            BY <5>1
          <6> QED BY <6>2, <6>3
        <5>2. CASE k = n + 1
          BY <5>2
        <5> QED BY <5>1, <5>2
      <4>4. More(g, k) = More(f, k)
        <5> HIDE DEF g
        <5> QED BY <4>2
      <4> QED BY <4>3, <4>4, <3>2
    <3> QED BY <3>1, <3>2
  <2>3. g = [k \in 0 .. n + 1 |-> IF k = 0 THEN <<>> ELSE More(g, k)]
    <3>1. g = [k \in 0 .. n + 1 |-> g[k]]
      OBVIOUS
    <3> HIDE DEF g, More
    <3> QED BY <2>2, <3>1
  <2>4. IsTaken(g, q, T, n + 1)
    BY <2>3 DEF IsTaken
  <2> HIDE DEF g
  <2> QED BY <2>4
<1>3. ASSUME NEW n \in Nat
      PROVE  \E f : IsTaken(f, q, T, n)
  <2>1. \A k \in 0 .. n - 1 : k \in S => k + 1 \in S
    <3> HIDE DEF S
    <3> QED BY <1>2
  <2>2. 0 .. n \subseteq S
    <3> HIDE DEF S
    <3> QED BY <1>1, <2>1, IntervalInduction
  <2>3. n \in S
    BY <2>2
  <2> QED BY <2>3
<1> QED BY <1>3

LEMMA TakenIs ==
  ASSUME NEW q, NEW T, Len(q) \in Nat
  PROVE  \E f : /\ Taken(q, T) = f[Len(q)] /\ f[0] = <<>>
                /\ \A k \in 1 .. Len(q) :
                     f[k] = IF k \in T THEN Append(f[k - 1], q[k]) ELSE f[k - 1]
<1> DEFINE f == CHOOSE g : IsTaken(g, q, T, Len(q))
<1>1. IsTaken(f, q, T, Len(q))
  BY TakenExists
<1>2. Taken(q, T) = f[Len(q)]
  BY DEF Taken, IsTaken
<1> HIDE DEF f
<1> DEFINE Grown(k) == IF k \in T THEN Append(f[k - 1], q[k]) ELSE f[k - 1]
<1>3. f = [k \in 0 .. Len(q) |-> IF k = 0 THEN <<>> ELSE Grown(k)]
  BY <1>1 DEF IsTaken
<1>4. f[0] = <<>> /\ \A k \in 1 .. Len(q) : f[k] = Grown(k)
  <2> HIDE DEF Grown
  <2>1. 0 \in 0 .. Len(q) /\ \A k \in 1 .. Len(q) : k \in 0 .. Len(q) /\ k # 0
    OBVIOUS
  <2> QED BY <1>3, <2>1
<1> QED BY <1>2, <1>4

\* What is taken of a sequence is a sequence of its members.
LEMMA TakenTypes ==
  ASSUME NEW q, NEW T, NEW S, Len(q) \in Nat, \A k \in 1 .. Len(q) : k \in T => q[k] \in S
  PROVE  Taken(q, T) \in Seq(S)
<1>1. PICK f : /\ Taken(q, T) = f[Len(q)] /\ f[0] = <<>>
               /\ \A k \in 1 .. Len(q) :
                    f[k] = IF k \in T THEN Append(f[k - 1], q[k]) ELSE f[k - 1]
  BY TakenIs
<1> DEFINE I == {k \in 0 .. Len(q) : f[k] \in Seq(S)}
<1>2. 0 \in I
  <2>1. <<>> \in Seq(S) /\ 0 \in 0 .. Len(q)
    OBVIOUS
  <2> QED BY <1>1, <2>1
<1>3. ASSUME NEW k \in 0 .. Len(q) - 1, k \in I
      PROVE  k + 1 \in I
  <2>1. k + 1 \in 1 .. Len(q) /\ (k + 1) - 1 = k /\ k + 1 \in 0 .. Len(q)
    OBVIOUS
  <2>2. f[k + 1] = IF k + 1 \in T THEN Append(f[k], q[k + 1]) ELSE f[k]
    BY <1>1, <2>1
  <2>3. f[k] \in Seq(S) /\ (k + 1 \in T => q[k + 1] \in S)
    BY <1>3, <2>1
  <2>4. f[k + 1] \in Seq(S)
    BY <2>2, <2>3
  <2> QED BY <2>1, <2>4
<1>4. Len(q) \in I
  <2>1. 0 \in Int /\ Len(q) \in Int
    OBVIOUS
  <2>2. \A k \in 0 .. Len(q) - 1 : k \in I => k + 1 \in I
    BY <1>3
  <2>3. 0 .. Len(q) \subseteq I
    <3> HIDE DEF I
    <3> QED BY <1>2, <2>1, <2>2, IntervalInduction
  <2> HIDE DEF I
  <2> QED BY <2>3
<1> QED BY <1>1, <1>4

\* One more member of a sequence is taken last, or not at all.
LEMMA TakenMore ==
  ASSUME NEW q, NEW r, NEW T, NEW U, Len(q) \in Nat, Len(r) = Len(q) + 1,
         \A k \in 1 .. Len(q) : r[k] = q[k] /\ (k \in U <=> k \in T)
  PROVE  Taken(r, U) = IF Len(r) \in U THEN Append(Taken(q, T), r[Len(r)]) ELSE Taken(q, T)
<1>1. PICK f : /\ Taken(q, T) = f[Len(q)] /\ f[0] = <<>>
               /\ \A k \in 1 .. Len(q) :
                    f[k] = IF k \in T THEN Append(f[k - 1], q[k]) ELSE f[k - 1]
  BY TakenIs
<1>2. PICK g : /\ Taken(r, U) = g[Len(r)] /\ g[0] = <<>>
               /\ \A k \in 1 .. Len(r) :
                    g[k] = IF k \in U THEN Append(g[k - 1], r[k]) ELSE g[k - 1]
  BY TakenIs
<1> DEFINE I == {k \in 0 .. Len(q) : g[k] = f[k]}
<1>3. 0 \in I
  BY <1>1, <1>2
<1>4. ASSUME NEW k \in 0 .. Len(q) - 1, k \in I
      PROVE  k + 1 \in I
  <2>1. /\ k + 1 \in 1 .. Len(q) /\ (k + 1) - 1 = k /\ k + 1 \in 0 .. Len(q)
        /\ k + 1 \in 1 .. Len(r)
    OBVIOUS
  <2>2. f[k + 1] = IF k + 1 \in T THEN Append(f[k], q[k + 1]) ELSE f[k]
    BY <1>1, <2>1
  <2>3. g[k + 1] = IF k + 1 \in U THEN Append(g[k], r[k + 1]) ELSE g[k]
    BY <1>2, <2>1
  <2>4. g[k] = f[k] /\ r[k + 1] = q[k + 1] /\ (k + 1 \in U <=> k + 1 \in T)
    BY <1>4, <2>1
  <2> QED BY <2>1, <2>2, <2>3, <2>4
<1>5. Len(q) \in I
  <2>1. 0 \in Int /\ Len(q) \in Int
    OBVIOUS
  <2>2. \A k \in 0 .. Len(q) - 1 : k \in I => k + 1 \in I
    BY <1>4
  <2>3. 0 .. Len(q) \subseteq I
    <3> HIDE DEF I
    <3> QED BY <1>3, <2>1, <2>2, IntervalInduction
  <2> HIDE DEF I
  <2> QED BY <2>3
<1>6. g[Len(q)] = f[Len(q)]
  BY <1>5
<1>7. Len(r) \in 1 .. Len(r) /\ Len(r) - 1 = Len(q)
  OBVIOUS
<1> QED BY <1>1, <1>2, <1>6, <1>7

\* The mean and the variance of an LP are those of numbers.
SquaresOf(q) == [k \in 1 .. Len(q) |-> q[k] ** q[k]]

MomentsOf(stats, q) ==
  /\ stats.mean ** Whole(Len(q)) = SumFrac(q)
  /\ stats.variance ** Whole(Len(q)) = SumFrac(SquaresOf(q)) -- (stats.mean ** SumFrac(q))

Slips == [mean : Lowest, variance : Lowest, count : Nat]

LEMMA ObservedMoments ==
  ASSUME NEW stats \in Slips, NEW q \in Seq(Lowest), NEW x \in Lowest,
         stats.count = Len(q), MomentsOf(stats, q)
  PROVE  /\ Observed(stats, x) \in Slips /\ Observed(stats, x).count = Len(Append(q, x))
         /\ MomentsOf(Observed(stats, x), Append(q, x))
<1> DEFINE r == Append(q, x)
<1>1. PICK n \in Nat : n = Len(q) /\ stats.count = n
  OBVIOUS
<1>2. Len(r) = n + 1 /\ r[n + 1] = x /\ \A k \in 1 .. n : r[k] = q[k]
  BY <1>1
<1>3. PICK m, v : m = stats.mean /\ v = stats.variance /\ Reduced(m) /\ Reduced(v) /\ Reduced(x)
  BY LowestIs DEF Slips
<1>4. PICK p : p = m ++ ((x -- m) // Whole(n + 1))
  OBVIOUS
<1>5. Reduced(p) /\ p ** Whole(n + 1) = (m ** Whole(n)) ++ x
  BY <1>3, <1>4, RunningMean
<1>6. PICK y : y = (x -- m) ** (x -- p) /\ Reduced(y)
  BY <1>3, <1>5, Reduces, ReducedIs
<1>7. PICK w : w = v ++ ((y -- v) // Whole(n + 1))
  OBVIOUS
<1>8. Reduced(w) /\ w ** Whole(n + 1) = (v ** Whole(n)) ++ y
  BY <1>3, <1>6, <1>7, RunningMean
<1>9. Observed(stats, x) = [mean |-> p, variance |-> w, count |-> n + 1]
  BY <1>1, <1>3, <1>4, <1>6, <1>7 DEF Observed
<1>10. SumFrac(r) = SumFrac(q) ++ x
  <2>1. SumFrac(r) = SumFrac(q) ++ r[Len(r)]
    <3> HIDE DEF r
    <3> QED BY <1>1, <1>2, SumMore
  <2> QED BY <1>2, <2>1
<1>11. SumFrac(SquaresOf(r)) = SumFrac(SquaresOf(q)) ++ (x ** x)
  <2> HIDE DEF r
  <2>1. Len(SquaresOf(q)) = n /\ \A k \in 1 .. n : SquaresOf(q)[k] = q[k] ** q[k]
    BY <1>1 DEF SquaresOf
  <2>2. /\ Len(SquaresOf(r)) = n + 1 /\ \A k \in 1 .. n : SquaresOf(r)[k] = r[k] ** r[k]
        /\ SquaresOf(r)[n + 1] = x ** x
    BY <1>2 DEF SquaresOf
  <2>3. \A k \in 1 .. Len(SquaresOf(q)) : SquaresOf(r)[k] = SquaresOf(q)[k]
    BY <1>2, <2>1, <2>2
  <2>4. SumFrac(SquaresOf(r)) = SumFrac(SquaresOf(q)) ++ SquaresOf(r)[Len(SquaresOf(r))]
    BY <2>1, <2>2, <2>3, SumMore
  <2> QED BY <2>2, <2>4
<1>12. PICK a : a = SumFrac(SquaresOf(q)) /\ Reduced(a)
  <2>1. Len(SquaresOf(q)) = n /\ \A k \in 1 .. n : SquaresOf(q)[k] = q[k] ** q[k]
    BY <1>1 DEF SquaresOf
  <2>2. ASSUME NEW k \in 1 .. n PROVE Reduced(q[k] ** q[k])
    <3>1. q[k] \in Lowest
      BY <1>1
    <3> QED BY <3>1, LowestIs, Reduces, ReducedIs
  <2>3. Reduced(SumFrac(SquaresOf(q)))
    BY <2>1, <2>2, SumReduced
  <2> QED BY <2>3
<1>13. SumFrac(q) = m ** Whole(n) /\ v ** Whole(n) = a -- (m ** (m ** Whole(n)))
  <2>1. stats.mean ** Whole(Len(q)) = SumFrac(q)
    BY DEF MomentsOf
  <2>2. stats.variance ** Whole(Len(q)) = SumFrac(SquaresOf(q)) -- (stats.mean ** SumFrac(q))
    BY DEF MomentsOf
  <2> QED BY <1>1, <1>3, <1>12, <2>1, <2>2
<1>14. w ** Whole(n + 1) = (a ++ (x ** x)) -- (p ** ((m ** Whole(n)) ++ x))
  BY <1>3, <1>5, <1>6, <1>8, <1>12, <1>13, TwoDistances
<1>15. p \in Lowest /\ w \in Lowest /\ n + 1 \in Nat
  BY <1>5, <1>8, LowestIs
<1>16. Observed(stats, x) \in Slips /\ Observed(stats, x).count = Len(r)
  BY <1>2, <1>9, <1>15 DEF Slips
<1>17. MomentsOf(Observed(stats, x), r)
  <2> HIDE DEF r
  <2>1. Observed(stats, x).mean = p /\ Observed(stats, x).variance = w
    BY <1>9
  <2>2. p ** Whole(Len(r)) = SumFrac(r)
    BY <1>2, <1>5, <1>10, <1>13
  <2>3. w ** Whole(Len(r)) = SumFrac(SquaresOf(r)) -- (p ** SumFrac(r))
    BY <1>2, <1>10, <1>11, <1>12, <1>13, <1>14
  <2> QED BY <2>1, <2>2, <2>3 DEF MomentsOf
<1> QED BY <1>16, <1>17

LEMMA WholePlusOne ==
  ASSUME NEW a, Reduced(a), NEW n \in Nat
  PROVE  (a ++ Whole(n)) ++ One = a ++ Whole(n + 1)
<1>1. Whole(n) ++ One = Whole(n + 1)
  <2>1. Whole(n) = Frac(n, 1) /\ One = Frac(1, 1) /\ Whole(n + 1) = Frac(n + 1, 1)
    BY WholeIs DEF One
  <2>2. Frac(n, 1) ++ Frac(1, 1) = Frac(n + 1, 1)
    BY SameAdds
  <2> QED BY <2>1, <2>2
<1>2. (a ++ Whole(n)) ++ One = a ++ (Whole(n) ++ One)
  BY WholeReduced, PlusAssociates
<1> QED BY <1>1, <1>2

-----------------------------------------------------------------------------
(* The models of the market: their invariant *)

LookCounts == [alpha : Lowest, beta : Lowest]

HistoryMatched(lp) ==
  /\ market.look[lp].alpha = PriorAlpha ++ Whole(Len(SlippagesOf(lp)))
  /\ market.look[lp].beta = PriorBeta ++ Whole(Cardinality(OrdersOf(lp) \ FillsOf(lp)))
  /\ market.slip[lp].count = Len(SlippagesOf(lp))
  /\ MomentsOf(market.slip[lp], SlippagesOf(lp))

\* The variance is kept against the squares of the slippages themselves: their distances from
\* the mean are all others after a fill.
ExecutionInv ==
  /\ market \in [look : [Providers -> LookCounts], slip : [Providers -> Slips]]
  /\ \E S : executions \in Seq(S)
  /\ \A i \in 1 .. Len(executions) :
       executions[i].result.filled => executions[i].result.slippage \in Lowest
  /\ \A lp \in Providers : HistoryMatched(lp)

LEMMA SlippagesTyped ==
  ASSUME ExecutionInv, NEW lp
  PROVE  Len(executions) \in Nat /\ SlippagesOf(lp) \in Seq(Lowest)
<1>1. Len(executions) \in Nat /\ DOMAIN executions = 1 .. Len(executions)
  BY DEF ExecutionInv
<1> DEFINE q == [i \in 1 .. Len(executions) |-> executions[i].result.slippage]
<1>2. Len(q) = Len(executions)
  BY <1>1
<1>3. \A i \in 1 .. Len(q) : i \in FillsOf(lp) => q[i] \in Lowest
  BY <1>1, <1>2 DEF ExecutionInv, FillsOf, OrdersOf
<1>4. Taken(q, FillsOf(lp)) \in Seq(Lowest)
  <2> HIDE DEF q
  <2> QED BY <1>1, <1>2, <1>3, TakenTypes
<1> QED BY <1>1, <1>4 DEF SlippagesOf

LEMMA ExecutionInitInv ==
  ASSUME Reduced(PriorAlpha), Reduced(PriorBeta)
  PROVE  ExecutionInit => ExecutionInv
<1> SUFFICES ASSUME ExecutionInit PROVE ExecutionInv
  OBVIOUS
<1>1. executions = <<>> /\ Len(executions) = 0 /\ executions \in Seq({})
  BY DEF ExecutionInit
<1>2. PriorAlpha \in Lowest /\ PriorBeta \in Lowest /\ Zero \in Lowest
  BY LowestIs, WholeReduced
<1>3. Prior \in LookCounts /\ NoSlippage \in Slips
  BY <1>2 DEF Prior, LookCounts, NoSlippage, Slips
<1>4. market \in [look : [Providers -> LookCounts], slip : [Providers -> Slips]]
  BY <1>3 DEF ExecutionInit, NewModels
<1>5. ASSUME NEW lp \in Providers
      PROVE  HistoryMatched(lp)
  <2>1. market.look[lp] = Prior /\ market.slip[lp] = NoSlippage
    BY DEF ExecutionInit, NewModels
  <2>2. OrdersOf(lp) = {} /\ OrdersOf(lp) \ FillsOf(lp) = {}
    BY <1>1 DEF OrdersOf, FillsOf
  <2>3. Cardinality(OrdersOf(lp) \ FillsOf(lp)) = 0
    BY <2>2, FS_EmptySet
  <2>4. SlippagesOf(lp) = <<>>
    <3> DEFINE q == [i \in 1 .. Len(executions) |-> executions[i].result.slippage]
    <3>1. Len(q) = 0
      BY <1>1
    <3>2. Taken(q, FillsOf(lp)) = <<>>
      <4> HIDE DEF q
      <4> QED BY <3>1, TakenIs
    <3> QED BY <3>2 DEF SlippagesOf
  <2>5. Len(<<>>) = 0 /\ Whole(0) = Zero
    BY DEF Zero
  <2>6. PriorAlpha ++ Zero = PriorAlpha /\ PriorBeta ++ Zero = PriorBeta
    BY PlusZero
  <2>7. MomentsOf(NoSlippage, <<>>)
    <3>1. SumFrac(<<>>) = Zero
      BY SumOne
    <3>2. SquaresOf(<<>>) = <<>>
      BY DEF SquaresOf
    <3>3. Zero ** Zero = Zero /\ Zero -- Zero = Zero
      BY TimesOne, PlusZero, WholeReduced
    <3> QED BY <2>5, <3>1, <3>2, <3>3 DEF MomentsOf, NoSlippage
  <2>8. Prior.alpha = PriorAlpha /\ Prior.beta = PriorBeta /\ NoSlippage.count = 0
    BY DEF Prior, NoSlippage
  <2> QED BY <2>1, <2>3, <2>4, <2>5, <2>6, <2>7, <2>8 DEF HistoryMatched
<1> QED BY <1>1, <1>4, <1>5 DEF ExecutionInv

\* An order goes to one LP, whose model is told what came of it.
LEMMA SimulationSets ==
  ASSUME NEW request, NEW lp \in Providers, SimulateExecution(request, lp)
  PROVE  \E filled \in BOOLEAN, slippage \in Slippages : \E result :
           /\ market' = Processed(market, lp, filled, slippage)
           /\ executions' = Append(executions, [lp |-> lp, result |-> result])
           /\ result.filled = filled /\ (filled => result.slippage = slippage)
<1>1. PICK eval \in Evaluation(market, request, lp) :
        \E hidden \in HiddenDraws, slippage \in Slippages, lookedAt \in Draws(eval.look) :
          \E filled \in Draws(EffectiveFill(eval.type, eval.distance, eval.look, hidden)) :
            LET result == Outcome(eval, request, filled, lookedAt, slippage)
            IN /\ market' = Processed(market, lp, filled, slippage)
               /\ executions' = Append(executions, [lp |-> lp, result |-> result])
  BY DEF SimulateExecution
<1>2. PICK hidden \in HiddenDraws, slippage \in Slippages, lookedAt \in Draws(eval.look) :
        \E filled \in Draws(EffectiveFill(eval.type, eval.distance, eval.look, hidden)) :
          LET result == Outcome(eval, request, filled, lookedAt, slippage)
          IN /\ market' = Processed(market, lp, filled, slippage)
             /\ executions' = Append(executions, [lp |-> lp, result |-> result])
  BY <1>1
<1>3. PICK filled \in Draws(EffectiveFill(eval.type, eval.distance, eval.look, hidden)) :
        LET result == Outcome(eval, request, filled, lookedAt, slippage)
        IN /\ market' = Processed(market, lp, filled, slippage)
           /\ executions' = Append(executions, [lp |-> lp, result |-> result])
  BY <1>2
<1>4. filled \in BOOLEAN
  BY DEF Draws
<1>5. PICK result : result = Outcome(eval, request, filled, lookedAt, slippage)
  OBVIOUS
<1>6. result.filled = filled /\ (filled => result.slippage = slippage)
  BY <1>5 DEF Outcome
<1> QED BY <1>3, <1>4, <1>5, <1>6

LEMMA ExecutionStep ==
  ASSUME Reduced(PriorAlpha), Reduced(PriorBeta), \A s \in Slippages : Reduced(s)
  PROVE  ExecutionInv /\ [ExecutionNext]_executionVars => ExecutionInv'
<1> SUFFICES ASSUME ExecutionInv, [ExecutionNext]_executionVars PROVE ExecutionInv'
  OBVIOUS
<1>1. CASE UNCHANGED executionVars
  BY <1>1 DEF executionVars, ExecutionInv, HistoryMatched, SlippagesOf, OrdersOf, FillsOf
<1>2. CASE ExecutionNext
  <2>1. PICK request \in OrderRequests, lp \in Providers : SimulateExecution(request, lp)
    BY <1>2 DEF ExecutionNext
  <2>a. PICK filled \in BOOLEAN, slippage \in Slippages :
           \E result :
             /\ market' = Processed(market, lp, filled, slippage)
             /\ executions' = Append(executions, [lp |-> lp, result |-> result])
             /\ result.filled = filled /\ (filled => result.slippage = slippage)
    BY <2>1, SimulationSets
  <2>2. PICK result :
           /\ market' = Processed(market, lp, filled, slippage)
           /\ executions' = Append(executions, [lp |-> lp, result |-> result])
           /\ result.filled = filled /\ (filled => result.slippage = slippage)
    BY <2>a
  <2>3. slippage \in Lowest
    BY LowestIs
  <2>b. PICK S : executions \in Seq(S)
    BY DEF ExecutionInv
  <2>4. PICK n \in Nat : executions \in Seq(S) /\ n = Len(executions)
    BY <2>b
  <2>5. executions' \in Seq(S \cup {[lp |-> lp, result |-> result]})
    BY <2>2, <2>4
  <2>6. /\ Len(executions') = n + 1 /\ DOMAIN executions = 1 .. n /\ DOMAIN executions' = 1 .. n + 1
        /\ executions'[n + 1].lp = lp /\ executions'[n + 1].result = result
        /\ \A i \in 1 .. n : executions'[i] = executions[i]
    BY <2>2, <2>4
  <2>7. \A i \in 1 .. n : executions[i].result.filled => executions[i].result.slippage \in Lowest
    BY <2>4 DEF ExecutionInv
  <2>8. \A i \in 1 .. Len(executions') :
          executions'[i].result.filled => executions'[i].result.slippage \in Lowest
    <3> SUFFICES ASSUME NEW i \in 1 .. n + 1, executions'[i].result.filled
                 PROVE  executions'[i].result.slippage \in Lowest
      BY <2>6
    <3>1. CASE i \in 1 .. n
      BY <3>1, <2>6, <2>7
    <3>2. CASE i = n + 1
      BY <3>2, <2>2, <2>3, <2>6
    <3> QED BY <3>1, <3>2
  <2>9. market \in [look : [Providers -> LookCounts], slip : [Providers -> Slips]]
    BY DEF ExecutionInv
  <2>10. PICK look \in [Providers -> LookCounts], slip \in [Providers -> Slips] :
           market.look = look /\ market.slip = slip
    BY <2>9
  <2>11. market'.look = [look EXCEPT ![lp] = UpdatedLook(@, filled)]
    BY <2>2, <2>10 DEF Processed
  <2>12. market'.slip = IF filled THEN [slip EXCEPT ![lp] = Observed(@, slippage)] ELSE slip
    BY <2>2, <2>10 DEF Processed
  <2>13. market' = [look |-> market'.look, slip |-> market'.slip]
    BY <2>2 DEF Processed
  <2>14. UpdatedLook(look[lp], filled) \in LookCounts
    <3>1. look[lp] \in LookCounts
      BY <2>10
    <3>2. look[lp].alpha ++ One \in Lowest /\ look[lp].beta ++ One \in Lowest
      BY <3>1, LowestIs, Reduces, ReducedIs, WholeReduced DEF LookCounts
    <3> QED BY <3>1, <3>2 DEF UpdatedLook, LookCounts
  <2>15. \A p \in Providers : HistoryMatched(p) /\ SlippagesOf(p) \in Seq(Lowest)
    BY SlippagesTyped DEF ExecutionInv
  <2>16. slip[lp] \in Slips /\ Observed(slip[lp], slippage) \in Slips
    <3>1. /\ slip[lp] \in Slips /\ SlippagesOf(lp) \in Seq(Lowest)
          /\ slip[lp].count = Len(SlippagesOf(lp)) /\ MomentsOf(slip[lp], SlippagesOf(lp))
      BY <2>10, <2>15 DEF HistoryMatched
    <3> QED BY <2>3, <3>1, ObservedMoments
  <2>17. market' \in [look : [Providers -> LookCounts], slip : [Providers -> Slips]]
    <3>1. market'.look \in [Providers -> LookCounts]
      BY <2>11, <2>14
    <3>2. market'.slip \in [Providers -> Slips]
      BY <2>12, <2>16
    <3> QED BY <2>13, <3>1, <3>2
  <2>18. ASSUME NEW p \in Providers
         PROVE  /\ OrdersOf(p)' = OrdersOf(p) \cup (IF p = lp THEN {n + 1} ELSE {})
                /\ FillsOf(p)' = FillsOf(p) \cup (IF p = lp /\ filled THEN {n + 1} ELSE {})
                /\ OrdersOf(p) \subseteq 1 .. n /\ FillsOf(p) \subseteq OrdersOf(p)
    <3>1. 1 .. n + 1 = 1 .. n \cup {n + 1} /\ n + 1 \notin 1 .. n
      OBVIOUS
    <3>2. OrdersOf(p)' = OrdersOf(p) \cup (IF p = lp THEN {n + 1} ELSE {})
      BY <2>6, <3>1 DEF OrdersOf
    <3>3. OrdersOf(p) \subseteq 1 .. n /\ FillsOf(p) \subseteq OrdersOf(p)
      BY <2>6 DEF OrdersOf, FillsOf
    <3>4. FillsOf(p)' = {i \in OrdersOf(p)' : executions'[i].result.filled}
      BY DEF FillsOf
    <3>5. FillsOf(p) = {i \in OrdersOf(p) : executions[i].result.filled}
      BY DEF FillsOf
    <3>6. \A i \in OrdersOf(p) : executions'[i].result.filled <=> executions[i].result.filled
      BY <2>6, <3>3
    <3>7. executions'[n + 1].result.filled = filled
      BY <2>2, <2>6
    <3>8. FillsOf(p)' = FillsOf(p) \cup (IF p = lp /\ filled THEN {n + 1} ELSE {})
      BY <3>2, <3>4, <3>5, <3>6, <3>7
    <3> QED BY <3>2, <3>3, <3>8
  <2>19. ASSUME NEW p \in Providers
         PROVE  SlippagesOf(p)' = IF p = lp /\ filled THEN Append(SlippagesOf(p), slippage)
                                  ELSE SlippagesOf(p)
    <3>1. PICK q : q = [i \in 1 .. n |-> executions[i].result.slippage]
      OBVIOUS
    <3>2. PICK r : r = [i \in 1 .. n + 1 |-> executions'[i].result.slippage]
      OBVIOUS
    <3>3. SlippagesOf(p) = Taken(q, FillsOf(p)) /\ SlippagesOf(p)' = Taken(r, FillsOf(p)')
      BY <2>4, <2>6, <3>1, <3>2 DEF SlippagesOf
    <3>4. Len(q) = n /\ Len(r) = n + 1 /\ r[n + 1] = result.slippage
      BY <2>6, <3>1, <3>2
    <3>5. \A k \in 1 .. n : r[k] = q[k]
      BY <2>6, <3>1, <3>2
    <3>6. \A k \in 1 .. n : k \in FillsOf(p)' <=> k \in FillsOf(p)
      BY <2>18
    <3>7. n + 1 \in FillsOf(p)' <=> p = lp /\ filled
      BY <2>18
    <3>8. Taken(r, FillsOf(p)') = IF n + 1 \in FillsOf(p)' THEN Append(Taken(q, FillsOf(p)), r[n + 1])
                                  ELSE Taken(q, FillsOf(p))
      BY <3>4, <3>5, <3>6, TakenMore
    <3> QED BY <2>2, <3>3, <3>4, <3>7, <3>8
  <2>20. ASSUME NEW p \in Providers
         PROVE  HistoryMatched(p)'
    <3>1. PICK q : q = SlippagesOf(p) /\ q \in Seq(Lowest)
      BY <2>15
    <3>2. PICK refused : refused = OrdersOf(p) \ FillsOf(p) /\ IsFiniteSet(refused)
      <4>1. IsFiniteSet(1 .. n)
        BY FS_Interval
      <4>2. OrdersOf(p) \ FillsOf(p) \subseteq 1 .. n
        BY <2>18
      <4> QED BY <4>1, <4>2, FS_Subset
    <3>3. /\ look[p].alpha = PriorAlpha ++ Whole(Len(q))
          /\ look[p].beta = PriorBeta ++ Whole(Cardinality(refused))
          /\ slip[p].count = Len(q) /\ MomentsOf(slip[p], q)
      BY <2>10, <2>15, <3>1, <3>2 DEF HistoryMatched
    <3> DEFINE Goal(l, s, sl, re) ==
          /\ l.alpha = PriorAlpha ++ Whole(Len(sl))
          /\ l.beta = PriorBeta ++ Whole(Cardinality(re))
          /\ s.count = Len(sl) /\ MomentsOf(s, sl)
    <3>4. HistoryMatched(p)'
            <=> Goal(market'.look[p], market'.slip[p], SlippagesOf(p)', (OrdersOf(p) \ FillsOf(p))')
      BY DEF HistoryMatched, MomentsOf, SquaresOf
    <3>5. ASSUME p # lp
          PROVE  HistoryMatched(p)'
      <4>1. market'.look[p] = look[p] /\ market'.slip[p] = slip[p]
        BY <3>5, <2>10, <2>11, <2>12
      <4>2. SlippagesOf(p)' = q /\ (OrdersOf(p) \ FillsOf(p))' = refused
        BY <3>5, <2>18, <2>19, <3>1, <3>2
      <4> QED BY <3>3, <3>4, <4>1, <4>2
    <3>6. ASSUME p = lp, filled
          PROVE  HistoryMatched(p)'
      <4>1. market'.look[p] = UpdatedLook(look[p], TRUE) /\ market'.slip[p] = Observed(slip[p], slippage)
        BY <3>6, <2>10, <2>11, <2>12
      <4>2. SlippagesOf(p)' = Append(q, slippage)
        BY <3>6, <2>19, <3>1
      <4>3. (OrdersOf(p) \ FillsOf(p))' = refused
        BY <3>6, <2>18, <3>2
      <4>4. /\ look[p] \in LookCounts /\ UpdatedLook(look[p], TRUE).alpha = look[p].alpha ++ One
            /\ UpdatedLook(look[p], TRUE).beta = look[p].beta
        BY <2>10 DEF UpdatedLook, LookCounts
      <4>5. look[p].alpha ++ One = PriorAlpha ++ Whole(Len(q) + 1)
        BY <3>1, <3>3, WholePlusOne
      <4>6. Len(Append(q, slippage)) = Len(q) + 1
        BY <3>1
      <4>7. /\ Observed(slip[p], slippage).count = Len(Append(q, slippage))
            /\ MomentsOf(Observed(slip[p], slippage), Append(q, slippage))
        <5>1. slip[p] \in Slips
          BY <2>10
        <5> QED BY <5>1, <2>3, <3>1, <3>3, ObservedMoments
      <4> QED BY <3>3, <3>4, <4>1, <4>2, <4>3, <4>4, <4>5, <4>6, <4>7
    <3>7. ASSUME p = lp, ~filled
          PROVE  HistoryMatched(p)'
      <4>1. market'.look[p] = UpdatedLook(look[p], FALSE) /\ market'.slip[p] = slip[p]
        BY <3>7, <2>10, <2>11, <2>12
      <4>2. SlippagesOf(p)' = q
        BY <3>7, <2>19, <3>1
      <4>3. (OrdersOf(p) \ FillsOf(p))' = refused \cup {n + 1} /\ n + 1 \notin refused
        <5>1. n + 1 \notin 1 .. n
          OBVIOUS
        <5> QED BY <3>7, <5>1, <2>18, <3>2
      <4>4. /\ look[p] \in LookCounts /\ UpdatedLook(look[p], FALSE).beta = look[p].beta ++ One
            /\ UpdatedLook(look[p], FALSE).alpha = look[p].alpha
        BY <2>10 DEF UpdatedLook, LookCounts
      <4>5. Cardinality(refused \cup {n + 1}) = Cardinality(refused) + 1 /\ Cardinality(refused) \in Nat
        BY <3>2, <4>3, FS_AddElement, FS_CardinalityType
      <4>6. look[p].beta ++ One = PriorBeta ++ Whole(Cardinality(refused) + 1)
        BY <3>3, <4>5, WholePlusOne
      <4> QED BY <3>3, <3>4, <4>1, <4>2, <4>3, <4>4, <4>5, <4>6
    <3> QED BY <3>5, <3>6, <3>7
  <2> QED BY <2>5, <2>8, <2>17, <2>20 DEF ExecutionInv
<1> QED BY <1>1, <1>2

LEMMA ExecutionMatches == ExecutionInv => ModelsMatchHistory
<1> SUFFICES ASSUME ExecutionInv, NEW lp \in Providers
             PROVE  LET slips == SlippagesOf(lp)
                        n == Whole(Len(slips))
                        stats == market.slip[lp]
                        squares == [i \in DOMAIN slips
                                      |-> (slips[i] -- stats.mean) ** (slips[i] -- stats.mean)]
                    IN /\ market.look[lp].alpha = PriorAlpha ++ n
                       /\ market.look[lp].beta
                            = PriorBeta ++ Whole(Cardinality(OrdersOf(lp) \ FillsOf(lp)))
                       /\ stats.mean ** n = SumFrac(slips)
                       /\ stats.variance ** n = SumFrac(squares)
  BY DEF ModelsMatchHistory
<1>1. PICK q : q = SlippagesOf(lp) /\ q \in Seq(Lowest)
  BY SlippagesTyped
<1>2. PICK n \in Nat : n = Len(q) /\ DOMAIN q = 1 .. n
  BY <1>1
<1>3. PICK m : m = market.slip[lp].mean /\ Reduced(m)
  <2>1. market.slip[lp] \in Slips
    BY DEF ExecutionInv
  <2> QED BY <2>1, LowestIs DEF Slips
<1>4. PICK squares : squares = [i \in 1 .. n |-> (q[i] -- m) ** (q[i] -- m)]
  OBVIOUS
<1>5. HistoryMatched(lp)
  BY DEF ExecutionInv
<1>6. m ** Whole(n) = SumFrac(q)
  BY <1>1, <1>2, <1>3, <1>5 DEF HistoryMatched, MomentsOf
<1>7. market.slip[lp].variance ** Whole(n) = SumFrac(SquaresOf(q)) -- (m ** SumFrac(q))
  BY <1>1, <1>2, <1>3, <1>5 DEF HistoryMatched, MomentsOf
<1>8. SumFrac(squares) = SumFrac(SquaresOf(q)) -- (m ** SumFrac(q))
  <2>1. Len(SquaresOf(q)) = n /\ \A k \in 1 .. n : SquaresOf(q)[k] = q[k] ** q[k]
    BY <1>2 DEF SquaresOf
  <2>2. Len(squares) = n /\ \A k \in 1 .. n : squares[k] = (q[k] -- m) ** (q[k] -- m)
    BY <1>4
  <2>3. \A k \in 1 .. n : Reduced(q[k])
    BY <1>1, <1>2, LowestIs
  <2> QED BY <1>2, <1>3, <1>6, <2>1, <2>2, <2>3, SumOfSquares
<1>9. squares = [i \in DOMAIN SlippagesOf(lp) |->
                   (SlippagesOf(lp)[i] -- market.slip[lp].mean)
                     ** (SlippagesOf(lp)[i] -- market.slip[lp].mean)]
  BY <1>1, <1>2, <1>3, <1>4
<1>10. /\ market.look[lp].alpha = PriorAlpha ++ Whole(Len(SlippagesOf(lp)))
       /\ market.look[lp].beta = PriorBeta ++ Whole(Cardinality(OrdersOf(lp) \ FillsOf(lp)))
  BY <1>5 DEF HistoryMatched
<1>11. market.slip[lp].variance ** Whole(Len(SlippagesOf(lp))) = SumFrac(squares)
  BY <1>1, <1>2, <1>7, <1>8
<1>12. market.slip[lp].mean ** Whole(Len(SlippagesOf(lp))) = SumFrac(SlippagesOf(lp))
  BY <1>1, <1>2, <1>3, <1>6
<1> QED BY <1>9, <1>10, <1>11, <1>12

-----------------------------------------------------------------------------
(* The windows of the features *)

\* What is told of each quote or value is a sequence of the same length.
LEMMA EachIs == 
  ASSUME NEW S, quotes \in Seq(S)
  PROVE /\ Each(quotes, Spread) = [i \in 1 .. Len(quotes) |-> Spread(quotes[i])]
        /\ Each(quotes, Obi) = [i \in 1 .. Len(quotes) |-> Obi(quotes[i])]
        /\ Each(quotes, Mid) = [i \in 1 .. Len(quotes) |-> Mid(quotes[i])]
BY DEF Each

\* A part of a sequence, place by place
LEMMA PartIs ==
  ASSUME NEW S, NEW q \in Seq(S), NEW m \in Nat \ {0}, NEW n \in Nat, n <= Len(q), m <= n + 1
  PROVE SubSeq(q, m, n) = [i \in 1 .. n - m + 1 |-> q[m + i - 1]]
OBVIOUS

\* The squares of the values are those the window's second sum is of.
LEMMA SquaresIs == ASSUME NEW q \in Seq(Lowest) PROVE Each(q, LAMBDA v : v ** v) = SquaresOf(q)
<1>1. [i \in DOMAIN q |-> q[i] ** q[i]] = SquaresOf(q)
  BY DEF SquaresOf
<1>2. SquaresOf(q) \in Seq({SquaresOf(q)[i] : i \in DOMAIN q}) /\ Len(SquaresOf(q)) = Len(q)
  BY DEF SquaresOf
<1>3. SubSeq(SquaresOf(q), 1, Len(q)) = SquaresOf(q)
  BY <1>2
<1> QED BY <1>1, <1>3 DEF Each

\* The last n of a sequence, place by place
LEMMA LastLen ==
  ASSUME NEW S, NEW q \in Seq(S), NEW n \in Nat
  PROVE  /\ LastOf(q, n) \in Seq(S) /\ Len(LastOf(q, n)) = IF Len(q) > n THEN n ELSE Len(q)
         /\ Len(LastOf(q, n)) \in Nat /\ Len(LastOf(q, n)) <= n /\ Len(LastOf(q, n)) <= Len(q)
         /\ LastOf(q, n) = [i \in 1 .. Len(LastOf(q, n)) |-> q[(Len(q) - Len(LastOf(q, n))) + i]]
<1>1. CASE Len(q) > n
  <2>1. Len(q) - n + 1 \in Nat \ {0} /\ Len(q) \in Nat /\ Len(q) - (Len(q) - n + 1) + 1 = n
    BY <1>1
  <2>2. PICK l : l = SubSeq(q, Len(q) - n + 1, Len(q))
    OBVIOUS
  <2>3. l = [i \in 1 .. n |-> q[(Len(q) - n + 1) + i - 1]]
    BY <1>1, <2>1, <2>2, PartIs
  <2>4. \A i \in 1 .. n : (Len(q) - n + 1) + i - 1 = (Len(q) - n) + i /\ (Len(q) - n) + i \in 1 .. Len(q)
    BY <1>1, <2>1
  <2>5. \A i \in 1 .. n : l[i] = q[(Len(q) - n) + i] /\ l[i] \in S
    BY <2>3, <2>4
  <2>6. l \in Seq(S) /\ Len(l) = n
    BY <2>3, <2>5
  <2>7. l = [i \in 1 .. n |-> q[(Len(q) - n) + i]]
    BY <2>3, <2>4
  <2>8. LastOf(q, n) = l
    BY <1>1, <2>2 DEF LastOf
  <2> QED BY <1>1, <2>1, <2>6, <2>7, <2>8
<1>2. CASE ~(Len(q) > n)
  <2>1. SubSeq(q, 1, Len(q)) = q
    OBVIOUS
  <2>2. LastOf(q, n) = q
    BY <1>2, <2>1 DEF LastOf
  <2>3. Len(q) \in Nat /\ Len(q) <= n
    BY <1>2
  <2>4. q = [i \in 1 .. Len(q) |-> q[(Len(q) - Len(q)) + i]]
    OBVIOUS
  <2> QED BY <1>2, <2>2, <2>3, <2>4
<1> QED BY <1>1, <1>2

\* A place of the last of a sequence is a place of the sequence.
LEMMA LastAt ==
  ASSUME NEW S, NEW q \in Seq(S), NEW n \in Nat, NEW m, m = Len(LastOf(q, n)), NEW i \in 1 .. m
  PROVE  LastOf(q, n)[i] = q[(Len(q) - m) + i]
<1>1. LastOf(q, n) = [k \in 1 .. Len(LastOf(q, n)) |-> q[(Len(q) - Len(LastOf(q, n))) + k]]
  BY LastLen
<1>2. LastOf(q, n) = [k \in 1 .. m |-> q[(Len(q) - m) + k]]
  BY <1>1
<1> QED BY <1>2

\* What a sequence is with one more value, and without its first.
LEMMA OneMore ==
  ASSUME NEW S, NEW q \in Seq(S), NEW v \in S
  PROVE  /\ Append(q, v) \in Seq(S) /\ Len(Append(q, v)) = Len(q) + 1 /\ Len(q) \in Nat
         /\ Append(q, v)[Len(q) + 1] = v /\ \A i \in 1 .. Len(q) : Append(q, v)[i] = q[i]
OBVIOUS

\* A longer sequence as a function of its places
LEMMA AppendIs ==
  ASSUME NEW S, NEW q \in Seq(S), NEW v \in S
  PROVE  Append(q, v) = [i \in 1 .. Len(q) + 1 |-> IF i = Len(q) + 1 THEN v ELSE q[i]]
<1>1. PICK r : r = Append(q, v)
  OBVIOUS
<1>2. r \in Seq(S) /\ Len(r) = Len(q) + 1 /\ Len(q) \in Nat
  BY <1>1, OneMore
<1>3. r[Len(q) + 1] = v /\ \A i \in 1 .. Len(q) : r[i] = q[i]
  BY <1>1, OneMore
<1>4. r = [i \in 1 .. Len(q) + 1 |-> r[i]]
  BY <1>2
<1>5. \A i \in 1 .. Len(q) + 1 : r[i] = IF i = Len(q) + 1 THEN v ELSE q[i]
  BY <1>2, <1>3
<1> QED BY <1>1, <1>4, <1>5

\* A sequence without its first
LEMMA OneLess ==
  ASSUME NEW S, NEW q \in Seq(S), q # <<>>
  PROVE  /\ Tail(q) \in Seq(S) /\ Len(Tail(q)) \in Nat /\ Len(q) = Len(Tail(q)) + 1
         /\ Head(q) = q[1] /\ q[1] \in S /\ \A k \in 1 .. Len(Tail(q)) : Tail(q)[k] = q[k + 1]
OBVIOUS

\* A window that holds the last of a sequence holds the last of a longer one: its first goes.
LEMMA LastMore ==
  ASSUME NEW S, NEW q \in Seq(S), NEW v \in S, NEW n \in Nat \ {0}
  PROVE  /\ LastOf(q, n) \in Seq(S)
         /\ Len(LastOf(q, n)) >= n => LastOf(Append(q, v), n) = Append(Tail(LastOf(q, n)), v)
         /\ ~(Len(LastOf(q, n)) >= n) => LastOf(Append(q, v), n) = Append(LastOf(q, n), v)
<1>0. PICK r : r = Append(q, v)
  OBVIOUS
<1>1. r = Append(q, v) /\ r \in Seq(S) /\ Len(r) = Len(q) + 1 /\ Len(q) \in Nat
  BY <1>0
<1>2. r[Len(q) + 1] = v /\ \A i \in 1 .. Len(q) : r[i] = q[i]
  BY <1>0
<1>c. n \in Nat
  OBVIOUS
<1>d. PICK m : m = IF Len(q) > n THEN n ELSE Len(q)
  OBVIOUS
<1>3. m \in Nat /\ m = IF Len(q) > n THEN n ELSE Len(q)
  BY <1>1, <1>d
<1>a. PICK w : w = LastOf(q, n)
  OBVIOUS
<1>5. w \in Seq(S) /\ Len(w) = m
  BY <1>a, <1>c, <1>d, LastLen
<1>e. ASSUME NEW i \in 1 .. m
      PROVE  w[i] = q[Len(q) - m + i]
  <2>1. m = Len(LastOf(q, n))
    BY <1>5, <1>a
  <2>2. LastOf(q, n)[i] = q[(Len(q) - m) + i]
    BY <1>c, <2>1, LastAt
  <2> QED BY <1>a, <2>2
<1>4. w = LastOf(q, n) /\ \A i \in 1 .. m : w[i] = q[Len(q) - m + i]
  BY <1>a, <1>e
<1>6. PICK k : k = IF Len(r) > n THEN n ELSE Len(r)
  OBVIOUS
<1>b. PICK l : l = LastOf(r, n)
  OBVIOUS
<1>f. l \in Seq(S) /\ Len(l) = k /\ k \in Nat
  BY <1>1, <1>b, <1>c, <1>6, LastLen
<1>g. \A i \in 1 .. k : l[i] = r[Len(r) - k + i]
  <2>1. k = Len(LastOf(r, n)) /\ r \in Seq(S)
    BY <1>1, <1>b, <1>f
  <2>2. LastOf(r, n) = [i \in 1 .. Len(LastOf(r, n)) |-> r[(Len(r) - Len(LastOf(r, n))) + i]]
    BY <1>c, <2>1, LastLen
  <2>3. l = [i \in 1 .. k |-> r[(Len(r) - k) + i]]
    BY <1>b, <2>1, <2>2
  <2> QED BY <2>3
<1>h. l = [i \in 1 .. k |-> l[i]]
  BY <1>f
<1>7. LastOf(r, n) = [i \in 1 .. k |-> r[Len(r) - k + i]]
  BY <1>b, <1>g, <1>h
<1>8. CASE m >= n
  <2>1. m = n /\ k = n
    BY <1>1, <1>3, <1>6, <1>8
  <2>2. Tail(w) \in Seq(S) /\ Len(Tail(w)) = n - 1 /\ \A i \in 1 .. n - 1 : Tail(w)[i] = w[i + 1]
    BY <1>5, <2>1
  <2>a. PICK t : t = Tail(w)
    OBVIOUS
  <2>b. t \in Seq(S) /\ Len(t) = n - 1 /\ \A i \in 1 .. n - 1 : t[i] = w[i + 1]
    BY <2>2, <2>a
  <2>c. Append(t, v) = [i \in 1 .. Len(t) + 1 |-> IF i = Len(t) + 1 THEN v ELSE t[i]]
    BY <2>b, AppendIs
  <2>3. Append(Tail(w), v) = [i \in 1 .. n |-> IF i = n THEN v ELSE w[i + 1]]
    <3>1. Len(t) + 1 = n
      BY <2>b
    <3>2. \A i \in 1 .. n : i # n => i \in 1 .. n - 1
      OBVIOUS
    <3>3. [i \in 1 .. n |-> IF i = n THEN v ELSE t[i]] = [i \in 1 .. n |-> IF i = n THEN v ELSE w[i + 1]]
      BY <2>b, <3>2
    <3> QED BY <2>a, <2>c, <3>1, <3>3
  <2>4. ASSUME NEW i \in 1 .. n
        PROVE  r[Len(r) - n + i] = IF i = n THEN v ELSE w[i + 1]
    <3>1. CASE i = n
      <4>1. Len(r) - n + i = Len(q) + 1
        BY <1>1, <3>1
      <4> QED BY <1>2, <3>1, <4>1
    <3>2. CASE i # n
      <4>0. m <= Len(q)
        BY <1>1, <1>3
      <4>1. /\ Len(r) - n + i = Len(q) - m + (i + 1) /\ Len(q) - m + (i + 1) \in 1 .. Len(q)
            /\ i + 1 \in 1 .. m
        <5> DEFINE a == Len(r)  b == Len(q)
        <5>1. a = b + 1 /\ b \in Nat /\ m = n /\ m <= b /\ i \in 1 .. n /\ i # n
          BY <1>1, <2>1, <3>2, <4>0
        <5> HIDE DEF a, b
        <5>2. a - n + i = b - m + (i + 1) /\ b - m + (i + 1) \in 1 .. b /\ i + 1 \in 1 .. m
          BY <5>1
        <5> QED BY <5>2 DEF a, b
      <4> QED BY <1>2, <1>4, <3>2, <4>1
    <3> QED BY <3>1, <3>2
  <2>5. LastOf(r, n) = Append(Tail(w), v)
    BY <1>7, <2>1, <2>3, <2>4
  <2> QED BY <1>1, <1>4, <1>5, <1>8, <2>5
<1>9. CASE ~(m >= n)
  <2>1. m = Len(q) /\ k = m + 1 /\ Len(r) = k
    BY <1>1, <1>3, <1>6, <1>9
  <2>2. Append(w, v) = [i \in 1 .. m + 1 |-> IF i = m + 1 THEN v ELSE w[i]]
    BY <1>5, AppendIs
  <2>3. ASSUME NEW i \in 1 .. k
        PROVE  r[Len(r) - k + i] = IF i = m + 1 THEN v ELSE w[i]
    <3>1. Len(r) - k + i = i
      BY <2>1
    <3>2. CASE i = m + 1
      BY <1>2, <2>1, <3>1, <3>2
    <3>3. CASE i # m + 1
      <4>1. i \in 1 .. m /\ i \in 1 .. Len(q) /\ Len(q) - m + i = i
        BY <2>1, <3>3
      <4> QED BY <1>2, <1>4, <3>1, <3>3, <4>1
    <3> QED BY <3>2, <3>3
  <2>4. LastOf(r, n) = Append(w, v)
    BY <1>7, <2>1, <2>2, <2>3
  <2> QED BY <1>1, <1>4, <1>5, <1>9, <2>4
<1> QED BY <1>8, <1>9

\* The sums a window keeps are those of the values it keeps.
SumsOf(w) ==
  /\ w.values \in Seq(Lowest) /\ w.sum = SumFrac(w.values)
  /\ w.sumSq = SumFrac(SquaresOf(w.values))

\* The squares of a sequence are fractions, one for each place.
LEMMA SquaresAre ==
  ASSUME NEW q \in Seq(Lowest)
  PROVE  Len(SquaresOf(q)) = Len(q) /\ \A k \in 1 .. Len(q) : SquaresOf(q)[k] = q[k] ** q[k]
                                                           /\ Reduced(q[k]) /\ Reduced(SquaresOf(q)[k])
<1>1. Len(SquaresOf(q)) = Len(q) /\ \A k \in 1 .. Len(q) : SquaresOf(q)[k] = q[k] ** q[k]
  BY DEF SquaresOf
<1>2. ASSUME NEW k \in 1 .. Len(q)
      PROVE  Reduced(q[k]) /\ Reduced(SquaresOf(q)[k])
  <2>1. q[k] \in Lowest
    OBVIOUS
  <2>2. Reduced(q[k])
    BY <2>1, LowestIs
  <2> QED BY <1>1, <2>2, Reduces, ReducedIs
<1> QED BY <1>1, <1>2

\* One more value is added to the sum and its square to the sum of squares.
LEMMA SumsMore ==
  ASSUME NEW q \in Seq(Lowest), NEW v \in Lowest
  PROVE  /\ SumFrac(Append(q, v)) = SumFrac(q) ++ v
         /\ SumFrac(SquaresOf(Append(q, v))) = SumFrac(SquaresOf(q)) ++ (v ** v)
         /\ Reduced(SumFrac(q)) /\ Reduced(SumFrac(SquaresOf(q)))
<1>0. PICK r : r = Append(q, v)
  OBVIOUS
<1>1. r = Append(q, v) /\ r \in Seq(Lowest)
  BY <1>0
<1>2. Len(r) = Len(q) + 1 /\ Len(q) \in Nat /\ r[Len(r)] = v /\ \A k \in 1 .. Len(q) : r[k] = q[k]
  BY <1>0
<1>3. SumFrac(r) = SumFrac(q) ++ v
  <2>1. SumFrac(r) = SumFrac(q) ++ r[Len(r)]
    BY <1>2, SumMore
  <2> QED BY <1>2, <2>1
<1>4. /\ Len(SquaresOf(q)) = Len(q) /\ Len(SquaresOf(r)) = Len(r)
      /\ \A k \in 1 .. Len(q) : SquaresOf(q)[k] = q[k] ** q[k]
      /\ \A k \in 1 .. Len(r) : SquaresOf(r)[k] = r[k] ** r[k]
  BY <1>1, SquaresAre
<1>5. SumFrac(SquaresOf(r)) = SumFrac(SquaresOf(q)) ++ (v ** v)
  <2>1. \A k \in 1 .. Len(SquaresOf(q)) : SquaresOf(r)[k] = SquaresOf(q)[k]
    BY <1>2, <1>4
  <2>2. SumFrac(SquaresOf(r)) = SumFrac(SquaresOf(q)) ++ SquaresOf(r)[Len(SquaresOf(r))]
    BY <1>2, <1>4, <2>1, SumMore
  <2>3. SquaresOf(r)[Len(SquaresOf(r))] = v ** v
    BY <1>2, <1>4
  <2> QED BY <2>2, <2>3
<1>6. Reduced(SumFrac(q)) /\ Reduced(SumFrac(SquaresOf(q)))
  BY <1>2, SquaresAre, SumReduced
<1> QED BY <1>1, <1>3, <1>5, <1>6

\* The first value and its square are taken away again: fractions lose nothing by rounding.
LEMMA SumsLess ==
  ASSUME NEW q \in Seq(Lowest), q # <<>>
  PROVE  /\ Head(q) \in Lowest /\ Tail(q) \in Seq(Lowest)
         /\ SumFrac(q) -- Head(q) = SumFrac(Tail(q))
         /\ SumFrac(SquaresOf(q)) -- (Head(q) ** Head(q)) = SumFrac(SquaresOf(Tail(q)))
<1>0. PICK r, n : r = Tail(q) /\ n = Len(r)
  OBVIOUS
<1>1. r \in Seq(Lowest) /\ n \in Nat /\ r = Tail(q) /\ n = Len(r) /\ Len(q) = n + 1
  BY <1>0, OneLess
<1>2. Head(q) = q[1] /\ q[1] \in Lowest /\ \A k \in 1 .. n : r[k] = q[k + 1]
  BY <1>0, OneLess
<1>3. \A k \in 1 .. n + 1 : Reduced(q[k])
  BY <1>1, SquaresAre
<1>4. SumFrac(q) -- q[1] = SumFrac(r)
  BY <1>1, <1>2, <1>3, SumTail
<1>5. /\ Len(SquaresOf(q)) = n + 1 /\ Len(SquaresOf(r)) = n
      /\ \A k \in 1 .. n + 1 : SquaresOf(q)[k] = q[k] ** q[k] /\ Reduced(SquaresOf(q)[k])
      /\ \A k \in 1 .. n : SquaresOf(r)[k] = r[k] ** r[k]
  BY <1>1, SquaresAre
<1>6. \A k \in 1 .. n : SquaresOf(r)[k] = SquaresOf(q)[k + 1]
  <2>1. \A k \in 1 .. n : k + 1 \in 1 .. n + 1
    BY <1>1
  <2> QED BY <1>2, <1>5, <2>1
<1>7. SumFrac(SquaresOf(q)) -- SquaresOf(q)[1] = SumFrac(SquaresOf(r))
  <2>1. \A k \in 1 .. n + 1 : Reduced(SquaresOf(q)[k])
    BY <1>5
  <2>2. n \in Nat /\ Len(SquaresOf(q)) = n + 1 /\ Len(SquaresOf(r)) = n
    BY <1>1, <1>5
  <2> QED BY <1>6, <2>1, <2>2, SumTail
<1>8. SquaresOf(q)[1] = q[1] ** q[1]
  BY <1>5
<1> QED BY <1>1, <1>2, <1>4, <1>7, <1>8

\* What leaves a window is taken from its sums, and what comes is added.
LEMMA RollSums ==
  ASSUME NEW w, SumsOf(w), NEW n \in Nat \ {0}, NEW v \in Lowest
  PROVE  /\ SumsOf(Roll(w, n, v))
         /\ Len(w.values) >= n => Roll(w, n, v).values = Append(Tail(w.values), v)
         /\ ~(Len(w.values) >= n) => Roll(w, n, v).values = Append(w.values, v)
<1>0. PICK q : q = w.values
  OBVIOUS
<1>1. q = w.values /\ q \in Seq(Lowest) /\ w.sum = SumFrac(q) /\ w.sumSq = SumFrac(SquaresOf(q))
  BY <1>0 DEF SumsOf
<1>2. CASE Len(q) >= n
  <2>1. q # <<>>
    BY <1>1, <1>2
  <2>0. PICK r : r = Tail(q)
    OBVIOUS
  <2>2. r = Tail(q) /\ r \in Seq(Lowest)
    BY <1>1, <2>0, <2>1, OneLess
  <2>3. Roll(w, n, v) = [values |-> Append(r, v), sum |-> (SumFrac(q) -- Head(q)) ++ v,
                         sumSq |-> (SumFrac(SquaresOf(q)) -- (Head(q) ** Head(q))) ++ (v ** v)]
    BY <1>1, <1>2, <2>2 DEF Roll
  <2>a. SumFrac(q) -- Head(q) = SumFrac(r)
        /\ SumFrac(SquaresOf(q)) -- (Head(q) ** Head(q)) = SumFrac(SquaresOf(r))
    BY <1>1, <2>1, <2>2, SumsLess
  <2>b. SumFrac(r) ++ v = SumFrac(Append(r, v))
        /\ SumFrac(SquaresOf(r)) ++ (v ** v) = SumFrac(SquaresOf(Append(r, v)))
    BY <2>2, SumsMore
  <2>4. Roll(w, n, v) = [values |-> Append(r, v), sum |-> SumFrac(Append(r, v)),
                         sumSq |-> SumFrac(SquaresOf(Append(r, v)))]
    BY <2>3, <2>a, <2>b
  <2>5. Append(r, v) \in Seq(Lowest)
    BY <2>2
  <2>6. SumsOf(Roll(w, n, v))
    BY <2>4, <2>5 DEF SumsOf
  <2> QED BY <1>1, <1>2, <2>2, <2>4, <2>6
<1>3. CASE ~(Len(q) >= n)
  <2>1. Roll(w, n, v) = [values |-> Append(q, v), sum |-> (SumFrac(q) -- Zero) ++ v,
                         sumSq |-> (SumFrac(SquaresOf(q)) -- (Zero ** Zero)) ++ (v ** v)]
    BY <1>1, <1>3 DEF Roll
  <2>2. Zero ** Zero = Zero /\ SumFrac(q) -- Zero = SumFrac(q)
        /\ SumFrac(SquaresOf(q)) -- Zero = SumFrac(SquaresOf(q))
    BY <1>1, SumsMore, PlusZero, TimesOne, WholeReduced
  <2>3. Roll(w, n, v) = [values |-> Append(q, v), sum |-> SumFrac(Append(q, v)),
                         sumSq |-> SumFrac(SquaresOf(Append(q, v)))]
    BY <1>1, <2>1, <2>2, SumsMore
  <2>4. Append(q, v) \in Seq(Lowest)
    BY <1>1
  <2>5. SumsOf(Roll(w, n, v))
    BY <2>3, <2>4 DEF SumsOf
  <2> QED BY <1>1, <1>3, <2>3, <2>5
<1> QED BY <1>1, <1>2, <1>3

\* So a window of the last of a sequence is one of the last of the longer sequence.
LEMMA WindowRolls ==
  ASSUME NEW w, NEW q \in Seq(Lowest), NEW v \in Lowest, NEW n \in Nat \ {0},
         SumsOf(w), w.values = LastOf(q, n)
  PROVE  SumsOf(Roll(w, n, v)) /\ Roll(w, n, v).values = LastOf(Append(q, v), n)
<1>1. /\ Len(LastOf(q, n)) >= n => LastOf(Append(q, v), n) = Append(Tail(LastOf(q, n)), v)
      /\ ~(Len(LastOf(q, n)) >= n) => LastOf(Append(q, v), n) = Append(LastOf(q, n), v)
  BY LastMore
<1>2. /\ SumsOf(Roll(w, n, v))
      /\ Len(w.values) >= n => Roll(w, n, v).values = Append(Tail(w.values), v)
      /\ ~(Len(w.values) >= n) => Roll(w, n, v).values = Append(w.values, v)
  BY RollSums
<1> QED BY <1>1, <1>2

\* The mids are the last of all mids too, the capacity being a window.
LEMMA MidsMore ==
  ASSUME NEW q \in Seq(Lowest), NEW v \in Lowest, MidCapacity \in Nat \ {0}
  PROVE  PushMid(LastOf(q, MidCapacity), v) = LastOf(Append(q, v), MidCapacity)
<1>1. PICK n \in Nat \ {0} : n = MidCapacity
  OBVIOUS
<1>a. PICK w : w = LastOf(q, n)
  OBVIOUS
<1>2. w = LastOf(q, n) /\ w \in Seq(Lowest)
  BY <1>a, LastMore
<1>3. Len(w) <= n
  <2>0. n \in Nat
    OBVIOUS
  <2> QED BY <1>2, <2>0, LastLen
<1>4. Len(Append(w, v)) = Len(w) + 1
  BY <1>2
<1>5. w # <<>> => Tail(Append(w, v)) = Append(Tail(w), v)
  BY <1>2
<1>6. CASE Len(w) >= n
  <2>1. PushMid(w, v) = Append(Tail(w), v)
    BY <1>1, <1>2, <1>4, <1>5, <1>6 DEF PushMid
  <2> QED BY <1>1, <1>2, <1>6, <2>1, LastMore
<1>7. CASE ~(Len(w) >= n)
  <2>1. PushMid(w, v) = Append(w, v)
    BY <1>1, <1>2, <1>3, <1>4, <1>7 DEF PushMid
  <2> QED BY <1>1, <1>2, <1>7, <2>1, LastMore
<1> QED BY <1>6, <1>7

-----------------------------------------------------------------------------
(* The regime *)

\* What is not zero or less divides, and an absolute value is a fraction.
LEMMA AbsIs ==
  ASSUME NEW a, IsFrac(a)
  PROVE  IsFrac(AbsFrac(a))
BY DEF IsFrac, AbsFrac, IntAbs

\* Shares, place by place
LEMMA SharesAre ==
  ASSUME NEW p, NEW n \in Nat, Len(p) = n, NEW s
  PROVE  Len(Shares(p, s)) = n /\ \A k \in 1 .. n : Shares(p, s)[k] = p[k] // s
BY DEF Shares

\* What is shared out among values that do not add up to zero adds up to one.
LEMMA NormalizedSum ==
  ASSUME NEW p, NEW n \in Nat, Len(p) = n, \A k \in 1 .. n : Reduced(p[k]), Zero \prec SumFrac(p)
  PROVE  SumFrac(Normalized(p)) = One
<1>1. PICK q : q = Normalized(p)
  OBVIOUS
<1>2. Len(q) = n /\ \A k \in 1 .. n : q[k] = p[k] // SumFrac(p)
  BY <1>1, SharesAre DEF Normalized
<1>3. SumFrac(q) = One
  BY <1>2, SharesAddUp
<1> QED BY <1>1, <1>3

\* The uniform posterior sums to one.
LEMMA UniformSum ==
  ASSUME NRegimes \in Nat \ {0}
  PROVE  SumFrac(Uniform) = One
<1>1. PICK n \in Nat \ {0} : n = NRegimes
  OBVIOUS
<1>2. PICK ones : ones = [k \in 1 .. n |-> One]
  OBVIOUS
<1>3. Len(ones) = n /\ \A k \in 1 .. n : ones[k] = One /\ Reduced(ones[k])
  BY <1>2, WholeReduced
<1>4. Len(Uniform) = n /\ \A k \in 1 .. n : Uniform[k] = Frac(1, n)
  BY <1>1 DEF Uniform
<1>5. PICK f : SumFrac(ones) = f[n] /\ f[0] = Zero /\ \A k \in 1 .. n : f[k] = f[k - 1] ++ ones[k]
  BY <1>3, SumIs
<1>6. SumFrac(ones) = Whole(n)
  <2> DEFINE S == {k \in 0 .. n : f[k] = Whole(k)}
  <2>1. 0 \in S
    BY <1>5 DEF Zero
  <2>2. ASSUME NEW k \in 0 .. n - 1, k \in S
        PROVE  k + 1 \in S
    <3>1. k + 1 \in 1 .. n /\ (k + 1) - 1 = k /\ k + 1 \in 0 .. n /\ k \in Nat
      BY <2>2
    <3>2. f[k + 1] = f[k] ++ ones[k + 1]
      BY <1>5, <3>1
    <3>3. f[k + 1] = Whole(k) ++ One
      BY <1>3, <2>2, <3>1, <3>2
    <3>4. Whole(k) ++ One = Whole(k + 1)
      <4>1. (Zero ++ Whole(k)) ++ One = Zero ++ Whole(k + 1)
        BY <3>1, WholePlusOne, WholeReduced
      <4>2. Zero ++ Whole(k) = Whole(k) /\ Zero ++ Whole(k + 1) = Whole(k + 1)
        BY <3>1, PlusZero, WholeReduced
      <4> QED BY <4>1, <4>2
    <3> QED BY <3>1, <3>3, <3>4
  <2> HIDE DEF S
  <2>3. \A k \in 0 .. n : k \in S
    BY <2>1, <2>2, 0 \in Int, n \in Int, IntervalInduction
  <2>4. n \in S
    BY <2>3
  <2> QED BY <1>5, <2>4 DEF S
<1>7. \A k \in 1 .. n : Uniform[k] = ones[k] // SumFrac(ones)
  <2>1. One // Whole(n) = Frac(1, n)
    BY DEF One, Whole, //
  <2> QED BY <1>3, <1>4, <1>6, <2>1
<1>8. Zero \prec SumFrac(ones)
  BY <1>6 DEF Zero, Whole, \prec
<1> QED BY <1>3, <1>4, <1>7, <1>8, SharesAddUp

\* An exponential of what is not positive is not negative, and that of zero is positive.
ExponentialFits ==
  /\ Zero \prec ExpScore(Zero)
  /\ \A s : Reduced(s) /\ s \preceq Zero => Reduced(ExpScore(s)) /\ Zero \preceq ExpScore(s)

\* Scores become a distribution: none is above the best, and the exponential of the best is not zero.
LEMMA SoftmaxSum ==
  ASSUME NEW scores, NEW n \in Nat \ {0}, Len(scores) = n, DOMAIN scores = 1 .. n,
         \A k \in 1 .. n : Reduced(scores[k]),
         ExponentialFits
  PROVE  /\ SumFrac(Softmax(scores)) = One /\ Len(Softmax(scores)) = n
         /\ \A k \in 1 .. n : Reduced(Softmax(scores)[k])
<1>1. \A k \in 1 .. n : IsFrac(scores[k])
  BY ReducedIs
<1>2. PICK m \in 1 .. n : \A j \in 1 .. n : scores[j] \preceq scores[m]
  BY <1>1, GreatestOf
<1>3. PICK best : best = Best(scores)
  OBVIOUS
<1>4. best \in {scores[j] : j \in 1 .. n} /\ \A j \in 1 .. n : scores[j] \preceq best
  BY <1>2, <1>3 DEF Best
<1>5. Reduced(best)
  BY <1>4
<1>6. PICK p : p = Exponentials(scores, best)
  OBVIOUS
<1>7. Len(p) = n /\ \A j \in 1 .. n : p[j] = ExpScore(scores[j] -- best)
  BY <1>6 DEF Exponentials
<1>8. ASSUME NEW j \in 1 .. n
      PROVE  Reduced(p[j]) /\ Zero \preceq p[j]
  <2>1. PICK s : s = scores[j] -- best
    OBVIOUS
  <2>2. Reduced(scores[j]) /\ scores[j] \preceq best
    BY <1>4
  <2>3. s \preceq Zero
    BY <1>5, <2>1, <2>2, MinusBelow
  <2>4. Reduced(s)
    BY <1>5, <2>1, <2>2, Reduces, ReducedIs
  <2> QED BY <1>7, <2>1, <2>3, <2>4 DEF ExponentialFits
<1>9. Zero \prec SumFrac(p)
  <2>1. PICK l \in 1 .. n : scores[l] = best
    BY <1>4
  <2>2. best -- best = Zero
    <3>1. Zero ++ best = best /\ (Zero ++ best) -- best = Zero
      BY <1>5, PlusZero, PlusMinus, WholeReduced DEF Zero
    <3> QED BY <3>1
  <2>3. Zero \prec p[l]
    BY <1>7, <2>1, <2>2 DEF ExponentialFits
  <2> QED BY <1>7, <1>8, <2>3, SumPositive
<1>10. SumFrac(Normalized(p)) = One
  BY <1>7, <1>8, <1>9, NormalizedSum
<1>11. Softmax(scores) = Normalized(p)
  BY <1>3, <1>6 DEF Softmax
<1>12. PICK s : s = SumFrac(p)
  OBVIOUS
<1>13. Reduced(s) /\ Zero \prec s
  BY <1>7, <1>8, <1>9, <1>12, SumReduced
<1>14. Len(Normalized(p)) = n /\ \A k \in 1 .. n : Normalized(p)[k] = p[k] // s
  BY <1>7, <1>12, SharesAre DEF Normalized
<1>15. \A k \in 1 .. n : Reduced(p[k] // s)
  BY <1>8, <1>13, OverTimes
<1> QED BY <1>10, <1>11, <1>14, <1>15

\* The scores of the regimes are fractions.
LEMMA ScoresAre ==
  ASSUME NEW z, NEW vol, NEW ratio, IsFrac(z), IsFrac(vol), IsFrac(ratio), NRegimes \in Nat \ {0}
  PROVE  /\ Len(Scores(z, vol, ratio)) = NRegimes /\ DOMAIN Scores(z, vol, ratio) = 1 .. NRegimes
         /\ \A k \in 1 .. NRegimes : Reduced(Scores(z, vol, ratio)[k])
<1> DEFINE Near(v, at) == AbsFrac(v -- at)
           Score(k, volAt) == Zero -- ((Near(z, Whole(k)) ++ (Near(vol, volAt) ** Whole(10)))
                                         ++ (Near(ratio, Whole(k)) ** Whole(2)))
           four == <<Score(0, Zero), Score(1, Frac(1, 100)), Score(2, Frac(3, 100)),
                     Score(3, Frac(1, 20))>>
<1>1. ASSUME NEW v, NEW at, IsFrac(v), IsFrac(at)
      PROVE  IsFrac(Near(v, at))
  <2>1. IsFrac(v -- at)
    BY <1>1, Reduces, ReducedIs
  <2> QED BY <2>1, AbsIs
<1>2. ASSUME NEW k \in Nat, NEW at, IsFrac(at)
      PROVE  Reduced(Score(k, at))
  <2>1. IsFrac(Whole(k)) /\ IsFrac(Whole(10)) /\ IsFrac(Whole(2)) /\ IsFrac(Zero)
    BY WholeReduced, ReducedIs
  <2>2. PICK a, b, c : a = Near(z, Whole(k)) /\ b = Near(vol, at) /\ c = Near(ratio, Whole(k))
    OBVIOUS
  <2>3. IsFrac(a) /\ IsFrac(b) /\ IsFrac(c)
    BY <1>1, <1>2, <2>1, <2>2
  <2>4. IsFrac(b ** Whole(10)) /\ IsFrac(c ** Whole(2))
    BY <2>1, <2>3, Reduces, ReducedIs
  <2>5. PICK d, e : d = b ** Whole(10) /\ e = c ** Whole(2) /\ IsFrac(d) /\ IsFrac(e)
    BY <2>4
  <2>6. IsFrac(a ++ d)
    BY <2>3, <2>5, Reduces, ReducedIs
  <2>7. IsFrac((a ++ d) ++ e)
    BY <2>5, <2>6, Reduces, ReducedIs
  <2>8. Reduced(Zero -- ((a ++ d) ++ e))
    BY <2>1, <2>7, Reduces
  <2> QED BY <2>2, <2>5, <2>8
<1>3. IsFrac(Zero) /\ IsFrac(Frac(1, 100)) /\ IsFrac(Frac(3, 100)) /\ IsFrac(Frac(1, 20))
  BY WholeReduced, ReducedIs, FracIs
<1>4. /\ Reduced(Score(0, Zero)) /\ Reduced(Score(1, Frac(1, 100))) /\ Reduced(Score(2, Frac(3, 100)))
      /\ Reduced(Score(3, Frac(1, 20)))
  BY <1>2, <1>3
<1>5. PICK a, b, c, d : /\ a = Score(0, Zero) /\ b = Score(1, Frac(1, 100))
                        /\ c = Score(2, Frac(3, 100)) /\ d = Score(3, Frac(1, 20))
  OBVIOUS
<1>6. Reduced(a) /\ Reduced(b) /\ Reduced(c) /\ Reduced(d) /\ Reduced(Zero)
  BY <1>4, <1>5, WholeReduced
<1>7. Scores(z, vol, ratio)
        = SubSeq([k \in 1 .. NRegimes |-> IF k <= 4 THEN <<a, b, c, d>>[k] ELSE Zero], 1, NRegimes)
  BY <1>5 DEF Scores
<1> HIDE DEF Near, Score, four
<1>8. PICK n \in Nat \ {0} : n = NRegimes
  OBVIOUS
<1>9. PICK q : q = Scores(z, vol, ratio)
  OBVIOUS
<1>10. q = SubSeq([k \in 1 .. n |-> IF k <= 4 THEN <<a, b, c, d>>[k] ELSE Zero], 1, n)
  BY <1>7, <1>8, <1>9
<1>11. Len(q) = n /\ DOMAIN q = 1 .. n
       /\ \A k \in 1 .. n : q[k] = IF k <= 4 THEN <<a, b, c, d>>[k] ELSE Zero
  BY <1>10
<1>12. \A k \in 1 .. n : k <= 4 => k = 1 \/ k = 2 \/ k = 3 \/ k = 4
  OBVIOUS
<1>13. \A k \in 1 .. n : q[k] = a \/ q[k] = b \/ q[k] = c \/ q[k] = d \/ q[k] = Zero
  BY <1>11, <1>12
<1> QED BY <1>6, <1>8, <1>9, <1>11, <1>13

\* A regime state has these fields.
RegimeShape(r) ==
  r \in [posterior : {r.posterior}, entropy : {r.entropy}, kl : {r.kl}, drift : {r.drift},
         unknown : BOOLEAN, updated : {r.updated}, initialized : BOOLEAN]

\* The posterior is a distribution, and what is told of it is of this one.
RegimeFits(r) ==
  /\ RegimeShape(r)
  /\ SumFrac(r.posterior) = One
  /\ r.initialized => r.entropy = Entropy(r.posterior)

\* What inference may answer: nothing, or weights that are not all zero.
AnswerFits(answer) ==
  \A p \in answer : p \in Seq(Lowest) /\ Zero \prec SumFrac(p)

\* The regime starts with the uniform posterior.
LEMMA NewFits ==
  ASSUME NRegimes \in Nat \ {0}
  PROVE  RegimeFits(NewRegime) /\ NewRegime.updated = 0
BY UniformSum DEF RegimeFits, RegimeShape, NewRegime

\* What is stored with a distribution fits.
LEMMA StoredFits ==
  ASSUME NEW r, RegimeShape(r), NEW p, SumFrac(p) = One, NEW now
  PROVE  RegimeFits(StoredRegime(r, p, now)) /\ StoredRegime(r, p, now).updated = now
<1>1. PICK e, l, u : e = Entropy(p) /\ l = KlDivergence(p) /\ u = (UnknownThreshold \prec e)
  OBVIOUS
<1>2. StoredRegime(r, p, now)
        = [r EXCEPT !.posterior = p, !.entropy = e, !.kl = l, !.unknown = u, !.updated = now,
                    !.initialized = TRUE]
  BY <1>1 DEF StoredRegime
<1>3. [r EXCEPT !.posterior = p, !.entropy = e, !.kl = l, !.unknown = u, !.updated = now,
                !.initialized = TRUE]
        \in [posterior : {p}, entropy : {e}, kl : {l}, drift : {r.drift},
             unknown : {u}, updated : {now}, initialized : {TRUE}]
  BY DEF RegimeShape
<1>4. u \in BOOLEAN
  BY <1>1 DEF \prec
<1>5. PICK s : s = StoredRegime(r, p, now)
  OBVIOUS
<1>6. s \in [posterior : {p}, entropy : {e}, kl : {l}, drift : {r.drift},
             unknown : {u}, updated : {now}, initialized : {TRUE}]
  BY <1>2, <1>3, <1>5
<1>7. RegimeShape(s) /\ s.posterior = p /\ s.entropy = e /\ s.updated = now
  BY <1>4, <1>6 DEF RegimeShape
<1> QED BY <1>1, <1>5, <1>7 DEF RegimeFits

\* The drift is no part of what is told of the posterior.
LEMMA DriftedFits ==
  ASSUME NEW r, RegimeFits(r)
  PROVE  RegimeFits(Drifted(r)) /\ Drifted(r).updated = r.updated
<1>1. PICK d : Drifted(r) = [r EXCEPT !.drift = d]
  BY DEF Drifted
<1>2. Drifted(r) = [posterior |-> r.posterior, entropy |-> r.entropy, kl |-> r.kl, drift |-> d,
                    unknown |-> r.unknown, updated |-> r.updated, initialized |-> r.initialized]
  BY <1>1 DEF RegimeFits, RegimeShape
<1> QED BY <1>2 DEF RegimeFits, RegimeShape

\* The posterior a prediction gives is a distribution, its answer being weights.
LEMMA PredictedFits ==
  ASSUME NEW r, RegimeFits(r), NEW found, NEW phi, NEW answer, AnswerFits(answer), NEW now,
         NEW p, p \in Predicted(found, phi, answer)
  PROVE  /\ RegimeFits(Drifted(Updated(r, p, now)))
         /\ Drifted(Updated(r, p, now)).updated = now
<1>1. p \in Seq(Lowest) /\ Zero \prec SumFrac(p)
  BY DEF Predicted, AnswerFits
<1>2. PICK n \in Nat : n = Len(p)
  BY <1>1
<1>3. \A k \in 1 .. n : Reduced(p[k])
  BY <1>1, <1>2, LowestIs
<1>4. SumFrac(Normalized(p)) = One
  BY <1>1, <1>2, <1>3, NormalizedSum
<1>5. RegimeShape(r)
  BY DEF RegimeFits
<1>6. RegimeFits(Updated(r, p, now)) /\ Updated(r, p, now).updated = now
  BY <1>4, <1>5, StoredFits DEF Updated
<1> QED BY <1>6, DriftedFits

\* So is the posterior the scores of the features give.
LEMMA ScoredFits ==
  ASSUME NEW r, RegimeFits(r), NEW z, NEW vol, NEW ratio, IsFrac(z), IsFrac(vol), IsFrac(ratio),
         NRegimes \in Nat \ {0}, ExponentialFits, NEW now
  PROVE  /\ RegimeFits(Updated(r, Softmax(Scores(z, vol, ratio)), now))
         /\ Updated(r, Softmax(Scores(z, vol, ratio)), now).updated = now
<1>1. PICK n, q : n = NRegimes /\ n \in Nat \ {0} /\ q = Scores(z, vol, ratio)
  OBVIOUS
<1>2. Len(q) = n /\ DOMAIN q = 1 .. n /\ \A k \in 1 .. n : Reduced(q[k])
  BY <1>1, ScoresAre
<1>3. PICK p : p = Softmax(q)
  OBVIOUS
<1>4. SumFrac(p) = One /\ Len(p) = n /\ \A k \in 1 .. n : Reduced(p[k])
  BY <1>1, <1>2, <1>3, SoftmaxSum
<1>5. Zero \prec SumFrac(p)
  BY <1>4 DEF Zero, One, Whole, \prec
<1>6. SumFrac(Normalized(p)) = One
  BY <1>4, <1>5, NormalizedSum
<1>7. RegimeShape(r)
  BY DEF RegimeFits
<1>8. RegimeFits(Updated(r, p, now)) /\ Updated(r, p, now).updated = now
  BY <1>6, <1>7, StoredFits DEF Updated
<1> QED BY <1>1, <1>3, <1>8

\* On a tick the regime stays one that fits; in a backtest it is of this tick.
LEMMA TickRegime ==
  ASSUME NEW r, RegimeFits(r), NEW found, NEW phi, NEW answer, AnswerFits(answer), NEW now,
         NRegimes \in Nat \ {0}, ExponentialFits, IsFrac(phi[2]), IsFrac(phi[7]), IsFrac(phi[8])
  PROVE  /\ RegimeFits(RegimeOnTick(r, found, phi, answer, now))
         /\ RegimeOnTick(r, found, phi, answer, now).updated = now
         /\ RegimeFits(RegimeOnTickForward(r, found, phi, answer, now))
<1>1. PICK z, vol, ratio : z = AbsFrac(phi[2]) /\ vol = phi[7] /\ ratio = phi[8]
  OBVIOUS
<1>2. IsFrac(z) /\ IsFrac(vol) /\ IsFrac(ratio)
  BY <1>1, AbsIs
<1>3. PICK s : s = Updated(r, Softmax(Scores(z, vol, ratio)), now)
  OBVIOUS
<1>4. RegimeFits(s) /\ s.updated = now
  BY <1>2, <1>3, ScoredFits
<1>5. PICK predicted : predicted = Predicted(found, ForRegimeModel(phi), answer)
  OBVIOUS
<1>6. PICK p : p = CHOOSE q \in predicted : TRUE
  OBVIOUS
<1>7. CASE predicted # {}
  <2>1. p \in predicted
    BY <1>6, <1>7
  <2>2. PICK d : d = Drifted(Updated(r, p, now))
    OBVIOUS
  <2>3. RegimeFits(d) /\ d.updated = now
    BY <1>5, <2>1, <2>2, PredictedFits
  <2>4. RegimeOnTick(r, found, phi, answer, now) = d /\ RegimeOnTickForward(r, found, phi, answer, now) = d
    BY <1>5, <1>6, <1>7, <2>2 DEF RegimeOnTick, RegimeOnTickForward
  <2> QED BY <2>3, <2>4
<1>8. CASE predicted = {}
  <2>1. RegimeOnTick(r, found, phi, answer, now) = s
    BY <1>1, <1>3, <1>5, <1>8 DEF RegimeOnTick
  <2>2. RegimeOnTickForward(r, found, phi, answer, now) = IF found # {} THEN r ELSE s
    BY <1>1, <1>3, <1>5, <1>8 DEF RegimeOnTickForward
  <2> QED BY <1>4, <2>1, <2>2
<1> QED BY <1>7, <1>8

-----------------------------------------------------------------------------
(* The features the scores are read from *)

\* A square root of a fraction is a fraction that is not negative, and a return one of prices.
RootFits   == \A a : Reduced(a) => Reduced(Root(a)) /\ Zero \preceq Root(a)
ReturnFits == \A a, b : Reduced(a) /\ Reduced(b) /\ Zero \prec a => Reduced(LogReturn(a, b))

\* A count that is not zero divides.
LEMMA WholePositive ==
  ASSUME NEW n \in Nat \ {0}
  PROVE  Reduced(Whole(n)) /\ Zero \prec Whole(n)
<1>1. Reduced(Whole(n))
  BY WholeReduced
<1>2. Zero \prec Whole(n)
  BY DEF Zero, Whole, \prec
<1> QED BY <1>1, <1>2

\* Mean and variance of a window are fractions, also of an empty one.
LEMMA VarianceIs ==
  ASSUME NEW w, SumsOf(w)
  PROVE  Reduced(WindowVariance(w)) /\ Reduced(WindowMean(w))
<1>1. PICK q : q = w.values
  OBVIOUS
<1>2. q \in Seq(Lowest) /\ w.sum = SumFrac(q) /\ w.sumSq = SumFrac(SquaresOf(q))
  BY <1>1 DEF SumsOf
<1>3. Reduced(w.sum) /\ Reduced(w.sumSq)
  BY <1>2, SumsMore, WholeReduced, LowestIs
<1>4. PICK n : n = Len(q)
  OBVIOUS
<1>5. n \in Nat
  BY <1>2, <1>4
<1>6. Reduced(WindowMean(w))
  <2>1. CASE q = <<>>
    BY <1>1, <2>1, WholeReduced DEF WindowMean
  <2>2. CASE q # <<>>
    <3>1. n \in Nat \ {0}
      BY <1>2, <1>4, <2>2
    <3>2. Reduced(w.sum // Whole(n))
      BY <1>3, <3>1, WholePositive, OverTimes
    <3> QED BY <1>1, <1>4, <2>2, <3>2 DEF WindowMean
  <2> QED BY <2>1, <2>2
<1>7. CASE n < 2
  <2>1. WindowVariance(w) = Zero
    BY <1>1, <1>4, <1>7 DEF WindowVariance
  <2> QED BY <1>6, <2>1, WholeReduced
<1>8. CASE ~(n < 2)
  <2>1. PICK m : m = WindowMean(w) /\ Reduced(m)
    BY <1>6
  <2>2. WindowVariance(w) = (w.sumSq -- (Whole(n) ** (m ** m))) // (Whole(n) -- One)
    BY <1>1, <1>4, <1>8, <2>1 DEF WindowVariance
  <2>3. Reduced(m ** m)
    BY <2>1, Reduces, ReducedIs
  <2>4. Reduced(Whole(n))
    BY <1>5, WholeReduced
  <2>5. Reduced(Whole(n) ** (m ** m))
    BY <2>3, <2>4, Reduces, ReducedIs
  <2>6. Reduced(w.sumSq -- (Whole(n) ** (m ** m)))
    BY <1>3, <2>5, Reduces, ReducedIs
  <2>7. Whole(n) -- One = Whole(n - 1) /\ n - 1 \in Nat \ {0}
    <3>1. n - 1 \in Nat \ {0} /\ n - 1 \in Int
      BY <1>5, <1>8
    <3>2. Whole(n) -- One = Frac(n - 1, 1)
      BY <1>5 DEF --, Whole, One
    <3>3. Whole(n - 1) = Frac(n - 1, 1)
      BY <3>1, WholeIs
    <3> QED BY <3>1, <3>2, <3>3
  <2>8. Reduced((w.sumSq -- (Whole(n) ** (m ** m))) // Whole(n - 1))
    BY <2>6, <2>7, WholePositive, OverTimes
  <2> QED BY <1>6, <2>2, <2>7, <2>8
<1> QED BY <1>5, <1>7, <1>8

\* So are a distance from the mean in standard deviations,
LEMMA ZScoreIs ==
  ASSUME NEW w, SumsOf(w), NEW v, Reduced(v), RootFits
  PROVE  Reduced(ZScore(w, v))
<1>1. PICK s, m : s = Root(WindowVariance(w)) /\ m = WindowMean(w)
  OBVIOUS
<1>2. Reduced(s) /\ Zero \preceq s /\ Reduced(m)
  BY <1>1, VarianceIs DEF RootFits
<1>3. ZScore(w, v) = IF s = Zero THEN Zero ELSE (v -- m) // s
  BY <1>1 DEF ZScore
<1>4. Reduced(v -- m)
  BY <1>2, Reduces, ReducedIs
<1>5. s # Zero => Zero \prec s
  BY <1>2, NotNegative
<1>6. s # Zero => Reduced((v -- m) // s)
  BY <1>2, <1>4, <1>5, OverTimes
<1> QED BY <1>3, <1>6, WholeReduced

\* the mean of a sequence,
LEMMA MeanIs ==
  ASSUME NEW q, NEW n \in Nat, Len(q) = n, q = <<>> <=> n = 0, \A k \in 1 .. n : Reduced(q[k])
  PROVE  Reduced(MeanFrac(q))
<1>1. CASE n = 0
  BY <1>1, WholeReduced DEF MeanFrac
<1>2. CASE n # 0
  <2>1. Reduced(SumFrac(q))
    BY SumReduced
  <2>2. n \in Nat \ {0}
    BY <1>2
  <2>3. Reduced(SumFrac(q) // Whole(n))
    BY <2>1, <2>2, WholePositive, OverTimes
  <2> QED BY <1>2, <2>3 DEF MeanFrac
<1> QED BY <1>1, <1>2

\* its standard deviation
LEMMA DeviationIs ==
  ASSUME NEW q \in Seq(Lowest), RootFits
  PROVE  Reduced(DeviationOf(q))
<1>1. PICK n : n = Len(q)
  OBVIOUS
<1>2. n \in Nat /\ (q = <<>> <=> n = 0) /\ DOMAIN q = 1 .. n /\ \A k \in 1 .. n : q[k] \in Lowest
  BY <1>1
<1>3. \A k \in 1 .. n : Reduced(q[k])
  BY <1>2, LowestIs
<1>4. PICK m : m = MeanFrac(q) /\ Reduced(m)
  BY <1>1, <1>2, <1>3, MeanIs
<1>5. PICK r : r = SubSeq([i \in DOMAIN q |-> (q[i] -- m) ** (q[i] -- m)], 1, Len(q))
  OBVIOUS
<1>6. Len(r) = n /\ (r = <<>> <=> n = 0) /\ \A k \in 1 .. n : r[k] = (q[k] -- m) ** (q[k] -- m)
  BY <1>1, <1>2, <1>5
<1>7. ASSUME NEW k \in 1 .. n
      PROVE  Reduced(r[k])
  <2>1. Reduced(q[k] -- m)
    BY <1>3, <1>4, Reduces, ReducedIs
  <2> QED BY <1>6, <2>1, Reduces, ReducedIs
<1>8. Reduced(MeanFrac(r))
  BY <1>2, <1>6, <1>7, MeanIs
<1>9. Reduced(Root(MeanFrac(r)))
  BY <1>8 DEF RootFits
<1> QED BY <1>4, <1>5, <1>9 DEF DeviationOf, Deviation

\* and the volatility of the mids.
LEMMA VolatilityIs ==
  ASSUME NEW mids \in Seq(Lowest), NEW window \in Nat, RootFits, ReturnFits
  PROVE  Reduced(RealizedVolatility(mids, window))
<1>1. PICK len : len = Len(mids)
  OBVIOUS
<1>2. len \in Nat /\ \A k \in 1 .. len : mids[k] \in Lowest
  BY <1>1
<1>3. PICK n : n = IF window < len - 1 THEN window ELSE len - 1
  OBVIOUS
<1>4. CASE n < 1
  BY <1>1, <1>3, <1>4, WholeReduced DEF RealizedVolatility
<1>5. CASE ~(n < 1)
  <2>1. n \in Nat \ {0} /\ n <= len - 1
    BY <1>2, <1>3, <1>5
  <2>2. PICK r : r = [i \in 1 .. n |-> IF Zero \prec mids[(len - n + i) - 1]
                                      THEN LogReturn(mids[(len - n + i) - 1], mids[len - n + i])
                                      ELSE Zero]
    OBVIOUS
  <2>3. ASSUME NEW i \in 1 .. n
        PROVE  r[i] \in Lowest
    <3>1. len - n + i \in 1 .. len /\ (len - n + i) - 1 \in 1 .. len
      BY <1>2, <2>1
    <3>2. PICK a, b : a = mids[(len - n + i) - 1] /\ b = mids[len - n + i]
      OBVIOUS
    <3>3. Reduced(a) /\ Reduced(b)
      BY <1>2, <3>1, <3>2, LowestIs
    <3>4. Zero \prec a => Reduced(LogReturn(a, b))
      BY <3>3 DEF ReturnFits
    <3>5. r[i] = IF Zero \prec a THEN LogReturn(a, b) ELSE Zero
      BY <2>2, <3>2
    <3> QED BY <3>4, <3>5, LowestIs, WholeReduced
  <2>4. r \in Seq(Lowest) /\ Len(r) = n
    BY <2>1, <2>2, <2>3
  <2>5. Returns(mids, n) = SubSeq(r, 1, n)
    BY <1>1, <2>2 DEF Returns
  <2>6. SubSeq(r, 1, n) = r
    BY <2>1, <2>4
  <2>7. RealizedVolatility(mids, window) = DeviationOf(r)
    BY <1>1, <1>3, <1>5, <2>5, <2>6 DEF RealizedVolatility
  <2> QED BY <2>4, <2>7, DeviationIs
<1> QED BY <1>4, <1>5

\* Of two sequences, the places of the first are its own.
LEMMA FirstOfTwo ==
  ASSUME NEW S, NEW T, NEW q \in Seq(S), NEW r \in Seq(T)
  PROVE  /\ q \o r \in Seq(S \cup T) /\ Len(q \o r) = Len(q) + Len(r) /\ Len(q) \in Nat
         /\ Len(r) \in Nat
         /\ \A i \in 1 .. Len(q) : (q \o r)[i] = q[i]
OBVIOUS

\* The places of the second come after those of the first.
LEMMA SecondOfTwo ==
  ASSUME NEW S, NEW T, NEW q \in Seq(S), NEW r \in Seq(T), NEW i \in 1 .. Len(r)
  PROVE  (q \o r)[Len(q) + i] = r[i]
OBVIOUS

\* The vector starts with the groups of nine that come first.
Starts(q, s) ==
  /\ \E U : s \in Seq(U)
  /\ Len(s) >= 9
  /\ \A i \in 1 .. 9 : s[i] = q[i]

\* A vector of more than nine places starts with the first of two it is put together of.
LEMMA StartsWith ==
  ASSUME NEW S, NEW T, NEW q \in Seq(S), NEW r \in Seq(T), Len(q) >= 9, NEW s, s = q \o r
  PROVE  Starts(q, s)
<1>1. s \in Seq(S \cup T) /\ Len(s) = Len(q) + Len(r) /\ Len(q) \in Nat /\ Len(r) \in Nat
  BY FirstOfTwo
<1>2. \A i \in 1 .. Len(q) : s[i] = q[i]
  BY FirstOfTwo
<1>3. \A i \in 1 .. 9 : i \in 1 .. Len(q)
  BY <1>1
<1>4. \A i \in 1 .. 9 : s[i] = q[i]
  BY <1>2, <1>3
<1>5. Len(s) >= 9
  BY <1>1
<1>6. \E U : s \in Seq(U)
  BY <1>1
<1> QED BY <1>4, <1>5, <1>6 DEF Starts

\* The places of three features in the vector
LEMMA FeaturePlaces ==
  ASSUME NEW x, NEW m, NEW now, NEW phi, phi = Extract(x, m, Flat, now)
  PROVE  /\ phi[2] = ZScore(x.spreads, Spread(m)) /\ phi[7] = Volatilities(x).realizedVol
         /\ phi[8] = Volatilities(x).volRatio
<1>1. PICK z, v : z = ZScore(x.spreads, Spread(m)) /\ v = Volatilities(x)
  OBVIOUS
<1>2. PICK a, b, e, f, g : Micro(x, m, Flat.size, z, Obi(m)) = <<a, z, b, e, f, g>>
  BY DEF Micro
<1>3. PICK execs, impact : execs = Executions(x, now) /\ impact = SelfImpact(Flat.size, CurrentVol(x))
  OBVIOUS
<1>4. PICK micro : micro = <<a, z, b, e, f, g>>
  OBVIOUS
<1>5. PICK vols : vols = <<v.realizedVol, v.volRatio, v.volDecay>>
  OBVIOUS
<1>6. PICK clock, C : clock = Clock(x, m, Flat.held) /\ clock \in Seq(C)
  <2>1. PICK c1, c2, c3, c4, c5, c6, c7 : Clock(x, m, Flat.held) = <<c1, c2, c3, c4, c5, c6, c7>>
    BY DEF Clock
  <2>2. <<c1, c2, c3, c4, c5, c6, c7>> \in Seq({c1, c2, c3, c4, c5, c6, c7})
    OBVIOUS
  <2> QED BY <2>1, <2>2
<1>7. PICK held, H : held = <<Flat.size, Sign(Flat.size), Flat.entry, Flat.pnl>> /\ held \in Seq(H)
  <2>1. <<Flat.size, Sign(Flat.size), Flat.entry, Flat.pnl>>
          \in Seq({Flat.size, Sign(Flat.size), Flat.entry, Flat.pnl})
    OBVIOUS
  <2> QED BY <2>1
<1>8. PICK orders, O : orders = Orders(execs) /\ orders \in Seq(O)
  <2>1. PICK c1, c2, c3, c4, c5, c6 : Orders(execs) = <<c1, c2, c3, c4, c5, c6>>
    BY DEF Orders
  <2>2. <<c1, c2, c3, c4, c5, c6>> \in Seq({c1, c2, c3, c4, c5, c6})
    OBVIOUS
  <2> QED BY <2>1, <2>2
<1>9. PICK terms, R : terms = Terms(m, micro, v, execs.tradeIntensity, impact, Flat.held) /\ terms \in Seq(R)
  <2>1. PICK c1, c2, c3, c4, c5, c6 :
          Terms(m, micro, v, execs.tradeIntensity, impact, Flat.held) = <<c1, c2, c3, c4, c5, c6>>
    BY DEF Terms
  <2>2. <<c1, c2, c3, c4, c5, c6>> \in Seq({c1, c2, c3, c4, c5, c6})
    OBVIOUS
  <2> QED BY <2>1, <2>2
<1>10. PICK products, P : /\ products = Products(m, micro, v.realizedVol, Flat.size, SpikeAge(x, m), impact)
                          /\ products \in Seq(P)
  <2>1. PICK c1, c2, c3, c4, c5, c6 :
          Products(m, micro, v.realizedVol, Flat.size, SpikeAge(x, m), impact) = <<c1, c2, c3, c4, c5, c6>>
    BY DEF Products
  <2>2. <<c1, c2, c3, c4, c5, c6>> \in Seq({c1, c2, c3, c4, c5, c6})
    OBVIOUS
  <2> QED BY <2>1, <2>2
<1>11. phi = (((((micro \o vols) \o clock) \o held) \o orders) \o terms) \o products
  BY <1>1, <1>2, <1>3, <1>4, <1>5, <1>6, <1>7, <1>8, <1>9, <1>10 DEF Extract, Assembled
<1>12. PICK Q : micro \in Seq(Q) /\ vols \in Seq(Q)
  <2>1. PICK A : A = {a, z, b, e, f, g, v.realizedVol, v.volRatio, v.volDecay}
    OBVIOUS
  <2>2. micro \in Seq(A) /\ vols \in Seq(A)
    BY <1>4, <1>5, <2>1
  <2> QED BY <2>2
<1>13. PICK s1 : s1 = micro \o vols
  OBVIOUS
<1>15. s1 \in Seq(Q \cup Q) /\ Len(s1) >= 9 /\ s1[2] = z /\ s1[7] = v.realizedVol /\ s1[8] = v.volRatio
  <2>1. 2 \in 1 .. Len(micro) /\ 1 \in 1 .. Len(vols) /\ 2 \in 1 .. Len(vols)
    BY <1>4, <1>5
  <2>2. Len(micro) + 1 = 7 /\ Len(micro) + 2 = 8 /\ Len(micro) + Len(vols) >= 9
    BY <1>4, <1>5
  <2>3. /\ s1 \in Seq(Q \cup Q) /\ Len(s1) = Len(micro) + Len(vols)
        /\ \A i \in 1 .. Len(micro) : s1[i] = micro[i]
    BY <1>12, <1>13, FirstOfTwo
  <2>4. s1[Len(micro) + 1] = vols[1] /\ s1[Len(micro) + 2] = vols[2]
    BY <1>12, <1>13, <2>1, SecondOfTwo
  <2>5. s1[7] = vols[1] /\ s1[8] = vols[2] /\ s1[2] = micro[2]
    BY <2>1, <2>2, <2>3, <2>4
  <2>6. micro[2] = z /\ vols[1] = v.realizedVol /\ vols[2] = v.volRatio
    BY <1>4, <1>5
  <2> QED BY <2>2, <2>3, <2>5, <2>6
<1>16. PICK s2 : s2 = s1 \o clock
  OBVIOUS
<1>17. Starts(s1, s2)
  <2>1. clock \in Seq(C) /\ Len(s1) >= 9
    BY <1>6, <1>15
  <2> QED BY <1>15, <1>16, <2>1, StartsWith
<1>18. PICK s3 : s3 = s2 \o held
  OBVIOUS
<1>19. Starts(s2, s3)
  <2>1. held \in Seq(H) /\ Len(s2) >= 9 /\ \E U : s2 \in Seq(U)
    BY <1>7, <1>17 DEF Starts
  <2> QED BY <1>18, <2>1, StartsWith
<1>20. PICK s4 : s4 = s3 \o orders
  OBVIOUS
<1>21. Starts(s3, s4)
  <2>1. orders \in Seq(O) /\ Len(s3) >= 9 /\ \E U : s3 \in Seq(U)
    BY <1>8, <1>19 DEF Starts
  <2> QED BY <1>20, <2>1, StartsWith
<1>22. PICK s5 : s5 = s4 \o terms
  OBVIOUS
<1>23. Starts(s4, s5)
  <2>1. terms \in Seq(R) /\ Len(s4) >= 9 /\ \E U : s4 \in Seq(U)
    BY <1>9, <1>21 DEF Starts
  <2> QED BY <1>22, <2>1, StartsWith
<1>24. phi = s5 \o products
  BY <1>11, <1>13, <1>16, <1>18, <1>20, <1>22
<1>25. Starts(s5, phi)
  <2>1. products \in Seq(P) /\ Len(s5) >= 9 /\ \E U : s5 \in Seq(U)
    BY <1>10, <1>23 DEF Starts
  <2> QED BY <1>24, <2>1, StartsWith
<1>26. ASSUME NEW i \in 1 .. 9
       PROVE  phi[i] = s1[i]
  BY <1>17, <1>19, <1>21, <1>23, <1>25 DEF Starts
<1>27. phi[2] = s1[2] /\ phi[7] = s1[7] /\ phi[8] = s1[8]
  BY <1>26
<1> QED BY <1>1, <1>15, <1>27

\* The three features the scores are read from are fractions.
LEMMA FeaturesAre ==
  ASSUME NEW x, NEW m, NEW now, NEW phi, phi = Extract(x, m, Flat, now), SumsOf(x.spreads),
         x.mids \in Seq(Lowest), Reduced(Spread(m)), VolWindow \in Nat, VolLongWindow \in Nat,
         RootFits, ReturnFits
  PROVE  IsFrac(phi[2]) /\ IsFrac(phi[7]) /\ IsFrac(phi[8])
<1>1. Reduced(phi[2])
  BY FeaturePlaces, ZScoreIs
<1>2. PICK vol, long : vol = RealizedVolatility(x.mids, VolWindow)
                       /\ long = RealizedVolatility(x.mids, VolLongWindow)
  OBVIOUS
<1>3. Reduced(vol) /\ Reduced(long)
  BY <1>2, VolatilityIs
<1>4. Volatilities(x).realizedVol = vol /\ Volatilities(x).volRatio = Ratio(vol, long, One)
  BY <1>2 DEF Volatilities, CurrentVol
<1>5. Zero \prec long => Reduced(vol // long)
  BY <1>3, OverTimes
<1>6. Reduced(Ratio(vol, long, One))
  BY <1>5, WholeReduced DEF Ratio
<1>7. Reduced(phi[7]) /\ Reduced(phi[8])
  BY <1>3, <1>4, <1>6, FeaturePlaces
<1> QED BY <1>1, <1>7, ReducedIs

-----------------------------------------------------------------------------
(* What is kept of the executions *)

\* An entry of the statistics has a time and a value.
Entry == [time : Nat, value : Lowest]

\* In the order of their times
Timely(h) == \A i, j \in 1 .. Len(h) : i <= j => h[i].time <= h[j].time

\* The entries of a history that are young enough, which are its last.
Suffix(q, h, cutoff) ==
  \E k \in 0 .. Len(h) :
    /\ Len(q) = Len(h) - k
    /\ \A j \in 1 .. Len(q) : q[j] = h[k + j]
    /\ \A i \in 1 .. k : h[i].time < cutoff
    /\ \A i \in k + 1 .. Len(h) : h[i].time >= cutoff

\* What is pruned from a history in the order of time is what is too old.
LEMMA PrunedIs ==
  ASSUME NEW q \in Seq(Entry), NEW cutoff \in Nat, Timely(q)
  PROVE  PrunedFrom(q, cutoff) \in Seq(Entry) /\ Suffix(PrunedFrom(q, cutoff), q, cutoff)
<1>1. PICK n : n = Len(q)
  OBVIOUS
<1>2. n \in Nat /\ DOMAIN q = 1 .. n /\ \A i \in 1 .. n : q[i] \in Entry
  BY <1>1
<1>3. \A i \in 1 .. n : q[i].time \in Nat
  BY <1>2 DEF Entry
<1>4. PICK young : young = {i \in 1 .. n : q[i].time >= cutoff}
  OBVIOUS
<1>5. CASE young = {}
  <2>1. PrunedFrom(q, cutoff) = <<>>
    BY <1>2, <1>4, <1>5 DEF PrunedFrom
  <2>2. \A i \in 1 .. n : q[i].time < cutoff
    BY <1>3, <1>4, <1>5
  <2>3. n \in 0 .. n /\ Len(<<>>) = n - n /\ <<>> \in Seq(Entry) /\ \A i \in n + 1 .. n : FALSE
    BY <1>2
  <2>4. Suffix(<<>>, q, cutoff)
    BY <1>1, <2>2, <2>3 DEF Suffix
  <2> QED BY <2>1, <2>3, <2>4
<1>6. CASE young # {}
  <2>1. PICK m \in young : \A j \in young : m <= j
    <3>1. young \subseteq Nat
      BY <1>4
    <3> QED BY <1>6, <3>1, LeastNumber
  <2>2. PICK l : l = CHOOSE i \in young : \A j \in young : i <= j
    OBVIOUS
  <2>3. l \in young /\ \A j \in young : l <= j
    BY <2>1, <2>2
  <2>4. l \in 1 .. n /\ l \in Nat \ {0} /\ l <= n + 1
    BY <1>2, <1>4, <2>3
  <2>5. PICK p : p = SubSeq(q, l, n)
    OBVIOUS
  <2>6. PrunedFrom(q, cutoff) = p
    BY <1>1, <1>2, <1>4, <1>6, <2>2, <2>5 DEF PrunedFrom
  <2>7. p = [i \in 1 .. n - l + 1 |-> q[l + i - 1]]
    BY <1>1, <1>2, <2>4, <2>5, PartIs
  <2>8. PICK k : k = l - 1
    OBVIOUS
  <2>9. k \in 0 .. n /\ n - l + 1 = n - k /\ n - k \in Nat
    BY <1>2, <2>4, <2>8
  <2>10. \A i \in 1 .. n - k : l + i - 1 = k + i /\ k + i \in 1 .. n
    BY <1>2, <2>4, <2>8
  <2>11. p = [i \in 1 .. n - k |-> q[k + i]]
    BY <2>7, <2>9, <2>10
  <2>12. \A i \in 1 .. n - k : p[i] = q[k + i] /\ p[i] \in Entry
    BY <1>2, <2>10, <2>11
  <2>13. p \in Seq(Entry) /\ Len(p) = n - k
    BY <2>9, <2>11, <2>12
  <2>14. \A i \in 1 .. k : q[i].time < cutoff
    <3>1. \A i \in 1 .. k : i \in 1 .. n /\ ~(l <= i)
      BY <1>2, <2>4, <2>8
    <3> QED BY <1>3, <1>4, <2>3, <3>1
  <2>15. ASSUME NEW i \in k + 1 .. n
         PROVE  q[i].time >= cutoff
    <3>1. l <= i /\ i \in 1 .. n
      BY <2>4, <2>8
    <3>2. q[l].time <= q[i].time
      BY <1>1, <2>4, <3>1 DEF Timely
    <3>3. q[l].time >= cutoff
      BY <1>4, <2>3
    <3> QED BY <1>3, <2>4, <3>1, <3>2, <3>3
  <2>16. Suffix(p, q, cutoff)
    BY <1>1, <2>9, <2>12, <2>13, <2>14, <2>15 DEF Suffix
  <2> QED BY <2>6, <2>13, <2>16
<1> QED BY <1>5, <1>6

\* Pruning what was pruned before comes to pruning once at the later cutoff.
LEMMA SuffixOf ==
  ASSUME NEW r \in Seq(Entry), NEW q \in Seq(Entry), NEW h \in Seq(Entry),
         NEW a \in Nat, NEW b \in Nat, a <= b, Suffix(q, h, a), Suffix(r, q, b)
  PROVE  Suffix(r, h, b)
<1>1. PICK n, m, l : n = Len(h) /\ m = Len(q) /\ l = Len(r)
  OBVIOUS
<1>2. n \in Nat /\ m \in Nat /\ l \in Nat /\ \A i \in 1 .. n : h[i] \in Entry
  BY <1>1
<1>3. PICK k \in 0 .. n : /\ m = n - k /\ \A j \in 1 .. m : q[j] = h[k + j]
                          /\ \A i \in 1 .. k : h[i].time < a
                          /\ \A i \in k + 1 .. n : h[i].time >= a
  BY <1>1 DEF Suffix
<1>4. PICK t \in 0 .. m : /\ l = m - t /\ \A j \in 1 .. l : r[j] = q[t + j]
                          /\ \A i \in 1 .. t : q[i].time < b
                          /\ \A i \in t + 1 .. m : q[i].time >= b
  BY <1>1 DEF Suffix
<1>5. k + t \in 0 .. n /\ l = n - (k + t)
  BY <1>2, <1>3, <1>4
<1>6. ASSUME NEW j \in 1 .. l
      PROVE  r[j] = h[(k + t) + j]
  <2>1. t + j \in 1 .. m /\ k + (t + j) = (k + t) + j
    BY <1>2, <1>4, <1>3
  <2> QED BY <1>3, <1>4, <2>1
<1>7. \A i \in 1 .. n : h[i].time \in Nat
  BY <1>2 DEF Entry
<1>8. ASSUME NEW i \in 1 .. k + t
      PROVE  h[i].time < b
  <2>1. i \in 1 .. n
    BY <1>2, <1>5
  <2>2. CASE i \in 1 .. k
    BY <1>3, <1>7, <2>1, <2>2
  <2>3. CASE i \notin 1 .. k
    <3>1. i - k \in 1 .. t /\ i - k \in 1 .. m /\ k + (i - k) = i
      BY <1>2, <1>3, <1>4, <2>3
    <3>2. q[i - k] = h[i]
      BY <1>3, <3>1
    <3> QED BY <1>4, <3>1, <3>2
  <2> QED BY <2>2, <2>3
<1>9. ASSUME NEW i \in (k + t) + 1 .. n
      PROVE  h[i].time >= b
  <2>1. i - k \in t + 1 .. m /\ i - k \in 1 .. m /\ k + (i - k) = i
    BY <1>2, <1>3, <1>4
  <2>2. q[i - k] = h[i]
    BY <1>3, <2>1
  <2> QED BY <1>4, <2>1, <2>2
<1> QED BY <1>1, <1>5, <1>6, <1>8, <1>9 DEF Suffix

\* An entry that is young enough comes to what is kept and to the history.
LEMMA SuffixMore ==
  ASSUME NEW q \in Seq(Entry), NEW h \in Seq(Entry), NEW e \in Entry, NEW c \in Nat, e.time >= c,
         Suffix(q, h, c)
  PROVE  Suffix(Append(q, e), Append(h, e), c)
<1>1. PICK n, m : n = Len(h) /\ m = Len(q)
  OBVIOUS
<1>2. n \in Nat /\ m \in Nat
  BY <1>1
<1>3. PICK k \in 0 .. n : /\ m = n - k /\ \A j \in 1 .. m : q[j] = h[k + j]
                          /\ \A i \in 1 .. k : h[i].time < c
                          /\ \A i \in k + 1 .. n : h[i].time >= c
  BY <1>1 DEF Suffix
<1>4. PICK r, g : r = Append(q, e) /\ g = Append(h, e)
  OBVIOUS
<1>5. /\ Len(r) = m + 1 /\ r[m + 1] = e /\ \A i \in 1 .. m : r[i] = q[i]
      /\ Len(g) = n + 1 /\ g[n + 1] = e /\ \A i \in 1 .. n : g[i] = h[i]
  BY <1>1, <1>4, OneMore
<1>6. k \in 0 .. n + 1 /\ m + 1 = (n + 1) - k
  BY <1>2, <1>3
<1>7. ASSUME NEW j \in 1 .. m + 1
      PROVE  r[j] = g[k + j]
  <2>1. CASE j = m + 1
    <3>1. k + j = n + 1
      BY <1>2, <1>3, <2>1
    <3> QED BY <1>5, <2>1, <3>1
  <2>2. CASE j # m + 1
    <3>1. j \in 1 .. m /\ k + j \in 1 .. n
      BY <1>2, <1>3, <2>2
    <3> QED BY <1>3, <1>5, <3>1
  <2> QED BY <2>1, <2>2
<1>8. ASSUME NEW i \in 1 .. k
      PROVE  g[i].time < c
  <2>1. i \in 1 .. n
    BY <1>2, <1>3
  <2> QED BY <1>3, <1>5, <2>1
<1>9. ASSUME NEW i \in k + 1 .. n + 1
      PROVE  g[i].time >= c
  <2>1. CASE i = n + 1
    BY <1>5, <2>1
  <2>2. CASE i # n + 1
    <3>1. i \in k + 1 .. n /\ i \in 1 .. n
      BY <1>2, <1>3, <2>2
    <3> QED BY <1>3, <1>5, <3>1
  <2> QED BY <2>1, <2>2
<1> QED BY <1>4, <1>5, <1>6, <1>7, <1>8, <1>9 DEF Suffix

\* How many are kept
LEMMA SuffixLength ==
  ASSUME NEW q \in Seq(Entry), NEW h \in Seq(Entry), NEW c \in Nat, Suffix(q, h, c)
  PROVE  Len(q) = Cardinality({i \in 1 .. Len(h) : h[i].time >= c})
<1>1. PICK n, m : n = Len(h) /\ m = Len(q)
  OBVIOUS
<1>2. n \in Nat /\ m \in Nat /\ DOMAIN q = 1 .. m /\ \A i \in 1 .. n : h[i] \in Entry
  BY <1>1
<1>3. PICK k \in 0 .. n : /\ m = n - k /\ \A j \in 1 .. m : q[j] = h[k + j]
                          /\ \A i \in 1 .. k : h[i].time < c
                          /\ \A i \in k + 1 .. n : h[i].time >= c
  BY <1>1 DEF Suffix
<1>4. \A i \in 1 .. n : h[i].time \in Nat
  BY <1>2 DEF Entry
<1>5. {i \in 1 .. n : h[i].time >= c} = k + 1 .. n
  <2>1. \A i \in 1 .. n : i \in 1 .. k \/ i \in k + 1 .. n
    BY <1>3
  <2>2. k + 1 .. n \subseteq 1 .. n
    BY <1>3
  <2>3. \A i \in 1 .. k : ~(h[i].time >= c)
    <3>1. \A i \in 1 .. k : i \in 1 .. n
      BY <1>2, <1>3
    <3> QED BY <1>3, <1>4, <3>1
  <2> QED BY <1>3, <2>1, <2>2, <2>3
<1>6. m = Cardinality(k + 1 .. n)
  <2>1. Cardinality(k + 1 .. n) = IF k + 1 > n THEN 0 ELSE n - (k + 1) + 1
    BY <1>2, FS_Interval
  <2> QED BY <1>2, <1>3, <2>1
<1> QED BY <1>1, <1>5, <1>6

\* The entries told apart by a set count it, and these are the young ones among them.
Tells(h, B)      == \A i \in 1 .. Len(h) : h[i].value = Whole(IF i \in B THEN 1 ELSE 0)
Young(h, c, B)   == {i \in 1 .. Len(h) : h[i].time >= c /\ i \in B}

LEMMA SuffixCount ==
  ASSUME NEW q \in Seq(Entry), NEW h \in Seq(Entry), NEW c \in Nat, Suffix(q, h, c), NEW B,
         Tells(h, B)
  PROVE  Total(q) = Whole(Cardinality(Young(h, c, B)))
<1>1. PICK n, m : n = Len(h) /\ m = Len(q)
  OBVIOUS
<1>2. n \in Nat /\ m \in Nat /\ DOMAIN q = 1 .. m /\ \A i \in 1 .. n : h[i] \in Entry
  BY <1>1
<1>3. PICK k \in 0 .. n : /\ m = n - k /\ \A j \in 1 .. m : q[j] = h[k + j]
                          /\ \A i \in 1 .. k : h[i].time < c
                          /\ \A i \in k + 1 .. n : h[i].time >= c
  BY <1>1 DEF Suffix
<1>4. \A i \in 1 .. n : h[i].time \in Nat
  BY <1>2 DEF Entry
<1>5. {i \in 1 .. n : h[i].time >= c} = k + 1 .. n
  <2>1. \A i \in 1 .. n : i \in 1 .. k \/ i \in k + 1 .. n
    BY <1>3
  <2>2. k + 1 .. n \subseteq 1 .. n
    BY <1>3
  <2>3. \A i \in 1 .. k : ~(h[i].time >= c)
    <3>1. \A i \in 1 .. k : i \in 1 .. n
      BY <1>2, <1>3
    <3> QED BY <1>3, <1>4, <3>1
  <2> QED BY <1>3, <2>1, <2>2, <2>3
<1>7. PICK v : v = [i \in 1 .. m |-> q[i].value]
  OBVIOUS
<1>8. Len(v) = m /\ Total(q) = SumFrac(v)
  BY <1>2, <1>7 DEF Total
<1>9. PICK f : SumFrac(v) = f[m] /\ f[0] = Zero /\ \A j \in 1 .. m : f[j] = f[j - 1] ++ v[j]
  BY <1>2, <1>8, SumIs
<1> DEFINE C(j) == {i \in k + 1 .. k + j : i \in B}
           S == {j \in 0 .. m : f[j] = Whole(Cardinality(C(j))) /\ IsFiniteSet(C(j))}
<1>10. 0 \in S
  <2>1. C(0) = {}
    OBVIOUS
  <2>2. Whole(Cardinality({})) = Zero /\ IsFiniteSet({})
    BY FS_EmptySet DEF Zero
  <2>3. f[0] = Whole(Cardinality(C(0))) /\ IsFiniteSet(C(0))
    BY <1>9, <2>1, <2>2
  <2> QED BY <1>2, <2>3
<1>11. ASSUME NEW j \in 0 .. m - 1, j \in S
       PROVE  j + 1 \in S
  <2>1. j + 1 \in 1 .. m /\ (j + 1) - 1 = j /\ j + 1 \in 0 .. m /\ k + (j + 1) \in 1 .. n
    BY <1>2, <1>3
  <2>2. f[j + 1] = f[j] ++ v[j + 1]
    BY <1>9, <2>1
  <2>3. v[j + 1] = Whole(IF k + (j + 1) \in B THEN 1 ELSE 0)
    <3>1. k + (j + 1) \in 1 .. Len(h) /\ v[j + 1] = h[k + (j + 1)].value
      BY <1>1, <1>3, <1>7, <2>1
    <3> QED BY <3>1 DEF Tells
  <2>4. PICK D, E : D = C(j) /\ E = C(j + 1)
    OBVIOUS
  <2>5. IsFiniteSet(D) /\ f[j] = Whole(Cardinality(D))
    BY <1>11, <2>4
  <2>6. Cardinality(D) \in Nat
    BY <2>5, FS_CardinalityType
  <2>7. k + 1 .. k + (j + 1) = (k + 1 .. k + j) \cup {k + (j + 1)} /\ k + (j + 1) \notin k + 1 .. k + j
    BY <1>2, <1>3, <2>1
  <2>8. CASE k + (j + 1) \in B
    <3>1. E = D \cup {k + (j + 1)} /\ k + (j + 1) \notin D
      BY <2>4, <2>7, <2>8
    <3>2. IsFiniteSet(E) /\ Cardinality(E) = Cardinality(D) + 1
      BY <2>5, <3>1, FS_AddElement
    <3>3. f[j + 1] = Whole(Cardinality(D)) ++ One
      BY <2>2, <2>3, <2>5, <2>8 DEF One
    <3>4. Whole(Cardinality(D)) ++ One = Whole(Cardinality(D) + 1)
      <4>1. (Zero ++ Whole(Cardinality(D))) ++ One = Zero ++ Whole(Cardinality(D) + 1)
        BY <2>6, WholePlusOne, WholeReduced
      <4>2. /\ Zero ++ Whole(Cardinality(D)) = Whole(Cardinality(D))
            /\ Zero ++ Whole(Cardinality(D) + 1) = Whole(Cardinality(D) + 1)
        BY <2>6, PlusZero, WholeReduced
      <4> QED BY <4>1, <4>2
    <3> QED BY <2>1, <2>4, <3>2, <3>3, <3>4
  <2>9. CASE k + (j + 1) \notin B
    <3>1. E = D
      BY <2>4, <2>7, <2>9
    <3>2. f[j + 1] = Whole(Cardinality(D)) ++ Zero
      BY <2>2, <2>3, <2>5, <2>9 DEF Zero
    <3>3. f[j + 1] = Whole(Cardinality(D))
      BY <2>6, <3>2, PlusZero, WholeReduced
    <3> QED BY <2>1, <2>4, <2>5, <3>1, <3>3
  <2> QED BY <2>8, <2>9
<1> HIDE DEF S
<1>12. \A j \in 0 .. m : j \in S
  BY <1>2, <1>10, <1>11, 0 \in Int, m \in Int, IntervalInduction
<1>13. Total(q) = Whole(Cardinality(C(m)))
  BY <1>2, <1>8, <1>9, <1>12 DEF S
<1>14. C(m) = {i \in 1 .. n : h[i].time >= c /\ i \in B}
  <2>1. k + m = n
    BY <1>2, <1>3
  <2> QED BY <1>5, <2>1
<1> QED BY <1>1, <1>13, <1>14 DEF Young

\* Executions and quotes, and what the statistics keep of an execution
FillRecord  == [time : Nat, filled : BOOLEAN, slippage : Lowest, drift : Lowest, size : Lowest]
QuoteRecord == [time : Nat, bid : Lowest, ask : Lowest, bidSize : Lowest, askSize : Lowest]

PartOf(fill)      == Whole(IF fill.filled THEN 1 ELSE 0)
PartCount(fill)     == [time |-> fill.time, value |-> PartOf(fill)]
PartVolume(fill)    == [time |-> fill.time, value |-> fill.size ** PartOf(fill)]
CountsOf(list)  == [i \in 1 .. Len(list) |-> PartCount(list[i])]
VolumesOf(list) == [i \in 1 .. Len(list) |-> PartVolume(list[i])]

\* What is kept of the executions is a history of entries,
LEMMA EntriesTyped ==
  ASSUME NEW list \in Seq(FillRecord)
  PROVE  /\ \A f \in FillRecord : PartCount(f) \in Entry /\ PartVolume(f) \in Entry
         /\ CountsOf(list) \in Seq(Entry) /\ VolumesOf(list) \in Seq(Entry)
         /\ Len(CountsOf(list)) = Len(list) /\ Len(VolumesOf(list)) = Len(list)
         /\ \A i \in 1 .. Len(list) : /\ CountsOf(list)[i] = PartCount(list[i])
                                      /\ VolumesOf(list)[i] = PartVolume(list[i])
<1>1. ASSUME NEW f \in FillRecord
      PROVE  PartCount(f) \in Entry /\ PartVolume(f) \in Entry
  <2>1. Reduced(PartOf(f))
    BY WholeReduced DEF PartOf
  <2>2. f.time \in Nat /\ Reduced(f.size)
    BY LowestIs DEF FillRecord
  <2>3. Reduced(f.size ** PartOf(f))
    BY <2>1, <2>2, Reduces, ReducedIs
  <2> QED BY <2>1, <2>2, <2>3, LowestIs DEF PartCount, PartVolume, Entry
<1>2. PICK n : n = Len(list)
  OBVIOUS
<1>3. n \in Nat /\ \A i \in 1 .. n : list[i] \in FillRecord
  BY <1>2
<1>4. PICK c, v : c = CountsOf(list) /\ v = VolumesOf(list)
  OBVIOUS
<1>5. c = [i \in 1 .. n |-> PartCount(list[i])] /\ v = [i \in 1 .. n |-> PartVolume(list[i])]
  BY <1>2, <1>4 DEF CountsOf, VolumesOf
<1>6. \A i \in 1 .. n : c[i] = PartCount(list[i]) /\ v[i] = PartVolume(list[i]) /\ c[i] \in Entry /\ v[i] \in Entry
  BY <1>1, <1>3, <1>5
<1>7. c \in Seq(Entry) /\ v \in Seq(Entry) /\ Len(c) = n /\ Len(v) = n
  BY <1>3, <1>5, <1>6
<1> QED BY <1>1, <1>2, <1>4, <1>6, <1>7

\* longer by one with each execution.
LEMMA EntriesMore ==
  ASSUME NEW list \in Seq(FillRecord), NEW f \in FillRecord
  PROVE  /\ CountsOf(Append(list, f)) = Append(CountsOf(list), PartCount(f))
         /\ VolumesOf(Append(list, f)) = Append(VolumesOf(list), PartVolume(f))
<1>1. PICK n : n = Len(list)
  OBVIOUS
<1>2. PICK l : l = Append(list, f)
  OBVIOUS
<1>3. n \in Nat /\ l \in Seq(FillRecord) /\ Len(l) = n + 1 /\ l[n + 1] = f /\ \A i \in 1 .. n : l[i] = list[i]
  BY <1>1, <1>2, OneMore
<1>4. PICK c, v : c = CountsOf(list) /\ v = VolumesOf(list)
  OBVIOUS
<1>5. /\ c \in Seq(Entry) /\ v \in Seq(Entry) /\ Len(c) = n /\ Len(v) = n
      /\ PartCount(f) \in Entry /\ PartVolume(f) \in Entry
      /\ \A i \in 1 .. n : c[i] = PartCount(list[i]) /\ v[i] = PartVolume(list[i])
  BY <1>1, <1>4, EntriesTyped
<1>6. CountsOf(l) = [i \in 1 .. n + 1 |-> PartCount(l[i])] /\ VolumesOf(l) = [i \in 1 .. n + 1 |-> PartVolume(l[i])]
  BY <1>3 DEF CountsOf, VolumesOf
<1>7. Append(c, PartCount(f)) = [i \in 1 .. n + 1 |-> IF i = n + 1 THEN PartCount(f) ELSE c[i]]
  BY <1>5, AppendIs
<1>8. Append(v, PartVolume(f)) = [i \in 1 .. n + 1 |-> IF i = n + 1 THEN PartVolume(f) ELSE v[i]]
  BY <1>5, AppendIs
<1>9. \A i \in 1 .. n + 1 : i # n + 1 => i \in 1 .. n
  BY <1>3
<1>10. \A i \in 1 .. n + 1 : /\ PartCount(l[i]) = IF i = n + 1 THEN PartCount(f) ELSE c[i]
                             /\ PartVolume(l[i]) = IF i = n + 1 THEN PartVolume(f) ELSE v[i]
  BY <1>3, <1>5, <1>9
<1>11. CountsOf(l) = Append(c, PartCount(f))
  BY <1>6, <1>7, <1>10
<1>12. VolumesOf(l) = Append(v, PartVolume(f))
  BY <1>6, <1>8, <1>10
<1> QED BY <1>2, <1>4, <1>11, <1>12

\* The statistics have these fields.
StatsShape(s) ==
  s \in [fillRate : {s.fillRate}, slippage : {s.slippage}, rejectRate : {s.rejectRate},
         drift : {s.drift}, counts : {s.counts}, volumes : {s.volumes}, first : {s.first}]

\* Of the executions a statistic keeps those from a time on.
StatsFit(s, list, cutoff) ==
  /\ StatsShape(s)
  /\ s.counts \in Seq(Entry) /\ Suffix(s.counts, CountsOf(list), cutoff)
  /\ s.volumes \in Seq(Entry) /\ Suffix(s.volumes, VolumesOf(list), cutoff)

\* They do so at the start, there being none,
LEMMA NewStatsFit == StatsFit(NewStats, <<>>, 0)
<1>1. NewStats \in [fillRate : {Zero}, slippage : {Zero}, rejectRate : {Zero}, drift : {Zero},
                    counts : {<<>>}, volumes : {<<>>}, first : {{}}]
  BY DEF NewStats
<1>2. CountsOf(<<>>) = <<>> /\ VolumesOf(<<>>) = <<>>
  BY DEF CountsOf, VolumesOf
<1>3. Suffix(<<>>, <<>>, 0) /\ <<>> \in Seq(Entry)
  BY DEF Suffix
<1>4. PICK s : s = NewStats
  OBVIOUS
<1>5. StatsShape(s) /\ s.counts = <<>> /\ s.volumes = <<>>
  BY <1>1, <1>4 DEF StatsShape
<1> QED BY <1>2, <1>3, <1>4, <1>5 DEF StatsFit

\* on an execution that is young enough,
LEMMA UpdateFits ==
  ASSUME NEW list \in Seq(FillRecord), NEW f \in FillRecord, NEW c \in Nat, f.time >= c,
         NEW s, StatsFit(s, list, c)
  PROVE  StatsFit(UpdateStats(s, f), Append(list, f), c)
<1>1. PICK p : p = PartOf(f)
  OBVIOUS
<1>2. PICK a1, a2, a3, a4, a5 :
        UpdateStats(s, f)
          = [fillRate |-> a1, slippage |-> a2, rejectRate |-> a3, drift |-> a4,
             counts |-> Append(s.counts, PartCount(f)), volumes |-> Append(s.volumes, PartVolume(f)),
             first |-> a5]
  BY DEF UpdateStats, PartCount, PartVolume, PartOf
<1>3. PICK u : u = UpdateStats(s, f)
  OBVIOUS
<1>4. StatsShape(u) /\ u.counts = Append(s.counts, PartCount(f)) /\ u.volumes = Append(s.volumes, PartVolume(f))
  BY <1>2, <1>3 DEF StatsShape
<1>5. /\ PartCount(f) \in Entry /\ PartVolume(f) \in Entry /\ PartCount(f).time >= c /\ PartVolume(f).time >= c
      /\ CountsOf(list) \in Seq(Entry) /\ VolumesOf(list) \in Seq(Entry)
  BY EntriesTyped DEF PartCount, PartVolume
<1>6. /\ s.counts \in Seq(Entry) /\ Suffix(s.counts, CountsOf(list), c)
      /\ s.volumes \in Seq(Entry) /\ Suffix(s.volumes, VolumesOf(list), c)
  BY DEF StatsFit
<1>7. /\ Suffix(Append(s.counts, PartCount(f)), Append(CountsOf(list), PartCount(f)), c)
      /\ Append(s.counts, PartCount(f)) \in Seq(Entry)
  BY <1>5, <1>6, SuffixMore
<1>8. /\ Suffix(Append(s.volumes, PartVolume(f)), Append(VolumesOf(list), PartVolume(f)), c)
      /\ Append(s.volumes, PartVolume(f)) \in Seq(Entry)
  BY <1>5, <1>6, SuffixMore
<1>9. /\ u.counts \in Seq(Entry) /\ Suffix(u.counts, CountsOf(Append(list, f)), c)
      /\ u.volumes \in Seq(Entry) /\ Suffix(u.volumes, VolumesOf(Append(list, f)), c)
  BY <1>4, <1>7, <1>8, EntriesMore
<1> QED BY <1>3, <1>4, <1>9 DEF StatsFit

\* What is kept is in the order of time.
LEMMA SuffixOrdered ==
  ASSUME NEW q \in Seq(Entry), NEW h \in Seq(Entry), NEW c \in Nat, Suffix(q, h, c), Timely(h)
  PROVE  Timely(q)
<1>1. PICK n, m : n = Len(h) /\ m = Len(q)
  OBVIOUS
<1>2. n \in Nat /\ m \in Nat
  BY <1>1
<1>3. PICK k \in 0 .. n : m = n - k /\ \A j \in 1 .. m : q[j] = h[k + j]
  BY <1>1 DEF Suffix
<1>4. ASSUME NEW i \in 1 .. m, NEW j \in 1 .. m, i <= j
      PROVE  q[i].time <= q[j].time
  <2>1. k + i \in 1 .. n /\ k + j \in 1 .. n /\ k + i <= k + j
    BY <1>2, <1>3, <1>4
  <2>2. h[k + i].time <= h[k + j].time
    BY <1>1, <2>1 DEF Timely
  <2> QED BY <1>3, <2>2
<1> QED BY <1>1, <1>4 DEF Timely

\* and when a tick prunes what became too old.
LEMMA PruneFits ==
  ASSUME NEW list \in Seq(FillRecord), Timely(list), NEW b \in Nat, NEW c \in Nat, b <= c,
         NEW s, StatsFit(s, list, b)
  PROVE  StatsFit(Prune(s, c), list, c)
<1>1. PICK q, v : q = PrunedFrom(s.counts, c) /\ v = PrunedFrom(s.volumes, c)
  OBVIOUS
<1>2. Prune(s, c) = [s EXCEPT !.counts = q, !.volumes = v]
  BY <1>1 DEF Prune
<1>3. [s EXCEPT !.counts = q, !.volumes = v]
        \in [fillRate : {s.fillRate}, slippage : {s.slippage}, rejectRate : {s.rejectRate},
             drift : {s.drift}, counts : {q}, volumes : {v}, first : {s.first}]
  BY DEF StatsFit, StatsShape
<1>4. PICK u : u = Prune(s, c)
  OBVIOUS
<1>5. StatsShape(u) /\ u.counts = q /\ u.volumes = v
  BY <1>2, <1>3, <1>4 DEF StatsShape
<1>6. PICK ch, vh : ch = CountsOf(list) /\ vh = VolumesOf(list)
  OBVIOUS
<1>7. /\ ch \in Seq(Entry) /\ vh \in Seq(Entry) /\ Len(ch) = Len(list) /\ Len(vh) = Len(list)
      /\ \A i \in 1 .. Len(list) : ch[i].time = list[i].time /\ vh[i].time = list[i].time
  <2>1. /\ ch \in Seq(Entry) /\ vh \in Seq(Entry) /\ Len(ch) = Len(list) /\ Len(vh) = Len(list)
        /\ \A i \in 1 .. Len(list) : ch[i] = PartCount(list[i]) /\ vh[i] = PartVolume(list[i])
    BY <1>6, EntriesTyped
  <2>2. \A f : PartCount(f).time = f.time /\ PartVolume(f).time = f.time
    BY DEF PartCount, PartVolume
  <2> QED BY <2>1, <2>2
<1>8. Timely(ch) /\ Timely(vh)
  BY <1>7 DEF Timely
<1>9. /\ s.counts \in Seq(Entry) /\ Suffix(s.counts, ch, b)
      /\ s.volumes \in Seq(Entry) /\ Suffix(s.volumes, vh, b)
  BY <1>6 DEF StatsFit
<1>10. q \in Seq(Entry) /\ Suffix(q, ch, c)
  <2>1. Timely(s.counts)
    BY <1>7, <1>8, <1>9, SuffixOrdered
  <2>2. q \in Seq(Entry) /\ Suffix(q, s.counts, c)
    BY <1>1, <1>9, <2>1, PrunedIs
  <2> QED BY <1>7, <1>9, <2>2, SuffixOf
<1>11. v \in Seq(Entry) /\ Suffix(v, vh, c)
  <2>1. Timely(s.volumes)
    BY <1>7, <1>8, <1>9, SuffixOrdered
  <2>2. v \in Seq(Entry) /\ Suffix(v, s.volumes, c)
    BY <1>1, <1>9, <2>1, PrunedIs
  <2> QED BY <1>7, <1>9, <2>2, SuffixOf
<1> QED BY <1>4, <1>5, <1>6, <1>10, <1>11 DEF StatsFit

\* Spreads, imbalances and mids of the quotes
SpreadsOf(list) == [i \in 1 .. Len(list) |-> Spread(list[i])]
ObisOf(list)    == [i \in 1 .. Len(list) |-> Obi(list[i])]
MidsOf(list)    == [i \in 1 .. Len(list) |-> Mid(list[i])]

\* They are fractions,
LEMMA QuoteValues ==
  ASSUME NEW m \in QuoteRecord
  PROVE  Spread(m) \in Lowest /\ Obi(m) \in Lowest /\ Mid(m) \in Lowest
<1>1. Reduced(m.bid) /\ Reduced(m.ask) /\ Reduced(m.bidSize) /\ Reduced(m.askSize)
  BY LowestIs DEF QuoteRecord
<1>2. PICK a, b, c, d : a = m.bid /\ b = m.ask /\ c = m.bidSize /\ d = m.askSize
  OBVIOUS
<1>3. Reduced(b -- a) /\ Reduced(c ++ d) /\ Reduced(d -- c) /\ Reduced(a ++ b)
  BY <1>1, <1>2, Reduces, ReducedIs
<1>4. Zero \prec (c ++ d) => Reduced((d -- c) // (c ++ d))
  BY <1>3, OverTimes
<1>5. Reduced((a ++ b) // Whole(2))
  BY <1>3, WholePositive, OverTimes
<1>6. Reduced(Spread(m)) /\ Reduced(Mid(m))
  BY <1>2, <1>3, <1>5 DEF Spread, Mid
<1>7. Reduced(Obi(m))
  BY <1>2, <1>4, WholeReduced DEF Obi, Depth, Ratio
<1> QED BY <1>6, <1>7, LowestIs

\* sequences of them
LEMMA ValuesTyped ==
  ASSUME NEW list \in Seq(QuoteRecord)
  PROVE  SpreadsOf(list) \in Seq(Lowest) /\ ObisOf(list) \in Seq(Lowest) /\ MidsOf(list) \in Seq(Lowest)
<1>1. PICK n : n = Len(list)
  OBVIOUS
<1>2. n \in Nat /\ \A i \in 1 .. n : list[i] \in QuoteRecord
  BY <1>1
<1>3. \A i \in 1 .. n : Spread(list[i]) \in Lowest /\ Obi(list[i]) \in Lowest /\ Mid(list[i]) \in Lowest
  BY <1>2, QuoteValues
<1> QED BY <1>1, <1>2, <1>3 DEF SpreadsOf, ObisOf, MidsOf

\* and longer by one with each quote.
LEMMA ValuesMore ==
  ASSUME NEW list \in Seq(QuoteRecord), NEW m \in QuoteRecord
  PROVE  /\ SpreadsOf(Append(list, m)) = Append(SpreadsOf(list), Spread(m))
         /\ ObisOf(Append(list, m)) = Append(ObisOf(list), Obi(m))
         /\ MidsOf(Append(list, m)) = Append(MidsOf(list), Mid(m))
<1>1. PICK n, l : n = Len(list) /\ l = Append(list, m)
  OBVIOUS
<1>2. n \in Nat /\ Len(l) = n + 1 /\ l[n + 1] = m /\ \A i \in 1 .. n : l[i] = list[i]
  BY <1>1, OneMore
<1>3. PICK s, o, d : s = SpreadsOf(list) /\ o = ObisOf(list) /\ d = MidsOf(list)
  OBVIOUS
<1>4. /\ s \in Seq(Lowest) /\ o \in Seq(Lowest) /\ d \in Seq(Lowest)
      /\ Spread(m) \in Lowest /\ Obi(m) \in Lowest /\ Mid(m) \in Lowest
  BY <1>3, ValuesTyped, QuoteValues
<1>5. /\ s = [i \in 1 .. n |-> Spread(list[i])] /\ o = [i \in 1 .. n |-> Obi(list[i])]
      /\ d = [i \in 1 .. n |-> Mid(list[i])]
  BY <1>1, <1>3 DEF SpreadsOf, ObisOf, MidsOf
<1>6. Len(s) = n /\ Len(o) = n /\ Len(d) = n
  BY <1>2, <1>5
<1>7. /\ Append(s, Spread(m)) = [i \in 1 .. n + 1 |-> IF i = n + 1 THEN Spread(m) ELSE s[i]]
      /\ Append(o, Obi(m)) = [i \in 1 .. n + 1 |-> IF i = n + 1 THEN Obi(m) ELSE o[i]]
      /\ Append(d, Mid(m)) = [i \in 1 .. n + 1 |-> IF i = n + 1 THEN Mid(m) ELSE d[i]]
  <2>1. Append(s, Spread(m)) = [i \in 1 .. n + 1 |-> IF i = n + 1 THEN Spread(m) ELSE s[i]]
    BY <1>4, <1>6, AppendIs
  <2>2. Append(o, Obi(m)) = [i \in 1 .. n + 1 |-> IF i = n + 1 THEN Obi(m) ELSE o[i]]
    BY <1>4, <1>6, AppendIs
  <2>3. Append(d, Mid(m)) = [i \in 1 .. n + 1 |-> IF i = n + 1 THEN Mid(m) ELSE d[i]]
    BY <1>4, <1>6, AppendIs
  <2> QED BY <2>1, <2>2, <2>3
<1>8. \A i \in 1 .. n + 1 : i # n + 1 => i \in 1 .. n
  BY <1>2
<1>9. \A i \in 1 .. n + 1 : /\ Spread(l[i]) = IF i = n + 1 THEN Spread(m) ELSE s[i]
                            /\ Obi(l[i]) = IF i = n + 1 THEN Obi(m) ELSE o[i]
                            /\ Mid(l[i]) = IF i = n + 1 THEN Mid(m) ELSE d[i]
  BY <1>2, <1>5, <1>8
<1>10. /\ SpreadsOf(l) = [i \in 1 .. n + 1 |-> Spread(l[i])] /\ ObisOf(l) = [i \in 1 .. n + 1 |-> Obi(l[i])]
       /\ MidsOf(l) = [i \in 1 .. n + 1 |-> Mid(l[i])]
  BY <1>2 DEF SpreadsOf, ObisOf, MidsOf
<1>11. SpreadsOf(l) = Append(s, Spread(m))
  BY <1>7, <1>9, <1>10
<1>12. ObisOf(l) = Append(o, Obi(m))
  BY <1>7, <1>9, <1>10
<1>13. MidsOf(l) = Append(d, Mid(m))
  BY <1>7, <1>9, <1>10
<1> QED BY <1>1, <1>3, <1>11, <1>12, <1>13

\* An extractor has these fields.
ExtractorShape(x) ==
  x \in [spreads : {x.spreads}, obis : {x.obis}, mids : {x.mids}, prevVol : {x.prevVol},
         volEmaLong : {x.volEmaLong}, stats : {x.stats}, prevObi : {x.prevObi},
         lastSpike : {x.lastSpike}, lastDepth : {x.lastDepth}, prevDepth : {x.prevDepth},
         open : {x.open}, active : {x.active}, gapHold : {x.gapHold}]

\* The windows are those of the last quotes, and their sums are their own.
WindowsFit(x, list) ==
  /\ ExtractorShape(x)
  /\ SumsOf(x.spreads) /\ x.spreads.values = LastOf(SpreadsOf(list), SpreadWindow)
  /\ SumsOf(x.obis) /\ x.obis.values = LastOf(ObisOf(list), ObiWindow)
  /\ x.mids = LastOf(MidsOf(list), MidCapacity)

\* Windows hold at least one value.
WindowSizes ==
  SpreadWindow \in Nat \ {0} /\ ObiWindow \in Nat \ {0} /\ MidCapacity \in Nat \ {0}

\* Nothing is the last of nothing.
LEMMA LastOfNone ==
  ASSUME NEW n \in Nat
  PROVE  LastOf(<<>>, n) = <<>>
<1>1. SubSeq(<<>>, 1, 0) = <<>> /\ Len(<<>>) = 0 /\ ~(0 > n)
  OBVIOUS
<1> QED BY <1>1 DEF LastOf

\* The windows start empty,
LEMMA NewWindowsFit ==
  ASSUME WindowSizes
  PROVE  WindowsFit(NewExtractor, <<>>) /\ NewExtractor.stats = NewStats
<1>1. SpreadsOf(<<>>) = <<>> /\ ObisOf(<<>>) = <<>> /\ MidsOf(<<>>) = <<>>
  BY DEF SpreadsOf, ObisOf, MidsOf
<1>2. SquaresOf(<<>>) = <<>>
  BY DEF SquaresOf
<1>3. SumsOf(NewWindow) /\ NewWindow.values = <<>>
  BY <1>2, SumOne DEF SumsOf, NewWindow
<1>4. PICK x : x = NewExtractor
  OBVIOUS
<1>5. x \in [spreads : {NewWindow}, obis : {NewWindow}, mids : {<<>>}, prevVol : {Zero},
             volEmaLong : {Zero}, stats : {NewStats}, prevObi : {Zero}, lastSpike : {0},
             lastDepth : {Zero}, prevDepth : {Zero}, open : {0}, active : {{}}, gapHold : {FALSE}]
  BY <1>4 DEF NewExtractor
<1>6. ExtractorShape(x) /\ x.spreads = NewWindow /\ x.obis = NewWindow /\ x.mids = <<>> /\ x.stats = NewStats
  BY <1>5 DEF ExtractorShape
<1>7. /\ LastOf(<<>>, SpreadWindow) = <<>> /\ LastOf(<<>>, ObiWindow) = <<>>
      /\ LastOf(<<>>, MidCapacity) = <<>>
  BY LastOfNone DEF WindowSizes
<1> QED BY <1>1, <1>3, <1>4, <1>6, <1>7 DEF WindowsFit

\* and each quote goes to all of them; the statistics are pruned at the quote's time.
LEMMA MarketFits ==
  ASSUME WindowSizes, NEW list \in Seq(QuoteRecord), NEW m \in QuoteRecord, NEW x, WindowsFit(x, list)
  PROVE  /\ WindowsFit(ProcessMarket(x, m), Append(list, m))
         /\ ProcessMarket(x, m).stats = Prune(x.stats, Cutoff(m.time))
<1>1. PICK s, o, d : s = Roll(x.spreads, SpreadWindow, Spread(m)) /\ o = Roll(x.obis, ObiWindow, Obi(m))
                     /\ d = PushMid(x.mids, Mid(m))
  OBVIOUS
<1>2. PICK y : y = ProcessMarket(x, m)
  OBVIOUS
<1>a. PICK v, p, l : v = RealizedVolatility(x.mids, VolWindow) /\ p = Previous(o, Obi(m)) /\ l = Depth(m)
  OBVIOUS
<1>b. PICK k, n, a : /\ k = IF Spike(x, s, d) THEN m.time ELSE x.lastSpike
                     /\ n = IF x.active = {SessionOf(m.time)} THEN x.open ELSE m.time
                     /\ a = {SessionOf(m.time)}
  OBVIOUS
<1>c. PICK t : t = Prune(x.stats, Cutoff(m.time))
  OBVIOUS
<1>3. /\ y = [x EXCEPT !.spreads = s, !.obis = o, !.mids = d, !.prevVol = v, !.prevObi = p,
                       !.prevDepth = x.lastDepth, !.lastDepth = l, !.lastSpike = k, !.open = n,
                       !.active = a, !.stats = t]
      /\ t = Prune(x.stats, Cutoff(m.time))
  <2>1. y = Moved(x, m, s, o, d)
    BY <1>1, <1>2 DEF ProcessMarket
  <2>2. ExtractorShape(x)
    BY DEF WindowsFit
  <2>3. Moved(x, m, s, o, d)
          = [x EXCEPT !.spreads = s, !.obis = o, !.mids = d, !.prevVol = v, !.prevObi = p,
                       !.prevDepth = x.lastDepth, !.lastDepth = l, !.lastSpike = k, !.open = n,
                       !.active = a, !.stats = t]
    BY <1>a, <1>b, <1>c, <2>2 DEF Moved, ExtractorShape
  <2> QED BY <1>c, <2>1, <2>3
<1>4. [x EXCEPT !.spreads = s, !.obis = o, !.mids = d, !.prevVol = v, !.prevObi = p,
                !.prevDepth = x.lastDepth, !.lastDepth = l, !.lastSpike = k, !.open = n,
                !.active = a, !.stats = t]
        \in [spreads : {s}, obis : {o}, mids : {d}, prevVol : {v}, volEmaLong : {x.volEmaLong},
             stats : {t}, prevObi : {p}, lastSpike : {k}, lastDepth : {l},
             prevDepth : {x.lastDepth}, open : {n}, active : {a}, gapHold : {x.gapHold}]
  BY DEF WindowsFit, ExtractorShape
<1>5. y \in [spreads : {s}, obis : {o}, mids : {d}, prevVol : {v}, volEmaLong : {x.volEmaLong},
             stats : {t}, prevObi : {p}, lastSpike : {k}, lastDepth : {l},
             prevDepth : {x.lastDepth}, open : {n}, active : {a}, gapHold : {x.gapHold}]
  BY <1>3, <1>4
<1>6. ExtractorShape(y) /\ y.spreads = s /\ y.obis = o /\ y.mids = d /\ y.stats = t
  BY <1>5 DEF ExtractorShape
<1>7. /\ SpreadsOf(list) \in Seq(Lowest) /\ ObisOf(list) \in Seq(Lowest) /\ MidsOf(list) \in Seq(Lowest)
      /\ Spread(m) \in Lowest /\ Obi(m) \in Lowest /\ Mid(m) \in Lowest
  BY ValuesTyped, QuoteValues
<1>8. SumsOf(s) /\ s.values = LastOf(Append(SpreadsOf(list), Spread(m)), SpreadWindow)
  <2>1. SumsOf(x.spreads) /\ x.spreads.values = LastOf(SpreadsOf(list), SpreadWindow) /\ SpreadWindow \in Nat \ {0}
    BY DEF WindowsFit, WindowSizes
  <2> QED BY <1>1, <1>7, <2>1, WindowRolls
<1>9. SumsOf(o) /\ o.values = LastOf(Append(ObisOf(list), Obi(m)), ObiWindow)
  <2>1. SumsOf(x.obis) /\ x.obis.values = LastOf(ObisOf(list), ObiWindow) /\ ObiWindow \in Nat \ {0}
    BY DEF WindowsFit, WindowSizes
  <2> QED BY <1>1, <1>7, <2>1, WindowRolls
<1>10. d = LastOf(Append(MidsOf(list), Mid(m)), MidCapacity)
  <2>1. x.mids = LastOf(MidsOf(list), MidCapacity) /\ MidCapacity \in Nat \ {0}
    BY DEF WindowsFit, WindowSizes
  <2> QED BY <1>1, <1>7, <2>1, MidsMore
<1> QED BY <1>2, <1>3, <1>6, <1>8, <1>9, <1>10, ValuesMore DEF WindowsFit

\* Sizes and inputs of the market are of the kinds the code takes: unsigned numbers and prices.
MarketFitting ==
  /\ WindowSizes /\ NRegimes \in Nat \ {0}
  /\ VolWindow \in Nat /\ VolLongWindow \in Nat /\ IntensityWindow \in Nat
  /\ Steps \subseteq Nat /\ Quotes \subseteq QuoteRecord /\ Fills \subseteq FillRecord

\* The functions of f64 answer fractions, and the model of regimes answers weights that are not all zero.
MathFitting ==
  RootFits /\ ReturnFits /\ ExponentialFits /\ \A answer \in Answers : AnswerFits(answer)

\* The inductive invariant: each window holds the last of the quotes with its sums, the statistics the
\* young executions, in order of time, and the posterior is a distribution.
RegimeInv ==
  /\ quotes \in Seq(QuoteRecord)
  /\ fills \in Seq(FillRecord) /\ Timely(fills)
  /\ \A i \in 1 .. Len(fills) : fills[i].time <= Now
  /\ WindowsFit(extractor, quotes)
  /\ StatsFit(extractor.stats, fills, Cutoff(Now))
  /\ RegimeFits(regime)
  /\ host = "backtest" => regime.updated = Now

\* The cutoff moves with the time.
LEMMA CutoffIs ==
  ASSUME IntensityWindow \in Nat, NEW a \in Nat, NEW b \in Nat, a <= b
  PROVE  Cutoff(a) \in Nat /\ Cutoff(a) <= Cutoff(b) /\ Cutoff(a) <= a
BY DEF Cutoff

\* The time is that of the last quote.
LEMMA NowIs ==
  ASSUME quotes \in Seq(QuoteRecord)
  PROVE  Now \in Nat
<1>1. CASE quotes = <<>>
  BY <1>1 DEF Now
<1>2. CASE quotes # <<>>
  <2>1. PICK n : n = Len(quotes)
    OBVIOUS
  <2>2. n \in 1 .. n /\ quotes[n] \in QuoteRecord
    BY <1>2, <2>1
  <2> QED BY <1>2, <2>1, <2>2 DEF Now, Last, QuoteRecord
<1> QED BY <1>1, <1>2

\* The invariant holds at the start,
LEMMA RegimeInitInv ==
  ASSUME MarketFitting, NEW hosts, NEW searches
  PROVE  RegimeInit(hosts, searches) => RegimeInv
<1> SUFFICES ASSUME RegimeInit(hosts, searches) PROVE RegimeInv
  OBVIOUS
<1>1. /\ extractor = NewExtractor /\ regime = NewRegime /\ quotes = <<>> /\ fills = <<>>
  BY DEF RegimeInit
<1>2. Now = 0 /\ Cutoff(0) = 0
  BY <1>1 DEF Now, Cutoff, MarketFitting
<1>3. WindowsFit(NewExtractor, <<>>) /\ NewExtractor.stats = NewStats
  BY NewWindowsFit DEF MarketFitting
<1>4. RegimeFits(NewRegime) /\ NewRegime.updated = 0
  BY NewFits DEF MarketFitting
<1>5. /\ <<>> \in Seq(QuoteRecord) /\ <<>> \in Seq(FillRecord) /\ Timely(<<>>)
      /\ \A i \in 1 .. Len(<<>>) : FALSE
  BY DEF Timely
<1>6. StatsFit(extractor.stats, fills, Cutoff(Now))
  BY <1>1, <1>2, <1>3, NewStatsFit
<1> QED BY <1>1, <1>2, <1>3, <1>4, <1>5, <1>6 DEF RegimeInv

\* after a tick, with or without a prediction, in a backtest and in a forward test,
LEMMA TickKeeps ==
  ASSUME MarketFitting, MathFitting, RegimeInv,
         NEW quote \in Quotes, NEW elapsed \in Steps, NEW answer \in Answers, TickArrives(quote, elapsed, answer)
  PROVE  RegimeInv'
<1>0. quotes \in Seq(QuoteRecord) /\ Now \in Nat /\ elapsed \in Nat /\ quote \in QuoteRecord
  BY NowIs DEF RegimeInv, MarketFitting
<1>1. PICK m : m = [quote EXCEPT !.time = Now + elapsed]
  OBVIOUS
<1>2. m \in QuoteRecord /\ m.time = Now + elapsed
  BY <1>0, <1>1 DEF QuoteRecord
<1>3. PICK x : x = ProcessMarket(extractor, m)
  OBVIOUS
<1>4. PICK phi : phi = Extract(x, m, Flat, m.time)
  OBVIOUS
<1>5. /\ extractor' = x /\ quotes' = Append(quotes, m)
      /\ regime' = IF host = "backtest" THEN RegimeOnTick(regime, models, phi, answer, m.time)
                   ELSE RegimeOnTickForward(regime, models, phi, answer, m.time)
      /\ host' = host /\ fills' = fills
  BY <1>1, <1>3, <1>4 DEF TickArrives
<1>6. /\ quotes' \in Seq(QuoteRecord) /\ quotes' # <<>> /\ Last(quotes') = m
  BY <1>0, <1>2, <1>5, OneMore DEF Last
<1>7. Now' = m.time /\ Now' \in Nat /\ Now <= Now'
  BY <1>0, <1>2, <1>6 DEF Now
<1>8. WindowsFit(extractor, quotes) /\ WindowSizes
  BY DEF RegimeInv, MarketFitting
<1>9. WindowsFit(x, quotes') /\ x.stats = Prune(extractor.stats, Cutoff(m.time))
  BY <1>0, <1>2, <1>3, <1>5, <1>8, MarketFits
<1>10. StatsFit(x.stats, fills', Cutoff(Now'))
  <2>1. PICK b, c : b = Cutoff(Now) /\ c = Cutoff(Now')
    OBVIOUS
  <2>2. b \in Nat /\ c \in Nat /\ b <= c
    BY <1>0, <1>7, <2>1, CutoffIs DEF MarketFitting
  <2>3. fills \in Seq(FillRecord) /\ Timely(fills) /\ StatsFit(extractor.stats, fills, b)
    BY <2>1 DEF RegimeInv
  <2>4. StatsFit(Prune(extractor.stats, c), fills, c)
    BY <2>2, <2>3, PruneFits
  <2> QED BY <1>5, <1>7, <1>9, <2>1, <2>4
<1>11. IsFrac(phi[2]) /\ IsFrac(phi[7]) /\ IsFrac(phi[8])
  <2>1. SumsOf(x.spreads) /\ Reduced(Spread(m))
    BY <1>2, <1>9, QuoteValues, LowestIs DEF WindowsFit
  <2>2. x.mids \in Seq(Lowest)
    <3>1. MidsOf(quotes') \in Seq(Lowest)
      BY <1>6, ValuesTyped
    <3>2. MidCapacity \in Nat
      BY <1>8 DEF WindowSizes
    <3>3. LastOf(MidsOf(quotes'), MidCapacity) \in Seq(Lowest)
      BY <3>1, <3>2, LastLen
    <3> QED BY <1>9, <3>3 DEF WindowsFit
  <2>3. VolWindow \in Nat /\ VolLongWindow \in Nat /\ RootFits /\ ReturnFits
    BY DEF MarketFitting, MathFitting
  <2> QED BY <1>4, <2>1, <2>2, <2>3, FeaturesAre
<1>12. RegimeFits(regime') /\ (host' = "backtest" => regime'.updated = Now')
  <2>1. RegimeFits(regime) /\ AnswerFits(answer) /\ NRegimes \in Nat \ {0} /\ ExponentialFits
    BY DEF RegimeInv, MarketFitting, MathFitting
  <2>2. /\ RegimeFits(RegimeOnTick(regime, models, phi, answer, m.time))
        /\ RegimeOnTick(regime, models, phi, answer, m.time).updated = m.time
        /\ RegimeFits(RegimeOnTickForward(regime, models, phi, answer, m.time))
    BY <1>11, <2>1, TickRegime
  <2>3. CASE host = "backtest"
    BY <1>5, <1>7, <2>2, <2>3
  <2>4. CASE host # "backtest"
    BY <1>5, <2>2, <2>4
  <2> QED BY <2>3, <2>4
<1>13. fills' \in Seq(FillRecord) /\ Timely(fills') /\ \A i \in 1 .. Len(fills') : fills'[i].time <= Now'
  <2>1. /\ fills \in Seq(FillRecord) /\ Timely(fills)
        /\ \A i \in 1 .. Len(fills) : fills[i].time <= Now
    BY DEF RegimeInv
  <2>2. \A i \in 1 .. Len(fills) : fills[i].time \in Nat
    <3>1. \A i \in 1 .. Len(fills) : fills[i] \in FillRecord
      BY <2>1
    <3> QED BY <3>1 DEF FillRecord
  <2>3. \A i \in 1 .. Len(fills) : fills[i].time <= Now'
    BY <1>0, <1>7, <2>1, <2>2
  <2> QED BY <1>5, <2>1, <2>3
<1> QED BY <1>5, <1>6, <1>9, <1>10, <1>12, <1>13 DEF RegimeInv

\* after an execution
LEMMA ExecutionKeeps ==
  ASSUME MarketFitting, RegimeInv, NEW fill \in Fills, ExecutionArrives(fill)
  PROVE  RegimeInv'
<1>0. /\ quotes \in Seq(QuoteRecord) /\ Now \in Nat /\ fill \in FillRecord
      /\ fills \in Seq(FillRecord) /\ Timely(fills)
  BY NowIs DEF RegimeInv, MarketFitting
<1>1. PICK f : f = [fill EXCEPT !.time = Now]
  OBVIOUS
<1>2. f \in FillRecord /\ f.time = Now
  BY <1>0, <1>1 DEF FillRecord
<1>3. /\ extractor' = ProcessExecution(extractor, f) /\ fills' = Append(fills, f)
      /\ host' = host /\ regime' = regime /\ quotes' = quotes
  BY <1>1 DEF ExecutionArrives
<1>4. Now' = Now
  BY <1>3 DEF Now
<1>5. PICK n : n = Len(fills)
  OBVIOUS
<1>6. /\ n \in Nat /\ Len(fills') = n + 1 /\ fills'[n + 1] = f /\ fills' \in Seq(FillRecord)
      /\ \A i \in 1 .. n : fills'[i] = fills[i]
  BY <1>0, <1>2, <1>3, <1>5, OneMore
<1>7. \A i \in 1 .. n : fills[i].time <= Now /\ fills[i].time \in Nat
  <2>1. \A i \in 1 .. n : fills[i] \in FillRecord /\ fills[i].time <= Now
    BY <1>0, <1>5 DEF RegimeInv
  <2> QED BY <2>1 DEF FillRecord
<1>8. \A i \in 1 .. n + 1 : i # n + 1 => i \in 1 .. n
  BY <1>6
<1>9. \A i \in 1 .. n + 1 : fills'[i].time <= Now
  BY <1>0, <1>2, <1>6, <1>7, <1>8
<1>10. Timely(fills')
  <2>1. ASSUME NEW i \in 1 .. n + 1, NEW j \in 1 .. n + 1, i <= j
        PROVE  fills'[i].time <= fills'[j].time
    <3>1. CASE j = n + 1
      BY <1>2, <1>6, <1>9, <3>1
    <3>2. CASE j # n + 1
      <4>1. i \in 1 .. n /\ j \in 1 .. n
        BY <1>6, <2>1, <3>2
      <4> QED BY <1>0, <1>5, <1>6, <2>1, <4>1 DEF Timely
    <3> QED BY <3>1, <3>2
  <2> QED BY <1>6, <2>1 DEF Timely
<1>11. PICK u : u = UpdateStats(extractor.stats, f)
  OBVIOUS
<1>12. extractor' = [extractor EXCEPT !.stats = u]
  BY <1>3, <1>11 DEF ProcessExecution
<1>13. /\ WindowsFit(extractor', quotes') /\ extractor'.stats = u
  <2>1. ExtractorShape(extractor)
    BY DEF RegimeInv, WindowsFit
  <2>2. PICK x, y : x = extractor /\ y = extractor'
    OBVIOUS
  <2>3. y \in [spreads : {x.spreads}, obis : {x.obis}, mids : {x.mids}, prevVol : {x.prevVol},
               volEmaLong : {x.volEmaLong}, stats : {u}, prevObi : {x.prevObi},
               lastSpike : {x.lastSpike}, lastDepth : {x.lastDepth}, prevDepth : {x.prevDepth},
               open : {x.open}, active : {x.active}, gapHold : {x.gapHold}]
    BY <1>12, <2>1, <2>2 DEF ExtractorShape
  <2>4. ExtractorShape(y) /\ y.spreads = x.spreads /\ y.obis = x.obis /\ y.mids = x.mids /\ y.stats = u
    BY <2>3 DEF ExtractorShape
  <2>5. WindowsFit(x, quotes)
    BY <2>2 DEF RegimeInv
  <2>6. WindowsFit(y, quotes)
    BY <2>4, <2>5 DEF WindowsFit
  <2> QED BY <1>3, <2>2, <2>4, <2>6
<1>14. StatsFit(u, fills', Cutoff(Now))
  <2>1. PICK c : c = Cutoff(Now)
    OBVIOUS
  <2>2. c \in Nat /\ f.time >= c
    BY <1>0, <1>2, <2>1, CutoffIs DEF MarketFitting
  <2>3. StatsFit(extractor.stats, fills, c)
    BY <2>1 DEF RegimeInv
  <2> QED BY <1>0, <1>2, <1>3, <1>11, <2>1, <2>2, <2>3, UpdateFits
<1>15. RegimeFits(regime) /\ (host = "backtest" => regime.updated = Now)
  BY DEF RegimeInv
<1> QED BY <1>0, <1>3, <1>4, <1>6, <1>9, <1>10, <1>13, <1>14, <1>15 DEF RegimeInv

\* and so after each step.
LEMMA RegimeStep ==
  ASSUME MarketFitting, MathFitting
  PROVE  RegimeInv /\ [RegimeNext]_regimeVars => RegimeInv'
<1> SUFFICES ASSUME RegimeInv, [RegimeNext]_regimeVars PROVE RegimeInv'
  OBVIOUS
<1>1. CASE UNCHANGED regimeVars
  BY <1>1 DEF regimeVars, RegimeInv, Now
<1>2. ASSUME NEW quote \in Quotes, NEW elapsed \in Steps, NEW answer \in Answers,
             TickArrives(quote, elapsed, answer)
      PROVE  RegimeInv'
  BY <1>2, TickKeeps
<1>3. ASSUME NEW fill \in Fills, ExecutionArrives(fill)
      PROVE  RegimeInv'
  BY <1>3, ExecutionKeeps
<1> QED BY <1>1, <1>2, <1>3 DEF RegimeNext

\* It says that the features are current.
LEMMA RegimeIsCurrent ==
  ASSUME MarketFitting
  PROVE  RegimeInv => FeaturesCurrent
<1> SUFFICES ASSUME RegimeInv PROVE FeaturesCurrent
  OBVIOUS
<1>1. quotes \in Seq(QuoteRecord) /\ Now \in Nat /\ fills \in Seq(FillRecord)
  BY NowIs DEF RegimeInv
<1>2. WindowsFit(extractor, quotes) /\ StatsFit(extractor.stats, fills, Cutoff(Now)) /\ RegimeFits(regime)
  BY DEF RegimeInv
<1>3. /\ Each(quotes, Spread) = SpreadsOf(quotes) /\ Each(quotes, Obi) = ObisOf(quotes)
      /\ Each(quotes, Mid) = MidsOf(quotes)
  BY <1>1, EachIs DEF SpreadsOf, ObisOf, MidsOf
<1>4. Holds(extractor.spreads, LastOf(Each(quotes, Spread), SpreadWindow))
  <2>1. PICK w, v : w = extractor.spreads /\ v = LastOf(SpreadsOf(quotes), SpreadWindow)
    OBVIOUS
  <2>2. SumsOf(w) /\ w.values = v
    BY <1>2, <2>1 DEF WindowsFit
  <2>3. v \in Seq(Lowest) /\ w.sum = SumFrac(v) /\ w.sumSq = SumFrac(SquaresOf(v))
    BY <2>2 DEF SumsOf
  <2>4. Each(v, LAMBDA a : a ** a) = SquaresOf(v)
    BY <2>3, SquaresIs
  <2>5. Holds(w, v)
    BY <2>2, <2>3, <2>4 DEF Holds
  <2> QED BY <1>3, <2>1, <2>5
<1>5. Holds(extractor.obis, LastOf(Each(quotes, Obi), ObiWindow))
  <2>1. PICK w, v : w = extractor.obis /\ v = LastOf(ObisOf(quotes), ObiWindow)
    OBVIOUS
  <2>2. SumsOf(w) /\ w.values = v
    BY <1>2, <2>1 DEF WindowsFit
  <2>3. v \in Seq(Lowest) /\ w.sum = SumFrac(v) /\ w.sumSq = SumFrac(SquaresOf(v))
    BY <2>2 DEF SumsOf
  <2>4. Each(v, LAMBDA a : a ** a) = SquaresOf(v)
    BY <2>3, SquaresIs
  <2>5. Holds(w, v)
    BY <2>2, <2>3, <2>4 DEF Holds
  <2> QED BY <1>3, <2>1, <2>5
<1>6. extractor.mids = LastOf(Each(quotes, Mid), MidCapacity)
  BY <1>2, <1>3 DEF WindowsFit
<1>7. PICK n, c : n = Len(fills) /\ c = Cutoff(Now)
  OBVIOUS
<1>8. n \in Nat /\ DOMAIN fills = 1 .. n /\ c \in Nat
  BY <1>1, <1>7, CutoffIs DEF MarketFitting
<1>9. PICK kept : kept = {i \in DOMAIN fills : fills[i].time >= Now - IntensityWindow}
  OBVIOUS
<1>10. PICK counts, volumes : counts = CountsOf(fills) /\ volumes = VolumesOf(fills)
  OBVIOUS
<1>11. /\ counts \in Seq(Entry) /\ volumes \in Seq(Entry) /\ Len(counts) = n /\ Len(volumes) = n
       /\ \A i \in 1 .. n : counts[i] = PartCount(fills[i]) /\ volumes[i] = PartVolume(fills[i])
  BY <1>1, <1>7, <1>10, EntriesTyped
<1>12. \A i \in 1 .. n : /\ counts[i].time = fills[i].time /\ volumes[i].time = fills[i].time
                         /\ counts[i].value = PartOf(fills[i])
  BY <1>11 DEF PartCount, PartVolume
<1>13. \A i \in 1 .. n : fills[i].time >= c <=> fills[i].time >= Now - IntensityWindow
  <2>1. \A i \in 1 .. n : fills[i].time \in Nat
    <3>1. \A i \in 1 .. n : fills[i] \in FillRecord
      BY <1>1, <1>7
    <3> QED BY <3>1 DEF FillRecord
  <2>2. c = IF Now < IntensityWindow THEN 0 ELSE Now - IntensityWindow
    BY <1>7 DEF Cutoff
  <2>3. IntensityWindow \in Nat
    BY DEF MarketFitting
  <2> QED BY <1>1, <2>1, <2>2, <2>3
<1>14. {i \in 1 .. n : counts[i].time >= c} = kept /\ {i \in 1 .. n : volumes[i].time >= c} = kept
  BY <1>8, <1>9, <1>12, <1>13
<1>15. PICK B : B = {i \in 1 .. n : fills[i].filled}
  OBVIOUS
<1>16. \A i \in 1 .. n : counts[i].value = Whole(IF i \in B THEN 1 ELSE 0)
  BY <1>12, <1>15 DEF PartOf
<1>17. PICK s : s = extractor.stats
  OBVIOUS
<1>18. /\ s.counts \in Seq(Entry) /\ Suffix(s.counts, counts, c)
       /\ s.volumes \in Seq(Entry) /\ Suffix(s.volumes, volumes, c)
  BY <1>2, <1>7, <1>10, <1>17 DEF StatsFit
<1>19. Total(s.counts) = Whole(Cardinality({i \in 1 .. n : counts[i].time >= c /\ i \in B}))
  <2>1. Tells(counts, B)
    BY <1>11, <1>16 DEF Tells
  <2>2. Total(s.counts) = Whole(Cardinality(Young(counts, c, B)))
    BY <1>8, <1>11, <1>18, <2>1, SuffixCount
  <2> QED BY <1>11, <2>2 DEF Young
<1>20. {i \in 1 .. n : counts[i].time >= c /\ i \in B} = {i \in kept : fills[i].filled}
  BY <1>14, <1>15
<1>21. Len(s.volumes) = Cardinality({i \in 1 .. n : volumes[i].time >= c})
  BY <1>8, <1>11, <1>18, SuffixLength
<1>22. /\ SumFrac(regime.posterior) = One
       /\ regime.initialized => regime.entropy = Entropy(regime.posterior)
       /\ host = "backtest" => regime.updated = Now
  BY <1>2 DEF RegimeFits, RegimeInv
<1>23. /\ Total(extractor.stats.counts) = Whole(Cardinality({i \in kept : fills[i].filled}))
       /\ Len(extractor.stats.volumes) = Cardinality(kept)
  BY <1>14, <1>17, <1>19, <1>20, <1>21
<1> QED BY <1>4, <1>5, <1>6, <1>9, <1>22, <1>23 DEF FeaturesCurrent

-----------------------------------------------------------------------------
(* The walk along the equity *)

IsWalk(f, q, n) ==
  f = [k \in 0 .. n |-> IF k = 0 THEN EquityStart ELSE EquityStep(f[k - 1], q[k].pnl)]

\* The walk along the equity of trades exists,
LEMMA WalkExists ==
  ASSUME NEW q
  PROVE  \A n \in Nat : \E f : IsWalk(f, q, n)
<1> DEFINE S == {n \in Int : \E f : IsWalk(f, q, n)}
           More(f, k) == EquityStep(f[k - 1], q[k].pnl)
<1>1. 0 \in S
  <2> DEFINE f == [k \in 0 .. 0 |-> EquityStart]
  <2>1. IsWalk(f, q, 0)
    BY DEF IsWalk
  <2> QED BY <2>1
<1>2. ASSUME NEW n \in Nat, n \in S
      PROVE  n + 1 \in S
  <2>1. PICK f : IsWalk(f, q, n)
    BY <1>2
  <2> DEFINE g == [k \in 0 .. n + 1 |-> IF k <= n THEN f[k] ELSE More(f, k)]
  <2>2. ASSUME NEW k \in 0 .. n + 1
        PROVE  g[k] = IF k = 0 THEN EquityStart ELSE More(g, k)
    <3>1. CASE k = 0
      BY <2>1, <3>1 DEF IsWalk
    <3>2. CASE k # 0
      <4>1. k - 1 \in 0 .. n + 1 /\ k - 1 <= n
        BY <3>2
      <4>2. g[k - 1] = f[k - 1]
        BY <4>1
      <4>3. g[k] = More(f, k)
        <5>1. CASE k <= n
          <6>1. k \in 0 .. n
            BY <5>1
          <6>2. f[k] = More(f, k)
            BY <2>1, <6>1, <3>2 DEF IsWalk
          <6>3. g[k] = f[k]
            BY <5>1
          <6> QED BY <6>2, <6>3
        <5>2. CASE k = n + 1
          BY <5>2
        <5> QED BY <5>1, <5>2
      <4>4. More(g, k) = More(f, k)
        <5> HIDE DEF g
        <5> QED BY <4>2
      <4> QED BY <4>3, <4>4, <3>2
    <3> QED BY <3>1, <3>2
  <2>3. g = [k \in 0 .. n + 1 |-> IF k = 0 THEN EquityStart ELSE More(g, k)]
    <3>1. g = [k \in 0 .. n + 1 |-> g[k]]
      OBVIOUS
    <3> HIDE DEF g, More
    <3> QED BY <2>2, <3>1
  <2>4. IsWalk(g, q, n + 1)
    BY <2>3 DEF IsWalk
  <2> HIDE DEF g
  <2> QED BY <2>4
<1>3. ASSUME NEW n \in Nat
      PROVE  \E f : IsWalk(f, q, n)
  <2>1. \A k \in 0 .. n - 1 : k \in S => k + 1 \in S
    <3> HIDE DEF S
    <3> QED BY <1>2
  <2>2. 0 .. n \subseteq S
    <3> HIDE DEF S
    <3> QED BY <1>1, <2>1, IntervalInduction
  <2>3. n \in S
    BY <2>2
  <2> QED BY <2>3
<1> QED BY <1>3

\* step by step.
LEMMA EquityIs ==
  ASSUME NEW q, NEW n \in Nat
  PROVE  \E f : /\ EquityAt(q, n) = f[n] /\ f[0] = EquityStart
                /\ \A k \in 1 .. n : f[k] = EquityStep(f[k - 1], q[k].pnl)
<1> DEFINE f == CHOOSE g : IsWalk(g, q, n)
<1>1. IsWalk(f, q, n)
  BY WalkExists
<1>2. EquityAt(q, n) = f[n]
  BY DEF EquityAt, IsWalk
<1> HIDE DEF f
<1> DEFINE More(k) == EquityStep(f[k - 1], q[k].pnl)
<1>3. f = [k \in 0 .. n |-> IF k = 0 THEN EquityStart ELSE More(k)]
  BY <1>1 DEF IsWalk
<1>4. f[0] = EquityStart /\ \A k \in 1 .. n : f[k] = More(k)
  <2> HIDE DEF More
  <2>1. 0 \in 0 .. n /\ \A k \in 1 .. n : k \in 0 .. n /\ k # 0
    OBVIOUS
  <2> QED BY <1>3, <2>1
<1> QED BY <1>2, <1>4

\* Two walks along the same profits come to the same.
LEMMA SameWalk ==
  ASSUME NEW f, NEW g, NEW q, NEW r, NEW n \in Nat, f[0] = g[0],
         \A k \in 1 .. n : f[k] = EquityStep(f[k - 1], q[k].pnl),
         \A k \in 1 .. n : g[k] = EquityStep(g[k - 1], r[k].pnl),
         \A k \in 1 .. n : q[k].pnl = r[k].pnl
  PROVE  f[n] = g[n]
<1> DEFINE S == {k \in 0 .. n : f[k] = g[k]}
<1>1. 0 \in S
  OBVIOUS
<1>2. ASSUME NEW k \in 0 .. n - 1, k \in S
      PROVE  k + 1 \in S
  <2>1. k + 1 \in 1 .. n /\ (k + 1) - 1 = k /\ k + 1 \in 0 .. n
    OBVIOUS
  <2>2. f[k + 1] = EquityStep(f[k], q[k + 1].pnl) /\ g[k + 1] = EquityStep(g[k], r[k + 1].pnl)
    BY <2>1
  <2> QED BY <1>2, <2>1, <2>2
<1>3. n \in S
  <2>1. 0 \in Int /\ n \in Int /\ n \in 0 .. n
    OBVIOUS
  <2>2. \A k \in 0 .. n - 1 : k \in S => k + 1 \in S
    BY <1>2
  <2> HIDE DEF S
  <2> QED BY <1>1, <2>1, <2>2, IntervalInduction
<1> QED BY <1>3

\* So later trades do not change the equity at earlier ones,
LEMMA EquityKept ==
  ASSUME NEW q, NEW r, NEW n \in Nat, \A k \in 1 .. n : q[k].pnl = r[k].pnl
  PROVE  EquityAt(q, n) = EquityAt(r, n)
<1>1. PICK f : /\ EquityAt(q, n) = f[n] /\ f[0] = EquityStart
               /\ \A k \in 1 .. n : f[k] = EquityStep(f[k - 1], q[k].pnl)
  BY EquityIs
<1>2. PICK g : /\ EquityAt(r, n) = g[n] /\ g[0] = EquityStart
               /\ \A k \in 1 .. n : g[k] = EquityStep(g[k - 1], r[k].pnl)
  BY EquityIs
<1> QED BY <1>1, <1>2, SameWalk

\* and a trade is one step from the equity before.
LEMMA EquityNext ==
  ASSUME NEW q, NEW n \in Nat
  PROVE  EquityAt(q, n + 1) = EquityStep(EquityAt(q, n), q[n + 1].pnl) /\ EquityAt(q, 0) = EquityStart
<1>1. PICK f : /\ EquityAt(q, n) = f[n] /\ f[0] = EquityStart
               /\ \A k \in 1 .. n : f[k] = EquityStep(f[k - 1], q[k].pnl)
  BY EquityIs
<1>2. PICK m : m = n + 1
  OBVIOUS
<1>3. m \in Nat /\ m \in 1 .. m /\ m - 1 = n /\ \A k \in 1 .. n : k \in 1 .. m
  BY <1>2
<1>4. PICK g : /\ EquityAt(q, m) = g[m] /\ g[0] = EquityStart
               /\ \A k \in 1 .. m : g[k] = EquityStep(g[k - 1], q[k].pnl)
  BY <1>3, EquityIs
<1>5. f[n] = g[n]
  <2>1. \A k \in 1 .. n : g[k] = EquityStep(g[k - 1], q[k].pnl)
    BY <1>3, <1>4
  <2> QED BY <1>1, <1>4, <2>1, SameWalk
<1>6. EquityAt(q, 0) = EquityStart
  <2>1. PICK h : EquityAt(q, 0) = h[0] /\ h[0] = EquityStart
    BY EquityIs
  <2> QED BY <2>1
<1> QED BY <1>1, <1>2, <1>3, <1>4, <1>5, <1>6

-----------------------------------------------------------------------------
(* The deepest fall *)

\* From the first of q on: its greatest value, and the deepest fall from a value to a later one
Fallen(q, peak, deepest) ==
  /\ Reduced(peak) /\ Reduced(deepest) /\ \A i \in 1 .. Len(q) : Reduced(q[i])
  /\ \E i \in 1 .. Len(q) : q[i] = peak
  /\ \A i \in 1 .. Len(q) : q[i] \preceq peak
  /\ \E i, j \in 1 .. Len(q) : i <= j /\ deepest = q[i] -- q[j]
  /\ \A i, j \in 1 .. Len(q) : i <= j => (q[i] -- q[j]) \preceq deepest

\* Greatest value and deepest fall are kept one value at a time.
LEMMA FallenMore ==
  ASSUME NEW q, NEW r, NEW n \in Nat, Len(q) = n, Len(r) = n + 1, \A k \in 1 .. n : r[k] = q[k],
         Reduced(r[n + 1]), NEW peak, NEW deepest, Fallen(q, peak, deepest), NEW top,
         top = MaxFrac(peak, r[n + 1])
  PROVE  Fallen(r, top, MaxFrac(deepest, top -- r[n + 1]))
<1> DEFINE e == r[n + 1]
           fall == MaxFrac(deepest, top -- e)
<1>0. /\ Reduced(peak) /\ Reduced(deepest) /\ \A i \in 1 .. n : Reduced(q[i]) /\ q[i] \preceq peak
      /\ Reduced(e)
  BY DEF Fallen
<1>1. Reduced(top) /\ (top = peak \/ top = e) /\ peak \preceq top /\ e \preceq top
  BY <1>0, GreaterOf
<1>2. Reduced(top -- e)
  BY <1>0, <1>1, MinusOrder
<1>3. /\ Reduced(fall) /\ (fall = deepest \/ fall = top -- e)
      /\ deepest \preceq fall /\ (top -- e) \preceq fall
  BY <1>0, <1>2, GreaterOf
<1>4. n + 1 \in 1 .. n + 1 /\ \A i \in 1 .. n + 1 : i \in 1 .. n \/ i = n + 1
  OBVIOUS
<1>5. \A i \in 1 .. n : i \in 1 .. n + 1
  OBVIOUS
<1>6. \A i \in 1 .. n + 1 : Reduced(r[i])
  BY <1>0, <1>4
<1>7. \E i \in 1 .. n + 1 : r[i] = top
  <2>1. PICK i \in 1 .. n : q[i] = peak
    BY DEF Fallen
  <2>2. r[i] = peak /\ i \in 1 .. n + 1
    BY <2>1
  <2> QED BY <1>1, <1>4, <2>2
<1>8. ASSUME NEW i \in 1 .. n + 1
      PROVE  r[i] \preceq top
  <2>1. CASE i = n + 1
    BY <1>1, <2>1
  <2>2. CASE i \in 1 .. n
    <3>1. r[i] = q[i] /\ Reduced(q[i]) /\ q[i] \preceq peak
      BY <1>0, <2>2
    <3>2. q[i] \preceq top
      BY <1>0, <1>1, <3>1, Transitive
    <3> QED BY <3>1, <3>2
  <2> QED BY <1>4, <2>1, <2>2
<1>9. \E i, j \in 1 .. n + 1 : i <= j /\ fall = r[i] -- r[j]
  <2>1. CASE fall = deepest
    <3>1. PICK i, j \in 1 .. n : i <= j /\ deepest = q[i] -- q[j]
      BY DEF Fallen
    <3>2. i \in 1 .. n + 1 /\ j \in 1 .. n + 1 /\ deepest = r[i] -- r[j]
      BY <3>1
    <3> QED BY <2>1, <3>1, <3>2
  <2>2. CASE fall = top -- e
    <3>1. PICK i \in 1 .. n + 1 : r[i] = top
      BY <1>7
    <3>2. i <= n + 1 /\ fall = r[i] -- r[n + 1]
      BY <2>2, <3>1
    <3> QED BY <1>4, <3>2
  <2> QED BY <1>3, <2>1, <2>2
<1>10. ASSUME NEW i \in 1 .. n + 1, NEW j \in 1 .. n + 1, i <= j
       PROVE  (r[i] -- r[j]) \preceq fall
  <2>1. CASE j = n + 1
    <3>1. (r[i] -- e) \preceq (top -- e) /\ Reduced(r[i] -- e)
      BY <1>0, <1>1, <1>6, <1>8, MinusOrder
    <3>2. (r[i] -- e) \preceq fall
      <4> HIDE DEF fall, e
      <4> QED BY <1>2, <1>3, <3>1, Transitive
    <3> QED BY <2>1, <3>2
  <2>2. CASE j \in 1 .. n
    <3>1. i \in 1 .. n
      BY <1>10, <2>2
    <3>2. r[i] = q[i] /\ r[j] = q[j] /\ Reduced(q[i]) /\ Reduced(q[j])
      BY <1>0, <2>2, <3>1
    <3>3. (q[i] -- q[j]) \preceq deepest
      BY <1>10, <2>2, <3>1 DEF Fallen
    <3>4. Reduced(q[i] -- q[j])
      BY <3>2, MinusOrder, ReducedIs, OrderTotal
    <3>5. (q[i] -- q[j]) \preceq fall
      <4> HIDE DEF fall, e
      <4> QED BY <1>0, <1>3, <3>3, <3>4, Transitive
    <3> QED BY <3>2, <3>5
  <2> QED BY <1>4, <2>1, <2>2
<1> HIDE DEF fall, e
<1>11. Fallen(r, top, fall)
  BY <1>1, <1>3, <1>6, <1>7, <1>8, <1>9, <1>10 DEF Fallen
<1> QED BY <1>11 DEF fall, e

\* So the deepest fall is the one kept.
LEMMA FallenIs ==
  ASSUME NEW q \in Seq(Lowest), NEW peak, NEW deepest, Fallen(<<Zero>> \o q, peak, deepest)
  PROVE  DeepestFall(q) = deepest
<1>1. PICK from : from = <<Zero>> \o q
  OBVIOUS
<1>2. Zero \in Lowest
  BY WholeReduced, LowestIs DEF Zero
<1>3. from \in Seq(Lowest)
  BY <1>1, <1>2
<1>4. DOMAIN from = 1 .. Len(from)
  BY <1>3
<1> DEFINE P == {p \in (DOMAIN from) \X (DOMAIN from) : p[1] <= p[2]}
           Later == {from[p[1]] -- from[p[2]] : p \in P}
<1>5. /\ Reduced(deepest) /\ \A i \in 1 .. Len(from) : Reduced(from[i])
      /\ \E i, j \in 1 .. Len(from) : i <= j /\ deepest = from[i] -- from[j]
      /\ \A i, j \in 1 .. Len(from) : i <= j => (from[i] -- from[j]) \preceq deepest
  BY <1>1 DEF Fallen
<1>6. deepest \in Later
  <2>1. PICK i, j \in 1 .. Len(from) : i <= j /\ deepest = from[i] -- from[j]
    BY <1>5
  <2>2. <<i, j>> \in P /\ <<i, j>>[1] = i /\ <<i, j>>[2] = j
    BY <1>4, <2>1
  <2> QED BY <2>1, <2>2
<1>7. ASSUME NEW e \in Later
      PROVE  e \preceq deepest /\ Reduced(e)
  <2>1. PICK p \in P : e = from[p[1]] -- from[p[2]]
    OBVIOUS
  <2>2. p[1] \in 1 .. Len(from) /\ p[2] \in 1 .. Len(from) /\ p[1] <= p[2]
    BY <1>4
  <2>3. Reduced(from[p[1]]) /\ Reduced(from[p[2]]) /\ (from[p[1]] -- from[p[2]]) \preceq deepest
    BY <1>5, <2>2
  <2>4. Reduced(from[p[1]] -- from[p[2]])
    BY <2>3, ReducedIs, Reduces
  <2> QED BY <2>1, <2>3, <2>4
<1>8. DeepestFall(q) = CHOOSE d \in Later : \A e \in Later : e \preceq d
  BY <1>1 DEF DeepestFall
<1> HIDE DEF Later, P
<1>9. PICK d : d = DeepestFall(q)
  OBVIOUS
<1>10. d \in Later /\ \A e \in Later : e \preceq d
  BY <1>6, <1>7, <1>8, <1>9
<1>11. d \preceq deepest /\ deepest \preceq d /\ Reduced(d)
  BY <1>6, <1>7, <1>10
<1> QED BY <1>5, <1>9, <1>11, OrderSame

-----------------------------------------------------------------------------
(* What is told of the trades *)

TradeSet == [time : Nat, strategy : {"A", "B"}, pnl : Lowest, closes : BOOLEAN]

\* The profit of the trades of a strategy
ProfitOf(q, s) == SumFrac(Profits(Taken(q, {k \in DOMAIN q : q[k].strategy = s})))

LEMMA ProfitsAre ==
  ASSUME NEW q \in Seq(TradeSet)
  PROVE  /\ Profits(q) \in Seq(Lowest) /\ Len(Profits(q)) = Len(q) /\ Len(q) \in Nat
         /\ \A k \in 1 .. Len(q) : Profits(q)[k] = q[k].pnl /\ q[k].pnl \in Lowest
<1>0. ASSUME NEW k \in 1 .. Len(q)
      PROVE  q[k].pnl \in Lowest
  <2>1. q[k] \in TradeSet
    OBVIOUS
  <2> QED BY <2>1 DEF TradeSet
<1>1. Len(q) \in Nat /\ DOMAIN q = 1 .. Len(q) /\ \A k \in 1 .. Len(q) : q[k].pnl \in Lowest
  BY <1>0
<1>2. PICK f : f = [k \in 1 .. Len(q) |-> q[k].pnl]
  OBVIOUS
<1>3. f \in Seq(Lowest) /\ Len(f) = Len(q)
  BY <1>1, <1>2
<1>4. SubSeq(f, 1, Len(q)) = f
  BY <1>3
<1>5. Profits(q) = f
  BY <1>1, <1>2, <1>4 DEF Profits
<1> QED BY <1>1, <1>2, <1>3, <1>5

LEMMA ProfitsMore ==
  ASSUME NEW q \in Seq(TradeSet), NEW t \in TradeSet
  PROVE  /\ SumFrac(Profits(Append(q, t))) = SumFrac(Profits(q)) ++ t.pnl
         /\ Reduced(SumFrac(Profits(q))) /\ Reduced(t.pnl)
<1>1. PICK r : r = Append(q, t)
  OBVIOUS
<1>2. r \in Seq(TradeSet) /\ Len(r) = Len(q) + 1 /\ r[Len(q) + 1] = t /\ Len(q) \in Nat
      /\ \A k \in 1 .. Len(q) : r[k] = q[k]
  BY <1>1
<1>3. /\ Len(Profits(q)) = Len(q) /\ \A k \in 1 .. Len(q) : Profits(q)[k] = q[k].pnl
      /\ \A k \in 1 .. Len(q) : Reduced(Profits(q)[k])
  BY ProfitsAre, LowestIs
<1>4. Len(Profits(r)) = Len(r) /\ \A k \in 1 .. Len(r) : Profits(r)[k] = r[k].pnl
  BY <1>2, ProfitsAre
<1>5. Len(r) \in 1 .. Len(r) /\ \A k \in 1 .. Len(q) : k \in 1 .. Len(r)
  BY <1>2
<1>6. Profits(r)[Len(r)] = t.pnl /\ \A k \in 1 .. Len(q) : Profits(r)[k] = Profits(q)[k]
  BY <1>2, <1>3, <1>4, <1>5
<1>7. SumFrac(Profits(r)) = SumFrac(Profits(q)) ++ Profits(r)[Len(Profits(r))]
  BY <1>2, <1>3, <1>4, <1>6, SumMore
<1>8. Reduced(SumFrac(Profits(q)))
  BY <1>2, <1>3, SumReduced
<1>9. Reduced(t.pnl)
  BY LowestIs DEF TradeSet
<1> QED BY <1>1, <1>4, <1>6, <1>7, <1>8, <1>9

LEMMA PartMore ==
  ASSUME NEW q \in Seq(TradeSet), NEW t \in TradeSet, NEW s
  PROVE  /\ ProfitOf(Append(q, t), s) = IF t.strategy = s THEN ProfitOf(q, s) ++ t.pnl ELSE ProfitOf(q, s)
         /\ Reduced(ProfitOf(q, s)) /\ Reduced(t.pnl)
<1>1. PICK r : r = Append(q, t)
  OBVIOUS
<1>2. /\ r \in Seq(TradeSet) /\ Len(r) = Len(q) + 1 /\ r[Len(q) + 1] = t /\ Len(q) \in Nat
      /\ \A k \in 1 .. Len(q) : r[k] = q[k] /\ q[k] \in TradeSet
      /\ DOMAIN q = 1 .. Len(q) /\ DOMAIN r = 1 .. Len(r)
  BY <1>1
<1> DEFINE T == {k \in DOMAIN q : q[k].strategy = s}
           U == {k \in DOMAIN r : r[k].strategy = s}
<1>3. \A k \in 1 .. Len(q) : r[k] = q[k] /\ (k \in U <=> k \in T)
  BY <1>2
<1>4. Len(r) \in U <=> t.strategy = s
  BY <1>2
<1>5. ProfitOf(q, s) = SumFrac(Profits(Taken(q, T))) /\ ProfitOf(r, s) = SumFrac(Profits(Taken(r, U)))
  BY DEF ProfitOf
<1> HIDE DEF T, U
<1>6. Taken(q, T) \in Seq(TradeSet)
  BY <1>2, TakenTypes
<1>7. Taken(r, U) = IF Len(r) \in U THEN Append(Taken(q, T), r[Len(r)]) ELSE Taken(q, T)
  BY <1>2, <1>3, TakenMore
<1>8. /\ SumFrac(Profits(Append(Taken(q, T), t))) = SumFrac(Profits(Taken(q, T))) ++ t.pnl
      /\ Reduced(SumFrac(Profits(Taken(q, T)))) /\ Reduced(t.pnl)
  BY <1>6, ProfitsMore
<1> QED BY <1>1, <1>2, <1>4, <1>5, <1>7, <1>8

LEMMA WinsMore ==
  ASSUME NEW q \in Seq(TradeSet), NEW t \in TradeSet
  PROVE  /\ Len(Wins(Append(q, t))) = Len(Wins(q)) + (IF Zero \prec t.pnl THEN 1 ELSE 0)
         /\ Len(Wins(q)) \in Nat
<1>1. PICK r : r = Append(q, t)
  OBVIOUS
<1>2. /\ r \in Seq(TradeSet) /\ Len(r) = Len(q) + 1 /\ r[Len(q) + 1] = t /\ Len(q) \in Nat
      /\ \A k \in 1 .. Len(q) : r[k] = q[k] /\ q[k] \in TradeSet
      /\ DOMAIN q = 1 .. Len(q) /\ DOMAIN r = 1 .. Len(r)
  BY <1>1
<1> DEFINE T == {k \in DOMAIN q : Zero \prec q[k].pnl}
           U == {k \in DOMAIN r : Zero \prec r[k].pnl}
<1>3. \A k \in 1 .. Len(q) : r[k] = q[k] /\ (k \in U <=> k \in T)
  BY <1>2
<1>4. Len(r) \in U <=> Zero \prec t.pnl
  BY <1>2
<1>5. Wins(q) = Taken(q, T) /\ Wins(r) = Taken(r, U)
  BY DEF Wins
<1> HIDE DEF T, U
<1>6. Taken(q, T) \in Seq(TradeSet)
  BY <1>2, TakenTypes
<1>7. Taken(r, U) = IF Len(r) \in U THEN Append(Taken(q, T), r[Len(r)]) ELSE Taken(q, T)
  BY <1>2, <1>3, TakenMore
<1>8. Len(Append(Taken(q, T), t)) = Len(Taken(q, T)) + 1 /\ Len(Taken(q, T)) \in Nat
  BY <1>6
<1> QED BY <1>1, <1>2, <1>4, <1>5, <1>7, <1>8

-----------------------------------------------------------------------------
(* The tracker *)

IsTracker(t) ==
  t \in [realized : {t.realized}, unrealized : {t.unrealized}, peak : {t.peak},
         maxDrawdown : {t.maxDrawdown}, curve : {t.curve}, pnls : {t.pnls}, drifts : {t.drifts},
         trades : {t.trades}, wins : {t.wins}, sharpe : {t.sharpe}, driftMean : {t.driftMean},
         driftStd : {t.driftStd}]

LEMMA UpdateIs ==
  ASSUME NEW t, IsTracker(t), NEW realized, NEW unrealized, NEW u, NEW equity,
         u = UpdateTracker(t, realized, unrealized), equity = realized ++ unrealized
  PROVE  /\ IsTracker(u) /\ u.trades = t.trades /\ u.wins = t.wins
         /\ u.peak = MaxFrac(t.peak, equity)
         /\ u.maxDrawdown = MaxFrac(t.maxDrawdown, u.peak -- equity)
<1>1. PICK curve, sharpe, peak, deepest :
        /\ curve = Kept(t.curve, equity) /\ sharpe = Sharpe(t) /\ peak = MaxFrac(t.peak, equity)
        /\ deepest = MaxFrac(t.maxDrawdown, peak -- equity)
  OBVIOUS
<1>2. u = [t EXCEPT !.realized = realized, !.unrealized = unrealized, !.curve = curve,
                    !.peak = peak, !.maxDrawdown = deepest, !.sharpe = sharpe]
  BY <1>1 DEF UpdateTracker
<1>3. u \in [realized : {realized}, unrealized : {unrealized}, peak : {peak},
             maxDrawdown : {deepest}, curve : {curve}, pnls : {t.pnls}, drifts : {t.drifts},
             trades : {t.trades}, wins : {t.wins}, sharpe : {sharpe}, driftMean : {t.driftMean},
             driftStd : {t.driftStd}]
  <2>1. PICK half : half = [t EXCEPT !.realized = realized, !.unrealized = unrealized,
                                     !.curve = curve]
    OBVIOUS
  <2>2. half \in [realized : {realized}, unrealized : {unrealized}, peak : {t.peak},
                  maxDrawdown : {t.maxDrawdown}, curve : {curve}, pnls : {t.pnls},
                  drifts : {t.drifts}, trades : {t.trades}, wins : {t.wins}, sharpe : {t.sharpe},
                  driftMean : {t.driftMean}, driftStd : {t.driftStd}]
    BY <2>1 DEF IsTracker
  <2>3. u = [half EXCEPT !.peak = peak, !.maxDrawdown = deepest, !.sharpe = sharpe]
    BY <1>2, <2>1
  <2> QED BY <2>2, <2>3
<1>4. IsTracker(u)
  BY <1>3 DEF IsTracker
<1>5. u.peak = peak /\ u.maxDrawdown = deepest /\ u.trades = t.trades /\ u.wins = t.wins
  BY <1>3
<1> QED BY <1>1, <1>4, <1>5

LEMMA RecordIs ==
  ASSUME NEW t, IsTracker(t), NEW pnl, NEW u, u = RecordTrade(t, pnl)
  PROVE  /\ IsTracker(u) /\ u.peak = t.peak /\ u.maxDrawdown = t.maxDrawdown
         /\ u.trades = t.trades + 1 /\ u.wins = t.wins + (IF Zero \prec pnl THEN 1 ELSE 0)
<1>1. PICK pnls, count, won : pnls = Kept(t.pnls, pnl) /\ count = t.trades + 1
                               /\ won = t.wins + (IF Zero \prec pnl THEN 1 ELSE 0)
  OBVIOUS
<1>2. PICK after : after = [t EXCEPT !.trades = count, !.wins = won, !.pnls = pnls]
  OBVIOUS
<1>3. after \in [realized : {t.realized}, unrealized : {t.unrealized}, peak : {t.peak},
                 maxDrawdown : {t.maxDrawdown}, curve : {t.curve}, pnls : {pnls},
                 drifts : {t.drifts}, trades : {count}, wins : {won}, sharpe : {t.sharpe},
                 driftMean : {t.driftMean}, driftStd : {t.driftStd}]
  BY <1>2 DEF IsTracker
<1>4. PICK sharpe : sharpe = Sharpe(after)
  OBVIOUS
<1>5. u = [after EXCEPT !.sharpe = sharpe]
  BY <1>1, <1>2, <1>4 DEF RecordTrade
<1>6. u \in [realized : {t.realized}, unrealized : {t.unrealized}, peak : {t.peak},
             maxDrawdown : {t.maxDrawdown}, curve : {t.curve}, pnls : {pnls},
             drifts : {t.drifts}, trades : {count}, wins : {won}, sharpe : {sharpe},
             driftMean : {t.driftMean}, driftStd : {t.driftStd}]
  BY <1>3, <1>5
<1> QED BY <1>1, <1>6 DEF IsTracker

LEMMA NewTrackerIs ==
  /\ IsTracker(NewTracker) /\ NewTracker.peak = Zero /\ NewTracker.maxDrawdown = Zero
  /\ NewTracker.trades = 0 /\ NewTracker.wins = 0
BY DEF NewTracker, IsTracker

-----------------------------------------------------------------------------
(* Equities from zero *)

LEMMA FromZero ==
  ASSUME NEW q \in Seq(Lowest)
  PROVE  /\ Len(<<Zero>> \o q) = Len(q) + 1 /\ Len(q) \in Nat /\ (<<Zero>> \o q)[1] = Zero
         /\ \A k \in 1 .. Len(q) : (<<Zero>> \o q)[k + 1] = q[k] /\ Reduced(q[k])
<1>1. Zero \in Lowest /\ \A k \in 1 .. Len(q) : Reduced(q[k])
  BY WholeReduced, LowestIs
<1> QED BY <1>1

LEMMA FallenStart == Fallen(<<Zero>> \o <<>>, Zero, Zero)
<1>1. PICK q : q = <<Zero>> \o <<>>
  OBVIOUS
<1>2. Len(q) = 1 /\ q[1] = Zero /\ \A k \in 1 .. Len(q) : k = 1
  BY <1>1
<1>3. Reduced(Zero) /\ Zero \preceq Zero /\ Zero -- Zero = Zero
  BY WholeReduced, ReducedIs, OrderTotal, PlusZero
<1>4. 1 \in 1 .. Len(q)
  BY <1>2
<1>5. Fallen(q, Zero, Zero)
  BY <1>2, <1>3, <1>4 DEF Fallen
<1> QED BY <1>1, <1>5

LEMMA FallenAppend ==
  ASSUME NEW q \in Seq(Lowest), NEW v \in Lowest, NEW peak, NEW deepest, NEW top,
         Fallen(<<Zero>> \o q, peak, deepest), top = MaxFrac(peak, v)
  PROVE  Fallen(<<Zero>> \o Append(q, v), top, MaxFrac(deepest, top -- v))
<1>1. PICK r : r = Append(q, v)
  OBVIOUS
<1>2. /\ r \in Seq(Lowest) /\ Len(r) = Len(q) + 1 /\ r[Len(q) + 1] = v /\ Len(q) \in Nat
      /\ \A k \in 1 .. Len(q) : r[k] = q[k]
  BY <1>1
<1>3. PICK a, b, n : a = <<Zero>> \o q /\ b = <<Zero>> \o r /\ n = Len(q) + 1
  OBVIOUS
<1>4. n \in Nat /\ Len(a) = n /\ Len(b) = n + 1
  BY <1>2, <1>3, FromZero
<1>5. /\ a[1] = Zero /\ b[1] = Zero /\ \A k \in 1 .. Len(q) : a[k + 1] = q[k]
      /\ \A k \in 1 .. n : b[k + 1] = r[k]
  BY <1>2, <1>3, FromZero
<1>6. ASSUME NEW k \in 1 .. n
      PROVE  b[k] = a[k]
  <2>1. CASE k = 1
    BY <1>5, <2>1
  <2>2. CASE k # 1
    <3>1. PICK j \in 1 .. Len(q) : k = j + 1
      <4>1. k - 1 \in 1 .. Len(q) /\ k = (k - 1) + 1
        BY <1>2, <1>3, <2>2
      <4> QED BY <4>1
    <3>2. j \in 1 .. n
      BY <1>2, <1>3
    <3> QED BY <1>2, <1>5, <3>1, <3>2
  <2> QED BY <2>1, <2>2
<1>7. b[n + 1] = v
  <2>1. n \in 1 .. n /\ r[n] = v
    BY <1>2, <1>3
  <2> QED BY <1>5, <2>1
<1>8. Reduced(v)
  BY LowestIs
<1>9. Fallen(a, peak, deepest)
  BY <1>3
<1>10. Fallen(b, top, MaxFrac(deepest, top -- b[n + 1]))
  BY <1>4, <1>6, <1>7, <1>8, <1>9, FallenMore
<1> QED BY <1>1, <1>3, <1>7, <1>10

-----------------------------------------------------------------------------
(* What the closed trades keep *)

ClosedEquities(q) == [k \in 1 .. Len(q) |-> EquityAt(q, k).equity]

TradesFit(q) ==
  /\ \A k \in 1 .. Len(q) : /\ EquityAt(q, k).equity \in Lowest
                           /\ Reduced(EquityAt(q, k).drawdown)
                           /\ EquityAt(q, k).drawdown \preceq EquityAt(q, Len(q)).deepest
  /\ Fallen(<<Zero>> \o ClosedEquities(q), EquityAt(q, Len(q)).peak, EquityAt(q, Len(q)).deepest)
  /\ EquityAt(q, Len(q)).equity = SumFrac(Profits(q))
  /\ SumFrac(Profits(q)) = ProfitOf(q, "A") ++ ProfitOf(q, "B")
  /\ \A s \in {"A", "B"} : (\A k \in 1 .. Len(q) : q[k].strategy # s) => ProfitOf(q, s) = Zero

LEMMA ClosedAre ==
  ASSUME NEW q, Len(q) \in Nat, \A k \in 1 .. Len(q) : EquityAt(q, k).equity \in Lowest
  PROVE  /\ ClosedEquities(q) \in Seq(Lowest) /\ Len(ClosedEquities(q)) = Len(q)
         /\ \A k \in 1 .. Len(q) : ClosedEquities(q)[k] = EquityAt(q, k).equity
BY DEF ClosedEquities

LEMMA NoTradesFit == TradesFit(<<>>)
<1>1. PICK q : q = <<>>
  OBVIOUS
<1>2. Len(q) = 0 /\ DOMAIN q = {} /\ 1 .. Len(q) = {} /\ q \in Seq(TradeSet)
  BY <1>1
<1>3. EquityAt(q, 0) = EquityStart
  BY EquityNext
<1>4. EquityStart.equity = Zero /\ EquityStart.peak = Zero /\ EquityStart.deepest = Zero
  BY DEF EquityStart
<1>5. ClosedEquities(q) = <<>>
  BY <1>2, ClosedAre
<1>6. Profits(q) = <<>>
  <2>1. Profits(q) \in Seq(Lowest) /\ Len(Profits(q)) = Len(q)
    BY <1>2, ProfitsAre
  <2> QED BY <1>2, <2>1
<1>7. ASSUME NEW s PROVE ProfitOf(q, s) = Zero
  <2>1. Taken(q, {k \in DOMAIN q : q[k].strategy = s}) = <<>>
    <3> DEFINE T == {k \in DOMAIN q : q[k].strategy = s}
    <3> HIDE DEF T
    <3>1. Len(q) \in Nat
      BY <1>2
    <3>2. PICK f : Taken(q, T) = f[Len(q)] /\ f[0] = <<>>
      BY <3>1, TakenIs
    <3>3. Taken(q, T) = <<>>
      BY <1>2, <3>2
    <3> QED BY <3>3 DEF T
  <2>2. Profits(<<>>) = <<>>
    BY <1>1, <1>6
  <2> QED BY <2>1, <2>2, SumOne DEF ProfitOf
<1>8. Zero ++ Zero = Zero
  BY WholeReduced, PlusZero
<1>9. TradesFit(q)
  BY <1>2, <1>3, <1>4, <1>5, <1>6, <1>7, <1>8, SumOne, FallenStart DEF TradesFit
<1> QED BY <1>1, <1>9

\* r is q with the trade t, and the walks along them come to u and to w.
OneTradeMore(q, t, r, w, u) ==
  r = Append(q, t) /\ w = EquityAt(q, Len(q)) /\ u = EquityAt(r, Len(q) + 1)

\* One more trade is one more step of the walk, and adds to the profit of its strategy.
LEMMA TradesFitMore ==
  ASSUME NEW q \in Seq(TradeSet), NEW t \in TradeSet, TradesFit(q), NEW r, NEW w, NEW u,
         OneTradeMore(q, t, r, w, u)
  PROVE  /\ TradesFit(r) /\ Reduced(w.peak) /\ Reduced(w.deepest)
         /\ u.equity = SumFrac(Profits(r)) /\ Reduced(u.equity)
         /\ u.peak = MaxFrac(w.peak, u.equity)
         /\ u.deepest = MaxFrac(w.deepest, u.peak -- u.equity)
<1>0. PICK n : /\ n = Len(q) /\ r = Append(q, t) /\ w = EquityAt(q, n)
               /\ u = EquityAt(r, n + 1)
  BY DEF OneTradeMore
<1>1. /\ r \in Seq(TradeSet) /\ Len(r) = n + 1 /\ r[n + 1] = t /\ n \in Nat
      /\ \A k \in 1 .. n : r[k] = q[k]
  BY <1>0
<1>2. PICK e, p, d : e = w.equity ++ t.pnl /\ p = MaxFrac(w.peak, e) /\ d = p -- e
  OBVIOUS
<1>3. u = EquityStep(w, t.pnl)
  <2>1. EquityAt(r, n) = EquityAt(q, n)
    <3>1. \A k \in 1 .. n : r[k].pnl = q[k].pnl
      BY <1>1
    <3> QED BY <1>1, <1>0, <3>1, EquityKept
  <2> QED BY <1>1, <1>0, <2>1, EquityNext
<1>4. u.equity = e /\ u.peak = p /\ u.drawdown = d /\ u.deepest = MaxFrac(w.deepest, d)
  BY <1>2, <1>3 DEF EquityStep
<1>5. /\ \A k \in 1 .. n : /\ EquityAt(q, k).equity \in Lowest /\ Reduced(EquityAt(q, k).drawdown)
                          /\ EquityAt(q, k).drawdown \preceq w.deepest
      /\ Fallen(<<Zero>> \o ClosedEquities(q), w.peak, w.deepest)
      /\ w.equity = SumFrac(Profits(q))
      /\ SumFrac(Profits(q)) = ProfitOf(q, "A") ++ ProfitOf(q, "B")
  BY <1>0 DEF TradesFit
<1>6. /\ SumFrac(Profits(r)) = SumFrac(Profits(q)) ++ t.pnl
      /\ Reduced(SumFrac(Profits(q))) /\ Reduced(t.pnl)
  BY <1>0, ProfitsMore
<1>7. e = SumFrac(Profits(r)) /\ Reduced(e) /\ e \in Lowest
  BY <1>2, <1>5, <1>6, Reduces, ReducedIs, LowestIs
<1>8. Reduced(w.peak) /\ Reduced(w.deepest)
  BY <1>5 DEF Fallen
<1>9. Reduced(p) /\ Reduced(d) /\ d \preceq u.deepest /\ w.deepest \preceq u.deepest /\ Reduced(u.deepest)
  <2>1. Reduced(p)
    BY <1>2, <1>7, <1>8, GreaterOf
  <2>2. Reduced(d)
    BY <1>2, <1>7, <2>1, Reduces, ReducedIs
  <2> QED BY <1>4, <1>8, <2>1, <2>2, GreaterOf
<1>10. ASSUME NEW k \in 1 .. n
       PROVE  EquityAt(r, k) = EquityAt(q, k)
  <2>1. k \in Nat /\ \A j \in 1 .. k : r[j].pnl = q[j].pnl
    BY <1>1
  <2> QED BY <2>1, EquityKept
<1>11. ASSUME NEW k \in 1 .. n + 1
       PROVE  /\ EquityAt(r, k).equity \in Lowest /\ Reduced(EquityAt(r, k).drawdown)
              /\ EquityAt(r, k).drawdown \preceq u.deepest
  <2>1. CASE k = n + 1
    BY <1>4, <1>7, <1>9, <1>0, <2>1
  <2>2. CASE k \in 1 .. n
    <3>1. /\ EquityAt(r, k) = EquityAt(q, k) /\ EquityAt(q, k).equity \in Lowest
          /\ Reduced(EquityAt(q, k).drawdown) /\ EquityAt(q, k).drawdown \preceq w.deepest
      BY <1>5, <1>10, <2>2
    <3>2. EquityAt(q, k).drawdown \preceq u.deepest
      BY <1>8, <1>9, <3>1, Transitive
    <3> QED BY <3>1, <3>2
  <2> QED BY <1>1, <2>1, <2>2
<1>12. Fallen(<<Zero>> \o ClosedEquities(r), u.peak, u.deepest)
  <2>1. PICK a, b : a = ClosedEquities(q) /\ b = ClosedEquities(r)
    OBVIOUS
  <2>2. a \in Seq(Lowest) /\ Len(a) = n /\ \A k \in 1 .. n : a[k] = EquityAt(q, k).equity
    BY <1>0, <1>1, <1>5, <2>1, ClosedAre
  <2>3. b \in Seq(Lowest) /\ Len(b) = n + 1 /\ \A k \in 1 .. n + 1 : b[k] = EquityAt(r, k).equity
    <3>1. Len(r) \in Nat /\ \A k \in 1 .. Len(r) : EquityAt(r, k).equity \in Lowest
      BY <1>1, <1>11
    <3> QED BY <1>1, <2>1, <3>1, ClosedAre
  <2>4. b[n + 1] = e /\ \A k \in 1 .. n : b[k] = a[k]
    <3>1. n + 1 \in 1 .. n + 1 /\ \A k \in 1 .. n : k \in 1 .. n + 1
      BY <1>1
    <3> QED BY <1>4, <1>10, <1>0, <2>2, <2>3, <3>1
  <2>5. b = Append(a, e)
    <3>1. Append(a, e) = [k \in 1 .. n + 1 |-> IF k = n + 1 THEN e ELSE a[k]]
      BY <1>7, <2>2, AppendIs
    <3>2. b = [k \in 1 .. n + 1 |-> b[k]]
      BY <2>3
    <3>3. \A k \in 1 .. n + 1 : b[k] = IF k = n + 1 THEN e ELSE a[k]
      BY <1>1, <2>4
    <3> QED BY <3>1, <3>2, <3>3
  <2>6. Fallen(<<Zero>> \o Append(a, e), p, MaxFrac(w.deepest, p -- e))
    BY <1>2, <1>5, <1>7, <2>1, <2>2, FallenAppend
  <2> QED BY <1>2, <1>4, <2>1, <2>5, <2>6
<1>13. SumFrac(Profits(r)) = ProfitOf(r, "A") ++ ProfitOf(r, "B")
  <2>1. PICK a, b : a = ProfitOf(q, "A") /\ b = ProfitOf(q, "B")
    OBVIOUS
  <2>2. /\ ProfitOf(r, "A") = IF t.strategy = "A" THEN a ++ t.pnl ELSE a
        /\ ProfitOf(r, "B") = IF t.strategy = "B" THEN b ++ t.pnl ELSE b
        /\ Reduced(a) /\ Reduced(b)
    BY <1>0, <2>1, PartMore
  <2>3. SumFrac(Profits(r)) = (a ++ b) ++ t.pnl
    BY <1>5, <1>6, <2>1
  <2>4. (a ++ b) ++ t.pnl = a ++ (b ++ t.pnl)
    BY <1>6, <2>2, PlusAssociates
  <2>5. (a ++ t.pnl) ++ b = a ++ (t.pnl ++ b) /\ t.pnl ++ b = b ++ t.pnl
    BY <1>6, <2>2, PlusAssociates, PlusCommutes
  <2>6. t.strategy \in {"A", "B"}
    BY DEF TradeSet
  <2> QED BY <2>2, <2>3, <2>4, <2>5, <2>6
<1>14. ASSUME NEW s \in {"A", "B"}, \A k \in 1 .. n + 1 : r[k].strategy # s
       PROVE  ProfitOf(r, s) = Zero
  <2>1. t.strategy # s
    <3>1. n + 1 \in 1 .. n + 1
      BY <1>1
    <3> QED BY <1>1, <1>14, <3>1
  <2>2. \A k \in 1 .. n : q[k].strategy # s
    BY <1>1, <1>14
  <2>3. ProfitOf(q, s) = Zero
    BY <1>0, <2>2 DEF TradesFit
  <2> QED BY <1>0, <2>1, <2>3, PartMore
<1>15. TradesFit(r)
  BY <1>1, <1>4, <1>7, <1>0, <1>11, <1>12, <1>13, <1>14 DEF TradesFit
<1> QED BY <1>2, <1>4, <1>7, <1>8, <1>15

-----------------------------------------------------------------------------
(* The session seen by the tracker: its invariant *)

MarkSet == [equity : Lowest, trades : Nat, open : Lowest]

\* A report has the equity after the fills before it, and the open profit.
MarksFit ==
  /\ \A i \in 1 .. Len(marks) :
       /\ marks[i].trades <= Len(trades)
       /\ marks[i].equity = EquityAt(trades, marks[i].trades).equity ++ marks[i].open
  /\ \A i, j \in 1 .. Len(marks) : i < j => marks[i].trades <= marks[j].trades

TrackingInv ==
  /\ trades \in Seq(TradeSet) /\ marks \in Seq(MarkSet) /\ IsTracker(tracker)
  /\ Fallen(<<Zero>> \o EquitiesOf(marks), tracker.peak, tracker.maxDrawdown)
  /\ TradesFit(trades) /\ MarksFit
  /\ tracker.trades = Len(trades) /\ tracker.wins = Len(Wins(trades))

LEMMA MarkIs ==
  ASSUME NEW m \in MarkSet
  PROVE  m.equity \in Lowest /\ m.trades \in Nat /\ m.open \in Lowest
BY DEF MarkSet

LEMMA EquitiesAre ==
  ASSUME NEW q \in Seq(MarkSet)
  PROVE  /\ EquitiesOf(q) \in Seq(Lowest) /\ Len(EquitiesOf(q)) = Len(q) /\ Len(q) \in Nat
         /\ \A k \in 1 .. Len(q) : EquitiesOf(q)[k] = q[k].equity
<1>1. Len(q) \in Nat /\ DOMAIN q = 1 .. Len(q) /\ \A k \in 1 .. Len(q) : q[k].equity \in Lowest
  <2>1. \A k \in 1 .. Len(q) : q[k] \in MarkSet
    OBVIOUS
  <2> QED BY <2>1, MarkIs
<1>2. PICK f : f = [k \in 1 .. Len(q) |-> q[k].equity]
  OBVIOUS
<1>3. f \in Seq(Lowest) /\ Len(f) = Len(q)
  BY <1>1, <1>2
<1>4. SubSeq(f, 1, Len(q)) = f
  BY <1>3
<1>5. EquitiesOf(q) = f
  BY <1>1, <1>2, <1>4 DEF EquitiesOf
<1> QED BY <1>1, <1>2, <1>3, <1>5

LEMMA EquitiesMore ==
  ASSUME NEW q \in Seq(MarkSet), NEW m \in MarkSet
  PROVE  EquitiesOf(Append(q, m)) = Append(EquitiesOf(q), m.equity)
<1>1. PICK r, a, b : r = Append(q, m) /\ a = EquitiesOf(q) /\ b = EquitiesOf(r)
  OBVIOUS
<1>2. /\ r \in Seq(MarkSet) /\ Len(r) = Len(q) + 1 /\ r[Len(q) + 1] = m /\ Len(q) \in Nat
      /\ \A k \in 1 .. Len(q) : r[k] = q[k]
  BY <1>1
<1>3. a \in Seq(Lowest) /\ Len(a) = Len(q) /\ \A k \in 1 .. Len(q) : a[k] = q[k].equity
  BY <1>1, EquitiesAre
<1>4. b \in Seq(Lowest) /\ Len(b) = Len(q) + 1 /\ \A k \in 1 .. Len(q) + 1 : b[k] = r[k].equity
  BY <1>1, <1>2, EquitiesAre
<1>5. PICK c : c = Append(a, m.equity)
  OBVIOUS
<1>6. /\ c \in Seq(Lowest) /\ Len(c) = Len(q) + 1 /\ c[Len(q) + 1] = m.equity
      /\ \A k \in 1 .. Len(q) : c[k] = a[k]
  BY <1>3, <1>5, MarkIs
<1>7. \A k \in 1 .. Len(b) : b[k] = c[k]
  <2> SUFFICES ASSUME NEW k \in 1 .. Len(b) PROVE b[k] = c[k]
    OBVIOUS
  <2>1. k \in 1 .. Len(q) + 1
    BY <1>4
  <2>2. CASE k = Len(q) + 1
    BY <1>2, <1>4, <1>6, <2>1, <2>2
  <2>3. CASE k # Len(q) + 1
    <3>1. k \in 1 .. Len(q)
      BY <1>2, <2>1, <2>3
    <3> QED BY <1>2, <1>3, <1>4, <1>6, <2>1, <3>1
  <2> QED BY <2>2, <2>3
<1>8. b = c
  BY <1>4, <1>6, <1>7, SeqEqual
<1> QED BY <1>1, <1>5, <1>8

LEMMA TrackingInitInv == TrackingInit => TrackingInv
<1> SUFFICES ASSUME TrackingInit PROVE TrackingInv
  OBVIOUS
<1>1. trades = <<>> /\ marks = <<>> /\ tracker = NewTracker
  BY DEF TrackingInit
<1>2. trades \in Seq(TradeSet) /\ marks \in Seq(MarkSet) /\ Len(trades) = 0 /\ Len(marks) = 0
  BY <1>1
<1>3. EquitiesOf(marks) = <<>>
  <2>1. EquitiesOf(marks) \in Seq(Lowest) /\ Len(EquitiesOf(marks)) = 0
    BY <1>2, EquitiesAre
  <2> QED BY <2>1, EmptySeq
<1>4. MarksFit
  BY <1>2 DEF MarksFit
<1>5. Len(Wins(trades)) = 0
  <2> DEFINE T == {k \in DOMAIN trades : Zero \prec trades[k].pnl}
  <2> HIDE DEF T
  <2>1. Len(trades) \in Nat
    BY <1>2
  <2>2. PICK f : Taken(trades, T) = f[Len(trades)] /\ f[0] = <<>>
    BY <2>1, TakenIs
  <2>3. Taken(trades, T) = <<>>
    BY <1>2, <2>2
  <2> QED BY <2>3 DEF T, Wins
<1>6. TradesFit(trades) /\ Fallen(<<Zero>> \o EquitiesOf(marks), Zero, Zero)
  BY <1>1, <1>3, NoTradesFit, FallenStart
<1> QED BY <1>1, <1>2, <1>4, <1>5, <1>6, NewTrackerIs DEF TrackingInv

\* An equity that is reported takes the tracker one value further.
LEMMA ReportKeeps ==
  ASSUME NEW q \in Seq(MarkSet), NEW t, IsTracker(t),
         Fallen(<<Zero>> \o EquitiesOf(q), t.peak, t.maxDrawdown),
         NEW realized, NEW open, NEW m \in MarkSet, m.equity = realized ++ open,
         NEW u, u = UpdateTracker(t, realized, open)
  PROVE  /\ IsTracker(u) /\ u.trades = t.trades /\ u.wins = t.wins
         /\ Fallen(<<Zero>> \o EquitiesOf(Append(q, m)), u.peak, u.maxDrawdown)
<1>1. PICK a, equity : a = EquitiesOf(q) /\ equity = m.equity
  OBVIOUS
<1>2. a \in Seq(Lowest) /\ equity \in Lowest /\ Fallen(<<Zero>> \o a, t.peak, t.maxDrawdown)
  BY <1>1, EquitiesAre, MarkIs
<1>3. /\ IsTracker(u) /\ u.trades = t.trades /\ u.wins = t.wins
      /\ u.peak = MaxFrac(t.peak, equity) /\ u.maxDrawdown = MaxFrac(t.maxDrawdown, u.peak -- equity)
  BY <1>1, UpdateIs
<1>4. Fallen(<<Zero>> \o Append(a, equity), u.peak, MaxFrac(t.maxDrawdown, u.peak -- equity))
  BY <1>2, <1>3, FallenAppend
<1>5. EquitiesOf(Append(q, m)) = Append(a, equity)
  BY <1>1, EquitiesMore
<1> QED BY <1>3, <1>4, <1>5

LEMMA TradeFillsInv ==
  ASSUME TrackingInv, NEW strategy \in {"A", "B"}, NEW pnl \in Lowest, NEW closes \in BOOLEAN,
         TradeFills(strategy, pnl, closes)
  PROVE  TrackingInv'
<1>1. PICK trade : trade = [time |-> Len(marks) + 1, strategy |-> strategy, pnl |-> pnl,
                            closes |-> closes]
  OBVIOUS
<1>2. trades' = Append(trades, trade) /\ tracker' = RecordTrade(tracker, pnl) /\ marks' = marks
  BY <1>1 DEF TradeFills
<1>3. /\ trades \in Seq(TradeSet) /\ marks \in Seq(MarkSet) /\ IsTracker(tracker)
      /\ Fallen(<<Zero>> \o EquitiesOf(marks), tracker.peak, tracker.maxDrawdown)
      /\ TradesFit(trades) /\ MarksFit
      /\ tracker.trades = Len(trades) /\ tracker.wins = Len(Wins(trades))
  BY DEF TrackingInv
<1>4. trade \in TradeSet /\ trade.pnl = pnl
  <2>1. Len(marks) + 1 \in Nat
    BY <1>3
  <2> QED BY <1>1, <2>1 DEF TradeSet
<1>5. /\ trades' \in Seq(TradeSet) /\ Len(trades') = Len(trades) + 1 /\ Len(trades) \in Nat
      /\ \A k \in 1 .. Len(trades) : trades'[k] = trades[k]
  BY <1>2, <1>3, <1>4
<1>6. PICK t : t = RecordTrade(tracker, pnl)
  OBVIOUS
<1>7. /\ IsTracker(t) /\ t.peak = tracker.peak /\ t.maxDrawdown = tracker.maxDrawdown
      /\ t.trades = tracker.trades + 1 /\ t.wins = tracker.wins + (IF Zero \prec pnl THEN 1 ELSE 0)
  BY <1>3, <1>6, RecordIs
<1>8. TradesFit(trades')
  <2>1. PICK r, w, u : /\ r = Append(trades, trade) /\ w = EquityAt(trades, Len(trades))
                       /\ u = EquityAt(Append(trades, trade), Len(trades) + 1)
    OBVIOUS
  <2>2. OneTradeMore(trades, trade, r, w, u)
    BY <2>1 DEF OneTradeMore
  <2>3. TradesFit(r)
    BY <1>3, <1>4, <2>2, TradesFitMore
  <2> QED BY <1>2, <2>1, <2>3
<1>9. MarksFit'
  <2>1. ASSUME NEW i \in 1 .. Len(marks)
        PROVE  /\ marks[i].trades <= Len(trades')
               /\ marks[i].equity = EquityAt(trades', marks[i].trades).equity ++ marks[i].open
    <3>1. PICK n, r, q : n = marks[i].trades /\ r = trades' /\ q = trades
      OBVIOUS
    <3>2. n \in Nat /\ n <= Len(trades)
      <4>1. marks[i] \in MarkSet
        BY <1>3
      <4> QED BY <1>3, <3>1, <4>1, MarkIs DEF MarksFit
    <3>3. \A k \in 1 .. n : r[k].pnl = q[k].pnl
      BY <1>5, <3>1, <3>2
    <3>4. EquityAt(r, n) = EquityAt(q, n)
      BY <3>2, <3>3, EquityKept
    <3>5. marks[i].equity = EquityAt(q, n).equity ++ marks[i].open
      BY <1>3, <3>1 DEF MarksFit
    <3> QED BY <1>5, <3>1, <3>2, <3>4, <3>5
  <2> QED BY <1>2, <1>3, <2>1 DEF MarksFit
<1>10. tracker'.wins = Len(Wins(trades'))
  <2>1. Len(Wins(trades')) = Len(Wins(trades)) + (IF Zero \prec pnl THEN 1 ELSE 0)
    BY <1>2, <1>3, <1>4, WinsMore
  <2> QED BY <1>2, <1>3, <1>6, <1>7, <2>1
<1>11. /\ marks' \in Seq(MarkSet) /\ IsTracker(tracker') /\ tracker'.trades = Len(trades')
       /\ Fallen(<<Zero>> \o EquitiesOf(marks'), tracker'.peak, tracker'.maxDrawdown)
  BY <1>2, <1>3, <1>5, <1>6, <1>7
<1> QED BY <1>5, <1>8, <1>9, <1>10, <1>11 DEF TrackingInv

LEMMA TickReportedInv ==
  ASSUME TrackingInv, NEW open \in Lowest, TickReported(open)
  PROVE  TrackingInv'
<1>1. /\ trades \in Seq(TradeSet) /\ marks \in Seq(MarkSet) /\ IsTracker(tracker)
      /\ Fallen(<<Zero>> \o EquitiesOf(marks), tracker.peak, tracker.maxDrawdown)
      /\ TradesFit(trades) /\ MarksFit
      /\ tracker.trades = Len(trades) /\ tracker.wins = Len(Wins(trades))
  BY DEF TrackingInv
<1>2. PICK realized, n : realized = SumFrac(Profits(trades)) /\ n = Len(trades)
  OBVIOUS
<1>3. Reduced(realized) /\ Reduced(open) /\ n \in Nat
  <2>1. Len(Profits(trades)) \in Nat /\ Len(trades) \in Nat
    BY <1>1, ProfitsAre
  <2>2. \A k \in 1 .. Len(Profits(trades)) : Reduced(Profits(trades)[k])
    BY <1>1, ProfitsAre, LowestIs
  <2> QED BY <1>2, <2>1, <2>2, SumReduced, LowestIs
<1>4. PICK m : m = [equity |-> realized ++ open, trades |-> n, open |-> open]
  OBVIOUS
<1>5. m \in MarkSet /\ m.equity = realized ++ open /\ m.trades = n /\ m.open = open
  <2>1. realized ++ open \in Lowest
    BY <1>3, Reduces, ReducedIs, LowestIs
  <2> QED BY <1>3, <1>4, <2>1 DEF MarkSet
<1>6. /\ marks' = Append(marks, m) /\ tracker' = UpdateTracker(tracker, realized, open)
      /\ trades' = trades
  BY <1>2, <1>4 DEF TickReported
<1>7. /\ IsTracker(tracker') /\ tracker'.trades = tracker.trades /\ tracker'.wins = tracker.wins
      /\ Fallen(<<Zero>> \o EquitiesOf(marks'), tracker'.peak, tracker'.maxDrawdown)
  <2>1. PICK q, t, u : q = marks /\ t = tracker /\ u = tracker'
    OBVIOUS
  <2>2. /\ q \in Seq(MarkSet) /\ IsTracker(t)
        /\ Fallen(<<Zero>> \o EquitiesOf(q), t.peak, t.maxDrawdown)
        /\ u = UpdateTracker(t, realized, open)
    BY <1>1, <1>6, <2>1
  <2>3. /\ IsTracker(u) /\ u.trades = t.trades /\ u.wins = t.wins
        /\ Fallen(<<Zero>> \o EquitiesOf(Append(q, m)), u.peak, u.maxDrawdown)
    BY ONLY <1>5, <2>2, ReportKeeps
  <2> QED BY <1>6, <2>1, <2>3
<1>8. /\ marks' \in Seq(MarkSet) /\ Len(marks') = Len(marks) + 1 /\ marks'[Len(marks) + 1] = m
      /\ Len(marks) \in Nat /\ \A i \in 1 .. Len(marks) : marks'[i] = marks[i] /\ marks[i] \in MarkSet
  BY <1>1, <1>5, <1>6
<1>9. EquityAt(trades, n).equity = realized
  BY <1>1, <1>2 DEF TradesFit
<1>10. MarksFit'
  <2>1. ASSUME NEW i \in 1 .. Len(marks')
        PROVE  /\ marks'[i].trades <= n /\ marks'[i].trades \in Nat
               /\ marks'[i].equity = EquityAt(trades, marks'[i].trades).equity ++ marks'[i].open
    <3>1. CASE i = Len(marks) + 1
      BY <1>3, <1>5, <1>8, <1>9, <3>1
    <3>2. CASE i # Len(marks) + 1
      <4>1. i \in 1 .. Len(marks)
        BY <1>8, <3>2
      <4>2. marks'[i] = marks[i] /\ marks[i].trades \in Nat
        BY <1>8, <4>1, MarkIs
      <4> QED BY <1>1, <1>2, <4>1, <4>2 DEF MarksFit
    <3> QED BY <3>1, <3>2
  <2>2. ASSUME NEW i \in 1 .. Len(marks'), NEW j \in 1 .. Len(marks'), i < j
        PROVE  marks'[i].trades <= marks'[j].trades
    <3>1. i \in 1 .. Len(marks)
      BY <1>8, <2>2
    <3>2. CASE j = Len(marks) + 1
      BY <1>5, <1>8, <2>1, <3>2
    <3>3. CASE j # Len(marks) + 1
      <4>1. j \in 1 .. Len(marks)
        BY <1>8, <3>3
      <4> QED BY <1>1, <1>8, <2>2, <3>1, <4>1 DEF MarksFit
    <3> QED BY <3>2, <3>3
  <2> QED BY <1>2, <1>6, <2>1, <2>2 DEF MarksFit
<1> QED BY <1>1, <1>6, <1>7, <1>8, <1>10 DEF TrackingInv

LEMMA TrackingStep ==
  ASSUME Amounts \subseteq Lowest
  PROVE  TrackingInv /\ [TrackingNext]_trackingVars => TrackingInv'
<1> SUFFICES ASSUME TrackingInv, [TrackingNext]_trackingVars PROVE TrackingInv'
  OBVIOUS
<1>1. CASE UNCHANGED trackingVars
  BY <1>1 DEF TrackingInv, MarksFit, trackingVars
<1>2. \A pnl \in Amounts \cup {Zero} : pnl \in Lowest
  BY WholeReduced, LowestIs
<1>3. ASSUME NEW pnl \in Amounts \cup {Zero}, NEW strategy \in {"A", "B"}, NEW closes \in BOOLEAN,
             TradeFills(strategy, pnl, closes)
      PROVE  TrackingInv'
  BY <1>2, <1>3, TradeFillsInv
<1>4. ASSUME NEW pnl \in Amounts \cup {Zero}, TickReported(pnl)
      PROVE  TrackingInv'
  BY <1>2, <1>4, TickReportedInv
<1> QED BY <1>1, <1>3, <1>4 DEF TrackingNext

\* The equities the summary and the tracker compare, the one they begin with first
Booked == <<Zero>> \o ClosedEquities(trades)
Marked == <<Zero>> \o EquitiesOf(marks)

\* When every fill had a report of its own, an equity after a fill is one that was reported.
LEMMA AloneIs ==
  ASSUME TrackingInv, ReportedAlone
  PROVE  \A i \in 1 .. Len(Booked) : \E x \in 1 .. Len(Marked) :
           /\ Marked[x] = Booked[i] /\ (i = 1 => x = 1)
           /\ i # 1 => x # 1 /\ marks[x - 1].trades = i - 1
<1> SUFFICES ASSUME NEW a, a = Booked, NEW b, b = Marked, NEW i \in 1 .. Len(a)
             PROVE  \E x \in 1 .. Len(b) : /\ b[x] = a[i] /\ (i = 1 => x = 1)
                                           /\ i # 1 => x # 1 /\ marks[x - 1].trades = i - 1
  OBVIOUS
<1>1. trades \in Seq(TradeSet) /\ marks \in Seq(MarkSet) /\ TradesFit(trades) /\ MarksFit
  BY DEF TrackingInv
<1>2. PICK c, d : c = ClosedEquities(trades) /\ d = EquitiesOf(marks)
  OBVIOUS
<1>3. Len(trades) \in Nat /\ \A k \in 1 .. Len(trades) : EquityAt(trades, k).equity \in Lowest
  BY <1>1 DEF TradesFit
<1>4. /\ c \in Seq(Lowest) /\ Len(c) = Len(trades)
      /\ \A k \in 1 .. Len(trades) : c[k] = EquityAt(trades, k).equity
  BY <1>2, <1>3, ClosedAre
<1>5. /\ d \in Seq(Lowest) /\ Len(d) = Len(marks) /\ Len(marks) \in Nat
      /\ \A k \in 1 .. Len(marks) : d[k] = marks[k].equity
  BY <1>1, <1>2, EquitiesAre
<1>6. /\ Len(a) = Len(c) + 1 /\ a[1] = Zero /\ \A k \in 1 .. Len(c) : a[k + 1] = c[k] /\ Reduced(c[k])
      /\ Len(b) = Len(d) + 1 /\ b[1] = Zero /\ \A k \in 1 .. Len(d) : b[k + 1] = d[k]
  BY <1>2, <1>4, <1>5, FromZero DEF Booked, Marked
<1>7. CASE i = 1
  <2>1. 1 \in 1 .. Len(b)
    BY <1>5, <1>6
  <2> QED BY <1>6, <1>7, <2>1
<1>8. CASE i # 1
  <2>1. PICK k \in 1 .. Len(trades) : i = k + 1
    <3>1. i - 1 \in 1 .. Len(trades) /\ i = (i - 1) + 1
      BY <1>3, <1>4, <1>6, <1>8
    <3> QED BY <3>1
  <2>2. PICK y \in 1 .. Len(marks) : marks[y].trades = k /\ marks[y].open = Zero
    <3>1. DOMAIN trades = 1 .. Len(trades) /\ DOMAIN marks = 1 .. Len(marks)
      BY <1>1
    <3> QED BY <2>1, <3>1 DEF ReportedAlone
  <2>3. marks[y].equity = c[k] ++ Zero
    BY <1>1, <1>4, <2>1, <2>2 DEF MarksFit
  <2>4. c[k] ++ Zero = c[k]
    BY <1>4, <1>6, <2>1, PlusZero
  <2>5. b[y + 1] = a[i] /\ y + 1 \in 1 .. Len(b) /\ y + 1 # 1 /\ (y + 1) - 1 = y /\ i - 1 = k
    BY <1>4, <1>5, <1>6, <2>1, <2>2, <2>3, <2>4
  <2> QED BY <1>8, <2>2, <2>5
<1> QED BY <1>7, <1>8

\* A fall over the fills is then one the tracker was told of.
LEMMA NotDeeper ==
  ASSUME TrackingInv, ReportedAlone
  PROVE  EquityAt(trades, Len(trades)).deepest \preceq tracker.maxDrawdown
<1>1. PICK a, b, n : a = Booked /\ b = Marked /\ n = Len(trades)
  OBVIOUS
<1>2. /\ Fallen(a, EquityAt(trades, n).peak, EquityAt(trades, n).deepest)
      /\ Fallen(b, tracker.peak, tracker.maxDrawdown) /\ MarksFit
      /\ marks \in Seq(MarkSet)
  BY <1>1 DEF TrackingInv, TradesFit, Booked, Marked
<1>3. PICK i \in 1 .. Len(a), j \in 1 .. Len(a) :
        i <= j /\ EquityAt(trades, n).deepest = a[i] -- a[j]
  BY <1>2 DEF Fallen
<1>4. PICK x \in 1 .. Len(b) : /\ b[x] = a[i] /\ (i = 1 => x = 1)
                               /\ i # 1 => x # 1 /\ marks[x - 1].trades = i - 1
  BY <1>1, <1>3, AloneIs
<1>5. PICK y \in 1 .. Len(b) : /\ b[y] = a[j] /\ (j = 1 => y = 1)
                               /\ j # 1 => y # 1 /\ marks[y - 1].trades = j - 1
  BY <1>1, <1>3, AloneIs
<1>6. Len(b) = Len(marks) + 1 /\ Len(marks) \in Nat
  <2>1. EquitiesOf(marks) \in Seq(Lowest) /\ Len(EquitiesOf(marks)) = Len(marks)
    BY <1>2, EquitiesAre
  <2> QED BY <1>1, <2>1, FromZero DEF Marked
<1>9. \A k, l \in 1 .. Len(b) : k <= l => (b[k] -- b[l]) \preceq tracker.maxDrawdown
  BY <1>2 DEF Fallen
<1>7. CASE i = j
  <2>1. EquityAt(trades, n).deepest = b[x] -- b[x] /\ x <= x
    BY <1>3, <1>4, <1>6, <1>7
  <2> QED BY <1>1, <1>9, <2>1
<1>8. CASE i # j
  <2>1. i < j /\ j # 1
    BY <1>3, <1>8
  <2>2. x <= y
    <3>1. CASE i = 1
      BY <1>4, <1>5, <3>1
    <3>2. CASE i # 1
      <4>1. /\ x - 1 \in 1 .. Len(marks) /\ y - 1 \in 1 .. Len(marks)
            /\ marks[x - 1].trades = i - 1 /\ marks[y - 1].trades = j - 1
        BY <1>4, <1>5, <1>6, <2>1, <3>2
      <4>2. y - 1 < x - 1 => marks[y - 1].trades <= marks[x - 1].trades
        BY <1>2, <4>1 DEF MarksFit
      <4> QED BY <1>6, <2>1, <4>1, <4>2
    <3> QED BY <3>1, <3>2
  <2>3. EquityAt(trades, n).deepest = b[x] -- b[y]
    BY <1>3, <1>4, <1>5
  <2> QED BY <1>1, <1>9, <2>2, <2>3
<1> QED BY <1>3, <1>7, <1>8

LEMMA SummaryIs ==
  /\ Summary(trades).pnl = SumFrac(Profits(trades)) /\ Summary(trades).trades = Len(trades)
  /\ Summary(trades).winRate = WinShare(trades) /\ Summary(trades).maxDrawdown = MaxDrawdown(trades)
BY DEF Summary

LEMMA TrackingAgrees == TrackingInv => DrawdownsAgree
<1> SUFFICES ASSUME TrackingInv PROVE DrawdownsAgree
  OBVIOUS
<1>1. /\ trades \in Seq(TradeSet) /\ marks \in Seq(MarkSet) /\ IsTracker(tracker)
      /\ Fallen(<<Zero>> \o EquitiesOf(marks), tracker.peak, tracker.maxDrawdown)
      /\ TradesFit(trades)
      /\ tracker.trades = Len(trades) /\ tracker.wins = Len(Wins(trades))
  BY DEF TrackingInv
<1>2. PICK n, w : n = Len(trades) /\ w = EquityAt(trades, n)
  OBVIOUS
<1>3. n \in Nat /\ DOMAIN trades = 1 .. n
  BY <1>1, <1>2
<1>4. PICK s, parts, curve : s = Summary(trades) /\ parts = Breakdown(trades) /\ curve = EquityCurve(trades)
  OBVIOUS
<1>5. s.pnl = SumFrac(Profits(trades)) /\ s.trades = n /\ s.winRate = WinShare(trades)
      /\ s.maxDrawdown = w.deepest
  BY <1>2, <1>4, SummaryIs DEF MaxDrawdown
<1>6. /\ \A k \in 1 .. n : /\ EquityAt(trades, k).equity \in Lowest
                          /\ EquityAt(trades, k).drawdown \preceq w.deepest
      /\ Fallen(<<Zero>> \o ClosedEquities(trades), w.peak, w.deepest)
      /\ w.equity = SumFrac(Profits(trades))
      /\ SumFrac(Profits(trades)) = ProfitOf(trades, "A") ++ ProfitOf(trades, "B")
  BY <1>1, <1>2 DEF TradesFit
<1>7. tracker.maxDrawdown = DeepestFall(EquitiesOf(marks))
  <2>1. EquitiesOf(marks) \in Seq(Lowest)
    BY <1>1, EquitiesAre
  <2> QED BY <1>1, <2>1, FallenIs
<1>8. curve = [k \in 1 .. n |-> [time |-> trades[k].time, equity |-> EquityAt(trades, k).equity,
                                 drawdown |-> EquityAt(trades, k).drawdown]]
  BY <1>3, <1>4 DEF EquityCurve
<1>9. /\ DOMAIN curve = 1 .. n /\ Len(curve) = n
      /\ \A k \in 1 .. n : /\ curve[k].equity = EquityAt(trades, k).equity
                          /\ curve[k].drawdown = EquityAt(trades, k).drawdown
  BY <1>3, <1>8
<1>10. PICK closed : closed = ClosedEquities(trades)
  OBVIOUS
<1>11. closed \in Seq(Lowest) /\ Len(closed) = n
       /\ \A k \in 1 .. n : closed[k] = EquityAt(trades, k).equity
  BY <1>2, <1>3, <1>6, <1>10, ClosedAre
<1>12. EquitiesOf(curve) = closed
  <2>1. [i \in DOMAIN curve |-> curve[i].equity] = closed
    <3>1. closed = [i \in 1 .. n |-> closed[i]]
      BY <1>11
    <3> QED BY <1>9, <1>11, <3>1
  <2>2. SubSeq(closed, 1, n) = closed
    BY <1>11
  <2> QED BY <1>9, <2>1, <2>2 DEF EquitiesOf
<1>13. s.maxDrawdown = DeepestFall(closed)
  BY <1>5, <1>6, <1>10, <1>11, FallenIs
<1>14. ReportedAlone => s.maxDrawdown \preceq tracker.maxDrawdown
  BY <1>2, <1>5, NotDeeper
<1>15. curve # <<>> => Last(curve).equity = s.pnl
  <2> SUFFICES ASSUME curve # <<>> PROVE Last(curve).equity = s.pnl
    OBVIOUS
  <2>1. n # 0
    BY <1>8
  <2>2. Last(curve) = curve[n]
    BY <1>9 DEF Last
  <2>3. n \in 1 .. n
    BY <1>3, <2>1
  <2> QED BY <1>2, <1>5, <1>6, <1>9, <2>2, <2>3
<1>16. s.pnl = SumFrac([i \in 1 .. 2 |-> LET of == <<"A", "B">>[i] IN
                          IF of \in DOMAIN parts THEN parts[of].pnl ELSE Zero])
  <2> DEFINE Told(of) == IF of \in DOMAIN parts THEN parts[of].pnl ELSE Zero
  <2>1. ASSUME NEW of \in {"A", "B"} PROVE Told(of) = ProfitOf(trades, of)
    <3>0. parts = [x \in {trades[k].strategy : k \in DOMAIN trades} |->
                    [trades |-> Len(Taken(trades, {k \in DOMAIN trades : trades[k].strategy = x})),
                     pnl |-> SumFrac(Profits(Taken(trades, {k \in DOMAIN trades : trades[k].strategy = x}))),
                     winRate |-> WinShare(Taken(trades, {k \in DOMAIN trades : trades[k].strategy = x})),
                     avg |-> MeanFrac(Profits(Taken(trades, {k \in DOMAIN trades : trades[k].strategy = x})))]]
      BY <1>4 DEF Breakdown
    <3>1. CASE of \in DOMAIN parts
      <4>1. parts[of].pnl = SumFrac(Profits(Taken(trades, {k \in DOMAIN trades : trades[k].strategy = of})))
        BY <3>0, <3>1
      <4> QED BY <3>1, <4>1 DEF ProfitOf
    <3>2. CASE of \notin DOMAIN parts
      <4>1. \A k \in 1 .. Len(trades) : trades[k].strategy # of
        BY <1>2, <1>3, <3>0, <3>2
      <4>2. ProfitOf(trades, of) = Zero
        BY <1>1, <4>1 DEF TradesFit
      <4> QED BY <3>2, <4>2
    <3> QED BY <3>1, <3>2
  <2>2. PICK a, b : a = ProfitOf(trades, "A") /\ b = ProfitOf(trades, "B") /\ Reduced(a) /\ Reduced(b)
    <3>1. [time |-> 0, strategy |-> "A", pnl |-> Zero, closes |-> TRUE] \in TradeSet
      <4>1. Zero \in Lowest
        BY WholeReduced, LowestIs
      <4> QED BY <4>1 DEF TradeSet
    <3>2. PICK t \in TradeSet : TRUE
      BY <3>1
    <3>3. \A of : Reduced(ProfitOf(trades, of))
      BY <1>1, <3>2, PartMore
    <3> QED BY <3>3
  <2>3. Told("A") = a /\ Told("B") = b
    BY <2>1, <2>2
  <2>4. PICK q : q = [i \in 1 .. 2 |-> Told(<<"A", "B">>[i])]
    OBVIOUS
  <2> HIDE DEF Told
  <2>5. Len(q) = 2 /\ q[1] = a /\ q[2] = b
    BY <2>3, <2>4
  <2>6. SumFrac(q) = a ++ b
    BY <2>2, <2>5, SumTwo
  <2>7. s.pnl = SumFrac(q)
    BY <1>5, <1>6, <2>2, <2>6
  <2> QED BY <2>4, <2>7 DEF Told
<1>17. WinRate(tracker) = s.winRate
  <2>1. trades = <<>> <=> n = 0
    BY <1>1, <1>2
  <2> QED BY <1>1, <1>2, <1>5, <2>1 DEF WinRate, WinShare
<1>18. \A i \in DOMAIN curve : curve[i].drawdown \preceq s.maxDrawdown
  BY <1>5, <1>6, <1>9
<1> QED BY <1>1, <1>2, <1>4, <1>5, <1>7, <1>12, <1>13, <1>14, <1>15, <1>16, <1>17, <1>18 DEF DrawdownsAgree

-----------------------------------------------------------------------------
(* The rows of a file and the ticks they stand for *)

RowsOf(f) == {f.rows[k] : k \in DOMAIN f.rows}

TicksOfRow(f, row) == UNION {TicksOf(f.headers, row, prev) : prev \in SUBSET Nat}
TicksOfFile(f) == UNION {TicksOfRow(f, row) : row \in RowsOf(f)}
TickSet == UNION {TicksOfFile(f) : f \in Files}

\* A row is at most one tick, of a number, and later than the ones before it.
LEMMA TickIs ==
  ASSUME NEW f \in Files, NEW row \in RowsOf(f), NEW prev \in SUBSET Nat,
         NEW t \in TicksOf(f.headers, row, prev)
  PROVE  /\ t \in TickSet /\ t.time \in Nat /\ \A p \in prev : t.time > p
         /\ \A u \in TicksOf(f.headers, row, prev) : u = t
<1>1. t \in TickSet
  <2>1. t \in TicksOfRow(f, row)
    BY DEF TicksOfRow
  <2>2. t \in TicksOfFile(f)
    BY <2>1 DEF TicksOfFile
  <2> QED BY <2>2 DEF TickSet
<1> DEFINE c == CHOOSE k \in Columns(f.headers, row, "timestamp") : TRUE
           stamp == CellOf(f.headers, row, "timestamp")
           tick(u) == [time |-> u, bid |-> CellOf(f.headers, row, "bid"),
                       ask |-> CellOf(f.headers, row, "ask"),
                       bidVolume |-> VolumeOf(f.headers, row, "bid_volume"),
                       askVolume |-> VolumeOf(f.headers, row, "ask_volume")]
<1>2. Deserializes(f.headers, row)
  BY DEF TicksOf
<1>3. Columns(f.headers, row, "timestamp") # {}
  <2>1. Cardinality(Columns(f.headers, row, "timestamp")) = 1
    BY <1>2 DEF Deserializes
  <2> QED BY <2>1, FS_EmptySet
<1>4. c \in Columns(f.headers, row, "timestamp") /\ stamp = row[c]
  BY <1>3 DEF CellOf
<1>5. ParseTimestamp(stamp) \subseteq Nat
  <2>1. PICK k \in DOMAIN f.rows : row = f.rows[k]
    BY DEF RowsOf
  <2> HIDE DEF c
  <2> QED BY <1>4, <2>1, FeedAssumption DEF FeedAssumption
<1>6. \A a, b \in ParseTimestamp(stamp) : a = b
  BY DEF ParseTimestamp
<1>7. TicksOf(f.headers, row, prev) =
        {tick(u) : u \in {v \in ParseTimestamp(stamp) :
                            /\ CellOf(f.headers, row, "bid") < CellOf(f.headers, row, "ask")
                            /\ \A p \in prev : v > p}}
  BY <1>2 DEF TicksOf
<1> HIDE DEF stamp, c
<1>8. PICK u \in ParseTimestamp(stamp) : t = tick(u) /\ \A p \in prev : u > p
  BY <1>7
<1>9. t.time = u
  BY <1>8
<1>10. ASSUME NEW w \in TicksOf(f.headers, row, prev)
       PROVE  w = t
  <2>1. PICK v \in ParseTimestamp(stamp) : w = tick(v)
    BY <1>7
  <2>2. v = u
    BY <1>6
  <2> HIDE DEF tick
  <2> QED BY <1>8, <2>1, <2>2
<1> QED BY <1>1, <1>5, <1>8, <1>9, <1>10

LEMMA TickSetIs == \A t \in TickSet : t.time \in Nat
<1> SUFFICES ASSUME NEW t \in TickSet PROVE t.time \in Nat
  OBVIOUS
<1>1. PICK f \in Files : t \in TicksOfFile(f)
  BY DEF TickSet
<1>2. PICK row \in RowsOf(f) : t \in TicksOfRow(f, row)
  BY <1>1 DEF TicksOfFile
<1>3. PICK prev \in SUBSET Nat : t \in TicksOf(f.headers, row, prev)
  BY <1>2 DEF TicksOfRow
<1> QED BY <1>3, TickIs

-----------------------------------------------------------------------------
(* A file that loads *)

Grown(f, ticks, k) ==
  {Append(ticks, tick) :
     tick \in TicksOf(f.headers, f.rows[k], IF ticks = <<>> THEN {} ELSE {Last(ticks).time})}

IsLoading(g, f, n) ==
  g = [k \in 0 .. n |-> IF k = 0 THEN {<<>>} ELSE UNION {Grown(f, ticks, k) : ticks \in g[k - 1]}]

LEMMA LoadingExists ==
  ASSUME NEW f
  PROVE  \A n \in Nat : \E g : IsLoading(g, f, n)
<1> DEFINE S == {n \in Int : \E g : IsLoading(g, f, n)}
           More(g, k) == UNION {Grown(f, ticks, k) : ticks \in g[k - 1]}
<1>1. 0 \in S
  <2> DEFINE g == [k \in 0 .. 0 |-> {<<>>}]
  <2>1. IsLoading(g, f, 0)
    BY DEF IsLoading
  <2> QED BY <2>1
<1>2. ASSUME NEW n \in Nat, n \in S
      PROVE  n + 1 \in S
  <2>1. PICK g : IsLoading(g, f, n)
    BY <1>2
  <2> DEFINE h == [k \in 0 .. n + 1 |-> IF k <= n THEN g[k] ELSE More(g, k)]
  <2>2. ASSUME NEW k \in 0 .. n + 1
        PROVE  h[k] = IF k = 0 THEN {<<>>} ELSE More(h, k)
    <3>1. CASE k = 0
      BY <2>1, <3>1 DEF IsLoading
    <3>2. CASE k # 0
      <4>1. k - 1 \in 0 .. n + 1 /\ k - 1 <= n
        BY <3>2
      <4>2. h[k - 1] = g[k - 1]
        BY <4>1
      <4>3. h[k] = More(g, k)
        <5>1. CASE k <= n
          <6>1. k \in 0 .. n
            BY <5>1
          <6>2. g[k] = More(g, k)
            BY <2>1, <6>1, <3>2 DEF IsLoading
          <6>3. h[k] = g[k]
            BY <5>1
          <6> QED BY <6>2, <6>3
        <5>2. CASE k = n + 1
          BY <5>2
        <5> QED BY <5>1, <5>2
      <4>4. More(h, k) = More(g, k)
        <5> HIDE DEF h
        <5> QED BY <4>2
      <4> QED BY <4>3, <4>4, <3>2
    <3> QED BY <3>1, <3>2
  <2>3. h = [k \in 0 .. n + 1 |-> IF k = 0 THEN {<<>>} ELSE More(h, k)]
    <3>1. h = [k \in 0 .. n + 1 |-> h[k]]
      OBVIOUS
    <3> HIDE DEF h, More
    <3> QED BY <2>2, <3>1
  <2>4. IsLoading(h, f, n + 1)
    BY <2>3 DEF IsLoading
  <2> HIDE DEF h
  <2> QED BY <2>4
<1>3. ASSUME NEW n \in Nat
      PROVE  \E g : IsLoading(g, f, n)
  <2>1. \A k \in 0 .. n - 1 : k \in S => k + 1 \in S
    <3> HIDE DEF S
    <3> QED BY <1>2
  <2>2. 0 .. n \subseteq S
    <3> HIDE DEF S
    <3> QED BY <1>1, <2>1, IntervalInduction
  <2>3. n \in S
    BY <2>2
  <2> QED BY <2>3
<1> QED BY <1>3

LEMMA LoadingIs ==
  ASSUME NEW f, Len(f.rows) \in Nat
  PROVE  \E g : /\ LoadCsv(f.headers, f.rows) = g[Len(f.rows)] /\ g[0] = {<<>>}
                /\ \A k \in 1 .. Len(f.rows) : g[k] = UNION {Grown(f, ticks, k) : ticks \in g[k - 1]}
<1> DEFINE g == CHOOSE h : IsLoading(h, f, Len(f.rows))
<1>1. IsLoading(g, f, Len(f.rows))
  BY LoadingExists
<1>2. LoadCsv(f.headers, f.rows) = g[Len(f.rows)]
  BY DEF LoadCsv, IsLoading, Grown
<1> HIDE DEF g
<1> DEFINE More(k) == UNION {Grown(f, ticks, k) : ticks \in g[k - 1]}
<1>3. g = [k \in 0 .. Len(f.rows) |-> IF k = 0 THEN {<<>>} ELSE More(k)]
  BY <1>1 DEF IsLoading
<1>4. g[0] = {<<>>} /\ \A k \in 1 .. Len(f.rows) : g[k] = More(k)
  <2> HIDE DEF More
  <2>1. 0 \in 0 .. Len(f.rows) /\ \A k \in 1 .. Len(f.rows) : k \in 0 .. Len(f.rows) /\ k # 0
    OBVIOUS
  <2> QED BY <1>3, <2>1
<1> QED BY <1>2, <1>4

\* The ticks of the first n rows, each a tick after the one before it
TimeBefore(ticks, k) == IF k = 1 THEN {} ELSE {ticks[k - 1].time}

LoadedSome(f, ticks, n) ==
  /\ ticks \in Seq(TickSet) /\ Len(ticks) = n
  /\ \A k \in 1 .. n : ticks[k] \in TicksOf(f.headers, f.rows[k], TimeBefore(ticks, k))

LEMMA RowIs ==
  ASSUME NEW f \in Files
  PROVE  /\ Len(f.rows) \in Nat /\ f.rows \in Seq(RowsOf(f)) /\ DOMAIN f.rows = 1 .. Len(f.rows)
         /\ \A k \in 1 .. Len(f.rows) : f.rows[k] \in RowsOf(f)
<1>1. f.rows \in Seq(RowsOf(f))
  BY FeedAssumption DEF FeedAssumption, RowsOf
<1>2. Len(f.rows) \in Nat /\ DOMAIN f.rows = 1 .. Len(f.rows)
  BY <1>1, LenProperties
<1> QED BY <1>1, <1>2 DEF RowsOf

LEMMA LoadedMore ==
  ASSUME NEW f \in Files, NEW n \in Nat, n + 1 <= Len(f.rows), NEW ticks, LoadedSome(f, ticks, n),
         NEW more \in Grown(f, ticks, n + 1)
  PROVE  LoadedSome(f, more, n + 1)
<1> DEFINE prev == IF ticks = <<>> THEN {} ELSE {Last(ticks).time}
<1>1. ticks \in Seq(TickSet) /\ Len(ticks) = n
  BY DEF LoadedSome
<1>2. PICK tick \in TicksOf(f.headers, f.rows[n + 1], prev) : more = Append(ticks, tick)
  BY DEF Grown
<1>3. prev \in SUBSET Nat
  <2>1. CASE ticks = <<>>
    BY <2>1
  <2>2. CASE ticks # <<>>
    <3>1. ticks[n] \in TickSet
      BY <1>1, <2>2
    <3>2. ticks[n].time \in Nat
      BY <3>1, TickSetIs
    <3> QED BY <1>1, <2>2, <3>2 DEF Last
  <2> QED BY <2>1, <2>2
<1>4. tick \in TickSet
  <2>1. f.rows[n + 1] \in RowsOf(f)
    BY RowIs
  <2> HIDE DEF prev
  <2> QED BY <1>2, <1>3, <2>1, TickIs
<1>5. /\ more \in Seq(TickSet) /\ Len(more) = n + 1 /\ more[n + 1] = tick
      /\ \A k \in 1 .. n : more[k] = ticks[k]
  BY <1>1, <1>2, <1>4
<1>6. TimeBefore(more, n + 1) = prev
  <2>1. CASE n = 0
    BY <1>1, <2>1 DEF TimeBefore
  <2>2. CASE n # 0
    <3>1. ticks # <<>> /\ (n + 1) - 1 = n /\ n \in 1 .. n /\ n + 1 # 1
      BY <1>1, <2>2
    <3>2. more[n] = ticks[n]
      BY <1>5, <3>1
    <3> QED BY <1>1, <3>1, <3>2 DEF TimeBefore, Last
  <2> QED BY <2>1, <2>2
<1>7. ASSUME NEW k \in 1 .. n + 1
      PROVE  more[k] \in TicksOf(f.headers, f.rows[k], TimeBefore(more, k))
  <2>1. CASE k = n + 1
    BY <1>2, <1>5, <1>6, <2>1
  <2>2. CASE k # n + 1
    <3>1. k \in 1 .. n /\ (k # 1 => k - 1 \in 1 .. n)
      BY <2>2
    <3>2. TimeBefore(more, k) = TimeBefore(ticks, k)
      BY <1>5, <3>1 DEF TimeBefore
    <3> QED BY <1>5, <3>1, <3>2 DEF LoadedSome
  <2> QED BY <2>1, <2>2
<1> QED BY <1>5, <1>7 DEF LoadedSome

\* Every row of a file that loads is a tick.
LEMMA LoadedIs ==
  ASSUME NEW f \in Files, NEW ticks \in LoadCsv(f.headers, f.rows)
  PROVE  LoadedSome(f, ticks, Len(f.rows))
<1>1. Len(f.rows) \in Nat
  BY RowIs
<1>2. PICK g : /\ LoadCsv(f.headers, f.rows) = g[Len(f.rows)] /\ g[0] = {<<>>}
               /\ \A k \in 1 .. Len(f.rows) : g[k] = UNION {Grown(f, q, k) : q \in g[k - 1]}
  BY <1>1, LoadingIs
<1> DEFINE I == {k \in 0 .. Len(f.rows) : \A q \in g[k] : LoadedSome(f, q, k)}
<1>3. 0 \in I
  <2>1. LoadedSome(f, <<>>, 0)
    BY DEF LoadedSome
  <2> QED BY <1>1, <1>2, <2>1
<1>4. ASSUME NEW k \in 0 .. Len(f.rows) - 1, k \in I
      PROVE  k + 1 \in I
  <2>1. k \in Nat /\ k + 1 \in 1 .. Len(f.rows) /\ (k + 1) - 1 = k /\ k + 1 \in 0 .. Len(f.rows)
        /\ k + 1 <= Len(f.rows)
    BY <1>1
  <2>2. g[k + 1] = UNION {Grown(f, q, k + 1) : q \in g[k]}
    BY <1>2, <2>1
  <2>3. ASSUME NEW more \in g[k + 1]
        PROVE  LoadedSome(f, more, k + 1)
    <3>1. PICK q \in g[k] : more \in Grown(f, q, k + 1)
      BY <2>2
    <3>2. LoadedSome(f, q, k)
      BY <1>4
    <3> QED BY <2>1, <3>1, <3>2, LoadedMore
  <2> QED BY <2>1, <2>3
<1>5. Len(f.rows) \in I
  <2>1. 0 \in Int /\ Len(f.rows) \in Int
    BY <1>1
  <2>2. \A k \in 0 .. Len(f.rows) - 1 : k \in I => k + 1 \in I
    BY <1>4
  <2>3. 0 .. Len(f.rows) \subseteq I
    <3> HIDE DEF I
    <3> QED BY <1>3, <2>1, <2>2, IntervalInduction
  <2>4. Len(f.rows) \in 0 .. Len(f.rows)
    BY <1>1
  <2> HIDE DEF I
  <2> QED BY <2>3, <2>4
<1> QED BY <1>2, <1>5

LEMMA BeforeIs ==
  ASSUME NEW ticks \in Seq(TickSet), NEW k \in 1 .. Len(ticks) + 1
  PROVE  TimeBefore(ticks, k) \in SUBSET Nat
<1>1. CASE k = 1
  BY <1>1 DEF TimeBefore
<1>2. CASE k # 1
  <2>1. k - 1 \in 1 .. Len(ticks)
    BY <1>2
  <2>2. ticks[k - 1].time \in Nat
    BY <2>1, TickSetIs
  <2> QED BY <1>2, <2>2 DEF TimeBefore
<1> QED BY <1>1, <1>2

\* A file loads in one way.
LEMMA LoadedOnce ==
  ASSUME NEW f \in Files, NEW a \in LoadCsv(f.headers, f.rows), NEW b \in LoadCsv(f.headers, f.rows)
  PROVE  a = b
<1> DEFINE n == Len(f.rows)
           I == {k \in 0 .. n : \A i \in 1 .. k : a[i] = b[i]}
<1>1. LoadedSome(f, a, n) /\ LoadedSome(f, b, n) /\ n \in Nat
  BY LoadedIs, RowIs
<1>2. 0 \in I
  BY <1>1
<1>3. ASSUME NEW k \in 0 .. n - 1, k \in I
      PROVE  k + 1 \in I
  <2>1. k + 1 \in 1 .. n /\ k + 1 \in 0 .. n /\ (k + 1 # 1 => (k + 1) - 1 \in 1 .. k)
    BY <1>1
  <2>2. \A i \in 1 .. k : a[i] = b[i]
    BY <1>3
  <2>3. TimeBefore(a, k + 1) = TimeBefore(b, k + 1)
    BY <2>1, <2>2 DEF TimeBefore
  <2>4. /\ a[k + 1] \in TicksOf(f.headers, f.rows[k + 1], TimeBefore(a, k + 1))
        /\ b[k + 1] \in TicksOf(f.headers, f.rows[k + 1], TimeBefore(a, k + 1))
    BY <1>1, <2>1, <2>3 DEF LoadedSome
  <2>5. TimeBefore(a, k + 1) \in SUBSET Nat
    BY <1>1, <2>1, BeforeIs DEF LoadedSome
  <2>6. f.rows[k + 1] \in RowsOf(f)
    BY <2>1, RowIs
  <2>7. a[k + 1] = b[k + 1]
    BY <2>4, <2>5, <2>6, TickIs
  <2> QED BY <2>1, <2>2, <2>7
<1>4. \A i \in 1 .. n : a[i] = b[i]
  <2>1. 0 \in Int /\ n \in Int /\ n \in 0 .. n
    BY <1>1
  <2>2. \A k \in 0 .. n - 1 : k \in I => k + 1 \in I
    BY <1>3
  <2>3. 0 .. n \subseteq I
    <3> HIDE DEF I, n
    <3> QED BY <1>2, <2>1, <2>2, IntervalInduction
  <2>4. n \in I
    BY <2>1, <2>3
  <2> QED BY <2>4
<1> QED BY <1>1, <1>4, SeqEqual DEF LoadedSome

-----------------------------------------------------------------------------
(* What the batches hold together *)

IsJoining(g, s, n) ==
  g = [k \in 0 .. n |-> IF k = 0 THEN <<>> ELSE g[k - 1] \o s.processed[k]]

LEMMA JoiningExists ==
  ASSUME NEW s
  PROVE  \A n \in Nat : \E g : IsJoining(g, s, n)
<1> DEFINE S == {n \in Int : \E g : IsJoining(g, s, n)}
           More(g, k) == g[k - 1] \o s.processed[k]
<1>1. 0 \in S
  <2> DEFINE g == [k \in 0 .. 0 |-> <<>>]
  <2>1. IsJoining(g, s, 0)
    BY DEF IsJoining
  <2> QED BY <2>1
<1>2. ASSUME NEW n \in Nat, n \in S
      PROVE  n + 1 \in S
  <2>1. PICK g : IsJoining(g, s, n)
    BY <1>2
  <2> DEFINE h == [k \in 0 .. n + 1 |-> IF k <= n THEN g[k] ELSE More(g, k)]
  <2>2. ASSUME NEW k \in 0 .. n + 1
        PROVE  h[k] = IF k = 0 THEN <<>> ELSE More(h, k)
    <3>1. CASE k = 0
      BY <2>1, <3>1 DEF IsJoining
    <3>2. CASE k # 0
      <4>1. k - 1 \in 0 .. n + 1 /\ k - 1 <= n
        BY <3>2
      <4>2. h[k - 1] = g[k - 1]
        BY <4>1
      <4>3. h[k] = More(g, k)
        <5>1. CASE k <= n
          <6>1. k \in 0 .. n
            BY <5>1
          <6>2. g[k] = More(g, k)
            BY <2>1, <6>1, <3>2 DEF IsJoining
          <6>3. h[k] = g[k]
            BY <5>1
          <6> QED BY <6>2, <6>3
        <5>2. CASE k = n + 1
          <6>1. ~(k <= n)
            BY <5>2
          <6> HIDE DEF More
          <6> QED BY <6>1
        <5> QED BY <5>1, <5>2
      <4>4. More(h, k) = More(g, k)
        <5> HIDE DEF h
        <5> QED BY <4>2
      <4> QED BY <4>3, <4>4, <3>2
    <3> QED BY <3>1, <3>2
  <2>3. h = [k \in 0 .. n + 1 |-> IF k = 0 THEN <<>> ELSE More(h, k)]
    <3>1. h = [k \in 0 .. n + 1 |-> h[k]]
      OBVIOUS
    <3> HIDE DEF h, More
    <3> QED BY <2>2, <3>1
  <2>4. IsJoining(h, s, n + 1)
    BY <2>3 DEF IsJoining
  <2> HIDE DEF h
  <2> QED BY <2>4
<1>3. ASSUME NEW n \in Nat
      PROVE  \E g : IsJoining(g, s, n)
  <2>1. \A k \in 0 .. n - 1 : k \in S => k + 1 \in S
    <3> HIDE DEF S
    <3> QED BY <1>2
  <2>2. 0 .. n \subseteq S
    <3> HIDE DEF S
    <3> QED BY <1>1, <2>1, IntervalInduction
  <2>3. n \in S
    BY <2>2
  <2> QED BY <2>3
<1> QED BY <1>3

LEMMA StreamedIs ==
  ASSUME NEW s, Len(s.processed) \in Nat
  PROVE  \E g : /\ Streamed(s) = g[Len(s.processed)] /\ g[0] = <<>>
                /\ \A k \in 1 .. Len(s.processed) : g[k] = g[k - 1] \o s.processed[k]
<1> DEFINE g == CHOOSE h : IsJoining(h, s, Len(s.processed))
<1>1. IsJoining(g, s, Len(s.processed))
  BY JoiningExists
<1>2. Streamed(s) = g[Len(s.processed)]
  BY DEF Streamed, IsJoining
<1> HIDE DEF g
<1> DEFINE More(k) == g[k - 1] \o s.processed[k]
<1>3. g = [k \in 0 .. Len(s.processed) |-> IF k = 0 THEN <<>> ELSE More(k)]
  BY <1>1 DEF IsJoining
<1>4. g[0] = <<>> /\ \A k \in 1 .. Len(s.processed) : g[k] = More(k)
  <2> HIDE DEF More
  <2>1. 0 \in 0 .. Len(s.processed)
        /\ \A k \in 1 .. Len(s.processed) : k \in 0 .. Len(s.processed) /\ k # 0
    OBVIOUS
  <2> QED BY <1>3, <2>1
<1> QED BY <1>2, <1>4

LEMMA StreamedTypes ==
  ASSUME NEW S, NEW s, s.processed \in Seq(Seq(S))
  PROVE  Streamed(s) \in Seq(S)
<1> DEFINE n == Len(s.processed)
<1>1. n \in Nat
  BY LenProperties
<1>2. PICK g : /\ Streamed(s) = g[n] /\ g[0] = <<>>
               /\ \A k \in 1 .. n : g[k] = g[k - 1] \o s.processed[k]
  BY <1>1, StreamedIs
<1> DEFINE I == {k \in 0 .. n : g[k] \in Seq(S)}
<1>3. 0 \in I
  <2>1. <<>> \in Seq(S) /\ 0 \in 0 .. n
    BY <1>1
  <2> QED BY <1>2, <2>1
<1>4. ASSUME NEW k \in 0 .. n - 1, k \in I
      PROVE  k + 1 \in I
  <2>1. k + 1 \in 1 .. n /\ (k + 1) - 1 = k /\ k + 1 \in 0 .. n
    BY <1>1
  <2>2. g[k + 1] = g[k] \o s.processed[k + 1]
    BY <1>2, <2>1
  <2>3. s.processed[k + 1] \in Seq(S)
    BY <2>1, ElementOfSeq
  <2>4. g[k] \in Seq(S)
    BY <1>4
  <2>5. g[k + 1] \in Seq(S)
    BY <2>2, <2>3, <2>4
  <2> QED BY <2>1, <2>5
<1>5. n \in I
  <2>1. 0 \in Int /\ n \in Int /\ n \in 0 .. n
    BY <1>1
  <2>2. \A k \in 0 .. n - 1 : k \in I => k + 1 \in I
    BY <1>4
  <2>3. 0 .. n \subseteq I
    <3> HIDE DEF I, n
    <3> QED BY <1>3, <2>1, <2>2, IntervalInduction
  <2> HIDE DEF I
  <2> QED BY <2>1, <2>3
<1> QED BY <1>2, <1>5

\* One more batch comes last.
LEMMA StreamedMore ==
  ASSUME NEW S, NEW s, NEW t, NEW b, s.processed \in Seq(Seq(S)), b \in Seq(S),
         t.processed = Append(s.processed, b)
  PROVE  Streamed(t) = Streamed(s) \o b
<1> DEFINE n == Len(s.processed)
<1>1. /\ n \in Nat /\ Len(t.processed) = n + 1 /\ t.processed[n + 1] = b
      /\ \A k \in 1 .. n : t.processed[k] = s.processed[k]
  BY LenProperties
<1>2. PICK f : /\ Streamed(s) = f[n] /\ f[0] = <<>>
               /\ \A k \in 1 .. n : f[k] = f[k - 1] \o s.processed[k]
  BY <1>1, StreamedIs
<1>3. PICK g : /\ Streamed(t) = g[n + 1] /\ g[0] = <<>>
               /\ \A k \in 1 .. n + 1 : g[k] = g[k - 1] \o t.processed[k]
  <2>1. Len(t.processed) \in Nat
    BY <1>1
  <2>2. PICK g : /\ Streamed(t) = g[Len(t.processed)] /\ g[0] = <<>>
                 /\ \A k \in 1 .. Len(t.processed) : g[k] = g[k - 1] \o t.processed[k]
    BY <2>1, StreamedIs
  <2> HIDE DEF n
  <2> QED BY <1>1, <2>2
<1> DEFINE I == {k \in 0 .. n : g[k] = f[k]}
<1>4. 0 \in I
  BY <1>1, <1>2, <1>3
<1>5. ASSUME NEW k \in 0 .. n - 1, k \in I
      PROVE  k + 1 \in I
  <2>0. n \in Nat
    BY <1>1
  <2> HIDE DEF n
  <2>1. k + 1 \in 1 .. n /\ (k + 1) - 1 = k /\ k + 1 \in 0 .. n /\ k + 1 \in 1 .. n + 1
    BY <2>0
  <2> USE DEF n
  <2>2. f[k + 1] = f[k] \o s.processed[k + 1]
    BY <1>2, <2>1
  <2>3. g[k + 1] = g[k] \o t.processed[k + 1]
    BY <1>3, <2>1
  <2>4. g[k] = f[k] /\ t.processed[k + 1] = s.processed[k + 1]
    BY <1>1, <1>5, <2>1
  <2> QED BY <2>1, <2>2, <2>3, <2>4
<1>6. g[n] = f[n]
  <2>1. 0 \in Int /\ n \in Int /\ n \in 0 .. n
    BY <1>1
  <2>2. \A k \in 0 .. n - 1 : k \in I => k + 1 \in I
    BY <1>5
  <2>3. 0 .. n \subseteq I
    <3> HIDE DEF I, n
    <3> QED BY <1>4, <2>1, <2>2, IntervalInduction
  <2>4. n \in I
    <3> HIDE DEF I
    <3> QED BY <2>1, <2>3
  <2> QED BY <2>4
<1>7. n + 1 \in 1 .. n + 1 /\ (n + 1) - 1 = n
  BY <1>1
<1>8. g[n + 1] = g[n] \o t.processed[n + 1]
  BY <1>3, <1>7
<1> QED BY <1>1, <1>2, <1>3, <1>6, <1>8

-----------------------------------------------------------------------------
(* What is taken of a sequence *)

\* All of it is the sequence.
LEMMA TakenAll ==
  ASSUME NEW S, NEW q \in Seq(S), NEW T, 1 .. Len(q) \subseteq T
  PROVE  Taken(q, T) = q
<1> DEFINE n == Len(q)
<1>1. n \in Nat
  BY LenProperties
<1>2. PICK f : /\ Taken(q, T) = f[n] /\ f[0] = <<>>
               /\ \A k \in 1 .. n : f[k] = IF k \in T THEN Append(f[k - 1], q[k]) ELSE f[k - 1]
  BY <1>1, TakenIs
<1> DEFINE I == {k \in 0 .. n : f[k] \in Seq(S) /\ Len(f[k]) = k /\ \A i \in 1 .. k : f[k][i] = q[i]}
<1>3. 0 \in I
  <2>1. 0 \in 0 .. n /\ \A i \in 1 .. 0 : f[0][i] = q[i]
    BY <1>1
  <2>2. f[0] \in Seq(S) /\ Len(f[0]) = 0
    BY <1>2
  <2> QED BY <2>1, <2>2
<1>4. ASSUME NEW k \in 0 .. n - 1, k \in I
      PROVE  k + 1 \in I
  <2>1. k + 1 \in 1 .. n /\ (k + 1) - 1 = k /\ k + 1 \in 0 .. n /\ k + 1 \in T
    BY <1>1
  <2>2. f[k + 1] = Append(f[k], q[k + 1])
    BY <1>2, <2>1
  <2>3. q[k + 1] \in S
    BY <2>1, ElementOfSeq
  <2>4. f[k] \in Seq(S) /\ Len(f[k]) = k /\ \A i \in 1 .. k : f[k][i] = q[i]
    BY <1>4
  <2>5. /\ f[k + 1] \in Seq(S) /\ Len(f[k + 1]) = k + 1 /\ f[k + 1][k + 1] = q[k + 1]
        /\ \A i \in 1 .. k : f[k + 1][i] = f[k][i]
    BY <2>2, <2>3, <2>4, AppendProperties
  <2>6. ASSUME NEW i \in 1 .. k + 1 PROVE f[k + 1][i] = q[i]
    <3>1. CASE i = k + 1
      BY <2>5, <3>1
    <3>2. CASE i # k + 1
      <4>1. i \in 1 .. k
        BY <3>2
      <4> QED BY <2>4, <2>5, <4>1
    <3> QED BY <3>1, <3>2
  <2> QED BY <2>1, <2>5, <2>6
<1>5. n \in I
  <2>1. 0 \in Int /\ n \in Int /\ n \in 0 .. n
    BY <1>1
  <2>2. \A k \in 0 .. n - 1 : k \in I => k + 1 \in I
    BY <1>4
  <2>3. 0 .. n \subseteq I
    <3> HIDE DEF I, n
    <3> QED BY <1>3, <2>1, <2>2, IntervalInduction
  <2> HIDE DEF I
  <2> QED BY <2>1, <2>3
<1> QED BY <1>2, <1>5, SeqEqual

\* What is taken of the first n members is taken first.
LEMMA TakenFirst ==
  ASSUME NEW S, NEW q \in Seq(S), NEW T, NEW n \in 0 .. Len(q),
         NEW p, NEW U, Len(p) = n, \A k \in 1 .. n : p[k] = q[k] /\ (k \in U <=> k \in T)
  PROVE  /\ Taken(p, U) \in Seq(S) /\ Taken(q, T) \in Seq(S)
         /\ Len(Taken(p, U)) <= Len(Taken(q, T))
         /\ \A i \in 1 .. Len(Taken(p, U)) : Taken(p, U)[i] = Taken(q, T)[i]
<1> DEFINE m == Len(q)
<1>1. m \in Nat /\ n \in Nat /\ \A k \in 1 .. m : q[k] \in S
  BY LenProperties, ElementOfSeq
<1>2. PICK f : /\ Taken(q, T) = f[m] /\ f[0] = <<>>
               /\ \A k \in 1 .. m : f[k] = IF k \in T THEN Append(f[k - 1], q[k]) ELSE f[k - 1]
  BY <1>1, TakenIs
<1>3. PICK g : /\ Taken(p, U) = g[n] /\ g[0] = <<>>
               /\ \A k \in 1 .. n : g[k] = IF k \in U THEN Append(g[k - 1], p[k]) ELSE g[k - 1]
  <2>1. Len(p) \in Nat
    BY <1>1
  <2>2. PICK g : /\ Taken(p, U) = g[Len(p)] /\ g[0] = <<>>
                 /\ \A k \in 1 .. Len(p) :
                      g[k] = IF k \in U THEN Append(g[k - 1], p[k]) ELSE g[k - 1]
    BY <2>1, TakenIs
  <2> QED BY <2>2
<1> DEFINE I == {k \in 0 .. n : g[k] = f[k] /\ f[k] \in Seq(S)}
<1>4. 0 \in I
  <2>1. <<>> \in Seq(S) /\ 0 \in 0 .. n
    BY <1>1
  <2> QED BY <1>2, <1>3, <2>1
<1>5. ASSUME NEW k \in 0 .. n - 1, k \in I
      PROVE  k + 1 \in I
  <2>1. k + 1 \in 1 .. n /\ (k + 1) - 1 = k /\ k + 1 \in 0 .. n /\ k + 1 \in 1 .. m
    BY <1>1
  <2>2. f[k + 1] = IF k + 1 \in T THEN Append(f[k], q[k + 1]) ELSE f[k]
    BY <1>2, <2>1
  <2>3. g[k + 1] = IF k + 1 \in U THEN Append(g[k], p[k + 1]) ELSE g[k]
    BY <1>3, <2>1
  <2>4. g[k] = f[k] /\ f[k] \in Seq(S) /\ p[k + 1] = q[k + 1] /\ q[k + 1] \in S
        /\ (k + 1 \in U <=> k + 1 \in T)
    BY <1>1, <1>5, <2>1
  <2>5. f[k + 1] \in Seq(S)
    BY <2>2, <2>4
  <2>6. g[k + 1] = f[k + 1]
    <3> HIDE DEF I
    <3> QED BY <2>2, <2>3, <2>4
  <2> QED BY <2>1, <2>5, <2>6
<1>6. g[n] = f[n] /\ f[n] \in Seq(S)
  <2>1. 0 \in Int /\ n \in Int /\ n \in 0 .. n
    BY <1>1
  <2>2. \A k \in 0 .. n - 1 : k \in I => k + 1 \in I
    BY <1>5
  <2>3. 0 .. n \subseteq I
    <3> HIDE DEF I
    <3> QED BY <1>4, <2>1, <2>2, IntervalInduction
  <2>4. n \in I
    <3> HIDE DEF I
    <3> QED BY <2>1, <2>3
  <2> QED BY <2>4
<1> DEFINE Extends(k) == /\ f[k] \in Seq(S) /\ Len(f[n]) <= Len(f[k])
                         /\ \A i \in 1 .. Len(f[n]) : f[n][i] = f[k][i]
           J == {k \in n .. m : Extends(k)}
<1>7. n \in J
  <2>1. Len(f[n]) \in Nat
    BY <1>6, LenProperties
  <2> QED BY <1>1, <1>6, <2>1
<1>8. ASSUME NEW k \in n .. m - 1, k \in J
      PROVE  k + 1 \in J
  <2>1. k + 1 \in 1 .. m /\ (k + 1) - 1 = k /\ k + 1 \in n .. m
    BY <1>1
  <2>2. f[k + 1] = IF k + 1 \in T THEN Append(f[k], q[k + 1]) ELSE f[k]
    BY <1>2, <2>1
  <2>3. f[k] \in Seq(S) /\ q[k + 1] \in S /\ Len(f[n]) <= Len(f[k])
        /\ \A i \in 1 .. Len(f[n]) : f[n][i] = f[k][i]
    BY <1>1, <1>8, <2>1
  <2>4. CASE k + 1 \in T
    <3>1. /\ f[k + 1] \in Seq(S) /\ Len(f[k + 1]) = Len(f[k]) + 1
          /\ \A i \in 1 .. Len(f[k]) : f[k + 1][i] = f[k][i]
      BY <2>2, <2>3, <2>4, AppendProperties
    <3>2. Len(f[n]) \in Nat /\ Len(f[k]) \in Nat
      BY <1>6, <2>3, LenProperties
    <3>3. \A i \in 1 .. Len(f[n]) : f[n][i] = f[k + 1][i]
      BY <2>3, <3>1, <3>2
    <3>4. Extends(k + 1)
      BY <2>3, <3>1, <3>2, <3>3
    <3> QED BY <2>1, <3>4
  <2>5. CASE k + 1 \notin T
    <3>1. Extends(k + 1)
      BY <2>2, <2>3, <2>5
    <3> QED BY <2>1, <3>1
  <2> QED BY <2>4, <2>5
<1>9. m \in J
  <2>1. n \in Int /\ m \in Int /\ m \in n .. m
    BY <1>1
  <2>2. \A k \in n .. m - 1 : k \in J => k + 1 \in J
    BY <1>8
  <2>3. n .. m \subseteq J
    <3> HIDE DEF J, m
    <3> QED BY <1>7, <2>1, <2>2, IntervalInduction
  <2> HIDE DEF J
  <2> QED BY <2>1, <2>3
<1> QED BY <1>2, <1>3, <1>6, <1>9

LEMMA TakenSame ==
  ASSUME NEW S, NEW q \in Seq(S), NEW T, NEW U, \A k \in 1 .. Len(q) : k \in U <=> k \in T
  PROVE  Taken(q, U) = Taken(q, T)
<1>1. Len(q) \in 0 .. Len(q)
  BY LenProperties
<1>2. /\ Taken(q, U) \in Seq(S) /\ Taken(q, T) \in Seq(S)
      /\ Len(Taken(q, U)) <= Len(Taken(q, T))
      /\ \A i \in 1 .. Len(Taken(q, U)) : Taken(q, U)[i] = Taken(q, T)[i]
  BY <1>1, TakenFirst
<1>3. Len(Taken(q, T)) <= Len(Taken(q, U))
  BY <1>1, TakenFirst
<1>4. Len(Taken(q, T)) = Len(Taken(q, U))
  BY <1>2, <1>3, LenProperties
<1> QED BY <1>2, <1>4, SeqEqual

-----------------------------------------------------------------------------
(* Events, and what is told of them *)

MarketEvent == [stream : {"market"}, time : Nat, seq : Nat, decodes : {TRUE}, tick : TickSet]

LEMMA EventIs ==
  ASSUME NEW t \in TickSet, NEW n \in Nat
  PROVE  /\ TickEvent(t, n) \in MarketEvent
         /\ TickEvent(t, n).time = t.time /\ TickEvent(t, n).seq = n /\ TickEvent(t, n).tick = t
<1>1. t.time \in Nat
  BY TickSetIs
<1> QED BY <1>1 DEF TickEvent, MarketEvent

LEMMA EventsAre ==
  ASSUME NEW ticks \in Seq(TickSet)
  PROVE  /\ TicksToEvents(ticks) \in Seq(MarketEvent) /\ Len(TicksToEvents(ticks)) = Len(ticks)
         /\ \A k \in 1 .. Len(ticks) : TicksToEvents(ticks)[k] = TickEvent(ticks[k], k)
<1> DEFINE n == Len(ticks)
           q == [k \in 1 .. n |-> TickEvent(ticks[k], k)]
<1>1. n \in Nat /\ DOMAIN ticks = 1 .. n /\ \A k \in 1 .. n : ticks[k] \in TickSet
  BY LenProperties, ElementOfSeq
<1>2. TicksToEvents(ticks) = q
  BY <1>1 DEF TicksToEvents
<1>3. \A k \in 1 .. n : TickEvent(ticks[k], k) \in MarketEvent
  BY <1>1, EventIs
<1>4. q \in Seq(MarketEvent) /\ Len(q) = n /\ \A k \in 1 .. n : q[k] = TickEvent(ticks[k], k)
  <2> HIDE DEF n
  <2> QED BY <1>1, <1>3
<1> QED BY <1>2, <1>4

LEMMA TicksAre ==
  ASSUME NEW events \in Seq(MarketEvent)
  PROVE  /\ TicksIn(events) \in Seq(TickSet) /\ Len(TicksIn(events)) = Len(events)
         /\ Len(events) \in Nat
         /\ \A k \in 1 .. Len(events) : TicksIn(events)[k] = events[k].tick
<1> DEFINE n == Len(events)
           q == [k \in 1 .. n |-> events[k].tick]
<1>1. n \in Nat /\ DOMAIN events = 1 .. n /\ \A k \in 1 .. n : events[k] \in MarketEvent
  BY LenProperties, ElementOfSeq
<1>2. TicksIn(events) = SubSeq(q, 1, n)
  BY <1>1 DEF TicksIn
<1>3. \A k \in 1 .. n : events[k].tick \in TickSet
  BY <1>1 DEF MarketEvent
<1>4. q \in Seq(TickSet) /\ Len(q) = n /\ \A k \in 1 .. n : q[k] = events[k].tick
  <2> HIDE DEF n
  <2> QED BY <1>1, <1>3
<1>5. SubSeq(q, 1, n) = q
  <2> HIDE DEF q
  <2> QED BY <1>4, SubSeqFull
<1> HIDE DEF q
<1> QED BY <1>1, <1>2, <1>4, <1>5

LEMMA TicksMore ==
  ASSUME NEW events \in Seq(MarketEvent), NEW e \in MarketEvent
  PROVE  TicksIn(Append(events, e)) = Append(TicksIn(events), e.tick)
<1>1. PICK r, a, b, n : /\ r = Append(events, e) /\ a = TicksIn(events) /\ b = TicksIn(r)
                        /\ n = Len(events)
  OBVIOUS
<1>2. /\ r \in Seq(MarketEvent) /\ Len(r) = n + 1 /\ r[n + 1] = e /\ n \in Nat
      /\ \A k \in 1 .. n : r[k] = events[k]
  BY <1>1, AppendProperties, LenProperties
<1>3. a \in Seq(TickSet) /\ Len(a) = n /\ \A k \in 1 .. n : a[k] = events[k].tick
  BY <1>1, TicksAre
<1>4. b \in Seq(TickSet) /\ Len(b) = n + 1 /\ \A k \in 1 .. n + 1 : b[k] = r[k].tick
  BY <1>1, <1>2, TicksAre
<1>5. e.tick \in TickSet
  BY DEF MarketEvent
<1>6. PICK c : c = Append(a, e.tick)
  OBVIOUS
<1>7. c \in Seq(TickSet) /\ Len(c) = n + 1 /\ c[n + 1] = e.tick /\ \A k \in 1 .. n : c[k] = a[k]
  BY <1>3, <1>5, <1>6, AppendProperties
<1>8. ASSUME NEW k \in 1 .. Len(b) PROVE b[k] = c[k]
  <2>1. CASE k = n + 1
    BY <1>2, <1>4, <1>7, <2>1
  <2>2. CASE k # n + 1
    <3>1. k \in 1 .. n
      BY <1>2, <1>4, <2>2
    <3> QED BY <1>2, <1>3, <1>4, <1>7, <3>1
  <2> QED BY <2>1, <2>2
<1>9. b = c
  BY <1>4, <1>7, <1>8, SeqEqual
<1> QED BY <1>1, <1>6, <1>9

LEMMA EventsOfAre ==
  ASSUME NEW events \in Seq(MarketEvent), NEW start, NEW end
  PROVE  EventsOf(events, start, end) \in Seq(MarketEvent)
<1>1. Len(events) \in Nat /\ \A k \in 1 .. Len(events) : events[k] \in MarketEvent
  BY LenProperties, ElementOfSeq
<1> QED BY <1>1, TakenTypes DEF EventsOf

\* What the feed selects of the events of the market are those of its period.
LEMMA SelectedIs ==
  ASSUME NEW events \in Seq(MarketEvent), NEW start \in Nat, NEW end \in Nat, NEW fed,
         fed.start = {start}, fed.end = {end}
  PROVE  Selected(fed, events) = TicksIn(EventsOf(events, start, end))
<1> DEFINE n == Len(events)
           T == {k \in DOMAIN events : events[k].stream = "market" /\ events[k].seq >= 0}
           U == {k \in DOMAIN events : InRange(fed, events[k]) /\ events[k].decodes}
           V == {k \in DOMAIN events : InPeriod(events[k], start, end)}
           kept == EventsOf(events, start, end)
<1>1. n \in Nat /\ DOMAIN events = 1 .. n /\ \A k \in 1 .. n : events[k] \in MarketEvent
  BY LenProperties, ElementOfSeq
<1>2. ASSUME NEW k \in 1 .. n
      PROVE  k \in T /\ (k \in U <=> k \in V)
  <2>1. events[k] \in MarketEvent /\ k \in DOMAIN events
    BY <1>1
  <2>2. /\ events[k].stream = "market" /\ events[k].seq \in Nat /\ events[k].time \in Nat
        /\ events[k].decodes = TRUE
    BY <2>1 DEF MarketEvent
  <2>3. k \in T
    BY <2>1, <2>2
  <2>4. InRange(fed, events[k]) <=> InPeriod(events[k], start, end)
    BY <2>2 DEF InRange, InPeriod
  <2> QED BY <2>1, <2>2, <2>3, <2>4
<1>3. ReplayOf(events, "market", 0) = events
  <2>1. 1 .. n \subseteq T
    BY <1>2
  <2>2. Taken(events, T) = events
    <3> HIDE DEF T
    <3> QED BY <2>1, TakenAll
  <2> QED BY <2>2 DEF ReplayOf
<1>4. Taken(events, U) = Taken(events, V)
  <2>1. \A k \in 1 .. n : k \in U <=> k \in V
    BY <1>2
  <2> HIDE DEF U, V
  <2> QED BY <2>1, TakenSame
<1>5. Taken(events, U) = kept
  BY <1>4 DEF EventsOf
<1>6. Selected(fed, events) = [i \in DOMAIN kept |-> kept[i].tick]
  <2> DEFINE every == ReplayOf(events, "market", 0)
             W == {k \in DOMAIN every : InRange(fed, every[k]) /\ every[k].decodes}
  <2>1. Selected(fed, events) =
          LET taken == Taken(every, W)
          IN [i \in DOMAIN taken |-> taken[i].tick]
    BY DEF Selected
  <2>2. Taken(every, W) = kept
    BY <1>3, <1>5
  <2> HIDE DEF every, W, kept
  <2> QED BY <2>1, <2>2
<1>7. kept \in Seq(MarketEvent)
  BY EventsOfAre
<1> DEFINE told == [i \in DOMAIN kept |-> kept[i].tick]
<1>8. Len(kept) \in Nat /\ DOMAIN kept = 1 .. Len(kept)
  BY <1>7, LenProperties
<1>9. TicksIn(kept) = SubSeq(told, 1, Len(kept))
  BY DEF TicksIn
<1>10. told \in Seq(TickSet) /\ Len(told) = Len(kept)
  <2>1. ASSUME NEW i \in 1 .. Len(kept)
        PROVE  kept[i].tick \in TickSet
    <3>1. kept[i] \in MarketEvent
      BY <1>7, ElementOfSeq
    <3> QED BY <3>1 DEF MarketEvent
  <2>2. told \in [1 .. Len(kept) -> TickSet]
    BY <1>8, <2>1
  <2> HIDE DEF told, kept
  <2> QED BY <1>8, <2>2
<1>11. SubSeq(told, 1, Len(kept)) = told
  <2> HIDE DEF told, kept
  <2> QED BY <1>10, SubSeqFull
<1> QED BY <1>6, <1>9, <1>11

-----------------------------------------------------------------------------
(* The events of the first ticks *)

FirstOf(ticks, n) == EventsOf(TicksToEvents(SubSeq(ticks, 1, n)), period.start, period.end)
FedOf(ticks) == EventsOf(TicksToEvents(ticks), period.start, period.end)

LEMMA FirstTicks ==
  ASSUME NEW ticks \in Seq(TickSet), NEW n \in 0 .. Len(ticks)
  PROVE  /\ SubSeq(ticks, 1, n) \in Seq(TickSet) /\ Len(SubSeq(ticks, 1, n)) = n
         /\ \A k \in 1 .. n : SubSeq(ticks, 1, n)[k] = ticks[k]
<1>1. Len(ticks) \in Nat /\ \A i \in 1 .. n : ticks[i] \in TickSet
  BY LenProperties, ElementOfSeq
<1>2. /\ SubSeq(ticks, 1, n) \in Seq(TickSet)
      /\ Len(SubSeq(ticks, 1, n)) = IF 1 <= n THEN n - 1 + 1 ELSE 0
      /\ \A i \in 1 .. n - 1 + 1 : SubSeq(ticks, 1, n)[i] = ticks[1 + i - 1]
  BY <1>1, SubSeqProperties
<1> QED BY <1>1, <1>2

LEMMA FirstEvents ==
  ASSUME NEW ticks \in Seq(TickSet), NEW n \in 0 .. Len(ticks),
         NEW q, q = TicksToEvents(SubSeq(ticks, 1, n))
  PROVE  /\ q \in Seq(MarketEvent) /\ Len(q) = n /\ DOMAIN q = 1 .. n
         /\ \A k \in 1 .. n : q[k] = TickEvent(ticks[k], k)
<1> DEFINE first == SubSeq(ticks, 1, n)
<1>1. first \in Seq(TickSet) /\ Len(first) = n /\ \A k \in 1 .. n : first[k] = ticks[k]
  BY FirstTicks
<1> HIDE DEF first
<1>2. /\ TicksToEvents(first) \in Seq(MarketEvent) /\ Len(TicksToEvents(first)) = n
      /\ \A k \in 1 .. n : TicksToEvents(first)[k] = TickEvent(first[k], k)
  BY <1>1, EventsAre
<1>3. q = TicksToEvents(first)
  BY DEF first
<1> QED BY <1>1, <1>2, <1>3, LenProperties

LEMMA FirstMore ==
  ASSUME NEW ticks \in Seq(TickSet), NEW n \in 0 .. Len(ticks) - 1
  PROVE  FirstOf(ticks, n + 1) =
           IF InPeriod(TickEvent(ticks[n + 1], n + 1), period.start, period.end)
           THEN Append(FirstOf(ticks, n), TickEvent(ticks[n + 1], n + 1)) ELSE FirstOf(ticks, n)
<1> DEFINE In(e) == InPeriod(e, period.start, period.end)
<1>1. PICK q : q = TicksToEvents(SubSeq(ticks, 1, n))
  OBVIOUS
<1>2. PICK r : r = TicksToEvents(SubSeq(ticks, 1, n + 1))
  OBVIOUS
<1>3. Len(ticks) \in Nat /\ n \in 0 .. Len(ticks) /\ n + 1 \in 0 .. Len(ticks) /\ n \in Nat
  BY LenProperties
<1>4. Len(q) = n /\ DOMAIN q = 1 .. n /\ \A k \in 1 .. n : q[k] = TickEvent(ticks[k], k)
  BY <1>1, <1>3, FirstEvents
<1>5. /\ Len(r) = n + 1 /\ DOMAIN r = 1 .. n + 1
      /\ \A k \in 1 .. n + 1 : r[k] = TickEvent(ticks[k], k)
  BY <1>2, <1>3, FirstEvents
<1> DEFINE T == {k \in DOMAIN q : In(q[k])}
           U == {k \in DOMAIN r : In(r[k])}
<1>6. \A k \in 1 .. n : r[k] = q[k] /\ (k \in U <=> k \in T)
  <2> HIDE DEF In
  <2> QED BY <1>3, <1>4, <1>5
<1>7. n + 1 \in 1 .. n + 1 /\ r[n + 1] = TickEvent(ticks[n + 1], n + 1)
  BY <1>3, <1>5
<1>8. n + 1 \in U <=> In(TickEvent(ticks[n + 1], n + 1))
  <2> HIDE DEF In
  <2> QED BY <1>5, <1>7
<1>9. FirstOf(ticks, n) = Taken(q, T) /\ FirstOf(ticks, n + 1) = Taken(r, U)
  BY <1>1, <1>2 DEF FirstOf, EventsOf
<1>10. Taken(r, U) = IF Len(r) \in U THEN Append(Taken(q, T), r[Len(r)]) ELSE Taken(q, T)
  <2> HIDE DEF T, U
  <2> QED BY <1>3, <1>4, <1>5, <1>6, TakenMore
<1> HIDE DEF T, U
<1> QED BY <1>5, <1>7, <1>8, <1>9, <1>10

LEMMA PrefixIs ==
  ASSUME NEW S, NEW s \in Seq(S), NEW t \in Seq(S), Len(s) <= Len(t),
         \A i \in 1 .. Len(s) : s[i] = t[i]
  PROVE  IsPrefix(s, t)
<1>1. Len(s) \in Nat /\ Len(t) \in Nat
  BY LenProperties
<1>2. SubSeq(s, 1, Len(s)) = s
  BY SubSeqFull
<1>3. \A i \in 1 .. Len(s) : t[i] \in S
  BY <1>1, ElementOfSeq
<1>4. /\ SubSeq(t, 1, Len(s)) \in Seq(S)
      /\ Len(SubSeq(t, 1, Len(s))) = IF 1 <= Len(s) THEN Len(s) - 1 + 1 ELSE 0
      /\ \A i \in 1 .. Len(s) - 1 + 1 : SubSeq(t, 1, Len(s))[i] = t[1 + i - 1]
  BY <1>1, <1>3, SubSeqProperties
<1>5. Len(SubSeq(t, 1, Len(s))) = Len(s) /\ \A i \in 1 .. Len(s) : SubSeq(t, 1, Len(s))[i] = s[i]
  BY <1>1, <1>4
<1>6. SubSeq(t, 1, Len(s)) = s
  BY <1>4, <1>5, SeqEqual
<1> QED BY <1>2, <1>6 DEF IsPrefix

\* What was streamed of the first ticks begins what is fed.
LEMMA FirstFed ==
  ASSUME NEW ticks \in Seq(TickSet), NEW n \in 0 .. Len(ticks)
  PROVE  /\ FirstOf(ticks, n) \in Seq(MarketEvent)
         /\ IsPrefix(FirstOf(ticks, n), FedOf(ticks))
         /\ n = Len(ticks) => FirstOf(ticks, n) = FedOf(ticks)
         /\ FedOf(ticks) \in Seq(MarketEvent)
<1> DEFINE In(e) == InPeriod(e, period.start, period.end)
<1>1. PICK p : p = TicksToEvents(SubSeq(ticks, 1, n))
  OBVIOUS
<1>2. PICK q : q = TicksToEvents(ticks)
  OBVIOUS
<1>3. /\ p \in Seq(MarketEvent) /\ Len(p) = n /\ DOMAIN p = 1 .. n
      /\ \A k \in 1 .. n : p[k] = TickEvent(ticks[k], k)
  BY <1>1, FirstEvents
<1>4. /\ q \in Seq(MarketEvent) /\ Len(q) = Len(ticks)
      /\ \A k \in 1 .. Len(ticks) : q[k] = TickEvent(ticks[k], k)
  BY <1>2, EventsAre
<1>5. Len(ticks) \in Nat /\ n \in Nat /\ DOMAIN q = 1 .. Len(ticks)
  BY <1>4, LenProperties
<1> DEFINE U == {k \in DOMAIN p : In(p[k])}
           T == {k \in DOMAIN q : In(q[k])}
           a == FirstOf(ticks, n)
           b == EventsOf(q, period.start, period.end)
<1>6. \A k \in 1 .. n : p[k] = q[k] /\ (k \in U <=> k \in T)
  <2> HIDE DEF In
  <2> QED BY <1>3, <1>4, <1>5
<1>7. a = Taken(p, U) /\ b = Taken(q, T)
  BY <1>1 DEF FirstOf, EventsOf
<1>8. /\ a \in Seq(MarketEvent) /\ b \in Seq(MarketEvent) /\ Len(a) <= Len(b)
      /\ \A i \in 1 .. Len(a) : a[i] = b[i]
  <2> HIDE DEF U, T, a, b
  <2> QED BY <1>3, <1>4, <1>6, <1>7, TakenFirst
<1>9. FedOf(ticks) = b
  BY <1>2 DEF FedOf
<1>10. IsPrefix(a, b)
  <2> HIDE DEF a, b
  <2> QED BY <1>8, PrefixIs
<1>11. ASSUME n = Len(ticks) PROVE a = b
  <2>1. p = q
    BY <1>3, <1>4, <1>11, SeqEqual
  <2> QED BY <1>1, <2>1 DEF FirstOf
<1> HIDE DEF a, b
<1>12. a = FirstOf(ticks, n)
  BY DEF a
<1> QED BY <1>8, <1>9, <1>10, <1>11, <1>12

\* The ticks of a file that loads are in order of time.
LEMMA LoadedInOrder ==
  ASSUME NEW f \in Files, NEW ticks, LoadedSome(f, ticks, Len(f.rows))
  PROVE  /\ \A k \in 1 .. Len(ticks) : ticks[k].time \in Nat
         /\ \A i, j \in 1 .. Len(ticks) : i < j => ticks[i].time < ticks[j].time
<1> DEFINE m == Len(f.rows)
           I == {n \in 0 .. m : \A i, j \in 1 .. n : i < j => ticks[i].time < ticks[j].time}
<1>1. ticks \in Seq(TickSet) /\ Len(ticks) = m /\ m \in Nat
  BY RowIs DEF LoadedSome
<1>2. \A k \in 1 .. m : ticks[k].time \in Nat
  <2>1. \A k \in 1 .. m : ticks[k] \in TickSet
    BY <1>1, ElementOfSeq
  <2> QED BY <2>1, TickSetIs
<1>3. 0 \in I
  BY <1>1
<1>4. ASSUME NEW n \in 0 .. m - 1, n \in I
      PROVE  n + 1 \in I
  <2>1. n \in Nat /\ n + 1 \in 1 .. m /\ n + 1 \in 0 .. m
    BY <1>1
  <2>2. ASSUME NEW i \in 1 .. n PROVE ticks[i].time < ticks[n + 1].time
    <3>1. n \in 1 .. m /\ i \in 1 .. m /\ n \in 1 .. n /\ n + 1 # 1 /\ (n + 1) - 1 = n
      BY <2>1
    <3>2. ticks[n + 1] \in TicksOf(f.headers, f.rows[n + 1], {ticks[n].time})
      BY <2>1, <3>1 DEF LoadedSome, TimeBefore
    <3>3. ticks[n + 1].time > ticks[n].time
      <4>1. f.rows[n + 1] \in RowsOf(f) /\ {ticks[n].time} \in SUBSET Nat
        BY <1>2, <2>1, <3>1, RowIs
      <4>2. PICK t, prev : t = ticks[n + 1] /\ prev = {ticks[n].time}
        OBVIOUS
      <4>3. \A p \in prev : t.time > p
        <5>1. PICK r : r = f.rows[n + 1]
          OBVIOUS
        <5>2. t \in TicksOf(f.headers, r, prev) /\ r \in RowsOf(f) /\ prev \in SUBSET Nat
          BY <3>2, <4>1, <4>2, <5>1
        <5>3. f \in Files
          OBVIOUS
        <5> QED BY ONLY <5>2, <5>3, TickIs
      <4> QED BY <4>2, <4>3
    <3>4. i = n \/ ticks[i].time < ticks[n].time
      BY <1>4, <3>1
    <3> QED BY <1>2, <2>1, <3>1, <3>3, <3>4
  <2>3. ASSUME NEW i \in 1 .. n + 1, NEW j \in 1 .. n + 1, i < j
        PROVE  ticks[i].time < ticks[j].time
    <3>1. i \in 1 .. n
      BY <2>1, <2>3
    <3>2. CASE j = n + 1
      BY <2>2, <3>1, <3>2
    <3>3. CASE j # n + 1
      <4>1. j \in 1 .. n
        BY <2>1, <3>3
      <4> QED BY <1>4, <2>3, <3>1, <4>1
    <3> QED BY <3>2, <3>3
  <2> QED BY <2>1, <2>3
<1>5. m \in I
  <2>1. 0 \in Int /\ m \in Int /\ m \in 0 .. m /\ \A n \in 0 .. m - 1 : n \in I => n + 1 \in I
    BY <1>1, <1>4
  <2> HIDE DEF I, m
  <2>2. 0 .. m \subseteq I
    BY <1>3, <2>1, IntervalInduction
  <2> QED BY <2>1, <2>2
<1> QED BY <1>1, <1>2, <1>5

\* Ticks in order: those before a time come first.
TicksOrdered(ticks) ==
  /\ \A k \in 1 .. Len(ticks) : ticks[k].time \in Nat
  /\ \A i, j \in 1 .. Len(ticks) : i < j => ticks[i].time < ticks[j].time

\* The first b ticks are those before the time, and no others.
FirstAre(ticks, b, time) ==
  /\ b \in 0 .. Len(ticks)
  /\ \A k \in 1 .. Len(ticks) : ticks[k].time < time <=> k <= b

LEMMA BeforeCounted ==
  ASSUME NEW ticks \in Seq(TickSet), TicksOrdered(ticks), NEW time \in Nat
  PROVE  FirstAre(ticks, Cardinality({k \in DOMAIN ticks : ticks[k].time < time}), time)
<1> DEFINE m == Len(ticks)
           T == {k \in 1 .. m : ~(ticks[k].time < time)}
<1>1. m \in Nat /\ DOMAIN ticks = 1 .. m
  BY LenProperties
<1>2. PICK b \in 0 .. m : \A k \in 1 .. m : ticks[k].time < time <=> k <= b
  <2>1. CASE T = {}
    <3>1. m \in 0 .. m /\ \A k \in 1 .. m : ticks[k].time < time <=> k <= m
      BY <1>1, <2>1
    <3> QED BY <3>1
  <2>2. CASE T # {}
    <3>1. T \in SUBSET Nat
      BY <1>1
    <3>2. PICK c \in T : \A k \in T : c <= k
      <4> HIDE DEF T
      <4> QED BY <2>2, <3>1, LeastNumber
    <3>3. c \in 1 .. m /\ c - 1 \in 0 .. m /\ ~(ticks[c].time < time)
      BY <1>1, <3>2
    <3>4. ASSUME NEW k \in 1 .. m PROVE ticks[k].time < time <=> k <= c - 1
      <4>1. CASE k < c
        <5>1. k \notin T
          BY <1>1, <3>2, <3>3, <4>1
        <5> QED BY <1>1, <3>3, <4>1, <5>1
      <4>2. CASE k = c
        BY <1>1, <3>3, <4>2
      <4>3. CASE k > c
        <5>1. /\ ticks[c].time < ticks[k].time /\ ticks[c].time \in Nat /\ ticks[k].time \in Nat
          BY <3>3, <4>3 DEF TicksOrdered
        <5> QED BY <1>1, <3>3, <4>3, <5>1
      <4> QED BY <1>1, <3>3, <4>1, <4>2, <4>3
    <3> QED BY <3>3, <3>4
  <2> QED BY <2>1, <2>2
<1>3. {k \in DOMAIN ticks : ticks[k].time < time} = 1 .. b
  <2> HIDE DEF m
  <2> QED BY <1>1, <1>2
<1>4. Cardinality(1 .. b) = b
  <2>1. 1 \in Int /\ b \in Int /\ b \in Nat
    BY <1>1
  <2>2. Cardinality(1 .. b) = IF 1 > b THEN 0 ELSE b - 1 + 1
    BY ONLY <2>1, FS_Interval
  <2> QED BY <2>1, <2>2
<1> QED BY <1>2, <1>3, <1>4 DEF FirstAre

\* The events of the period are numbered on from the ticks before it.
LEMMA FedNumbers ==
  ASSUME NEW ticks \in Seq(TickSet), TicksOrdered(ticks), period.start \in Nat, period.end \in Nat,
         NEW b, FirstAre(ticks, b, period.start)
  PROVE  \A i \in 1 .. Len(FedOf(ticks)) : FedOf(ticks)[i].seq = b + i
<1> DEFINE m == Len(ticks)
           FirstNumbered(n) ==
             /\ \A i \in 1 .. Len(FirstOf(ticks, n)) : FirstOf(ticks, n)[i].seq = b + i
             /\ n <= b => Len(FirstOf(ticks, n)) = 0
             /\ n >= b /\ (\A k \in 1 .. n : ticks[k].time <= period.end)
                  => Len(FirstOf(ticks, n)) = n - b
           I == {n \in 0 .. m : FirstNumbered(n)}
<1>1. /\ m \in Nat /\ b \in 0 .. m
      /\ \A k \in 1 .. m : ticks[k] \in TickSet /\ ticks[k].time \in Nat
      /\ \A k \in 1 .. m : ticks[k].time < period.start <=> k <= b
      /\ \A i, j \in 1 .. m : i < j => ticks[i].time < ticks[j].time
  BY LenProperties, ElementOfSeq DEF TicksOrdered, FirstAre
<1>2. \A n \in 0 .. m : FirstOf(ticks, n) \in Seq(MarketEvent)
  BY FirstFed
<1>3. 0 \in I
  <2>1. Len(FirstOf(ticks, 0)) = 0
    <3>1. PICK q : q = TicksToEvents(SubSeq(ticks, 1, 0))
      OBVIOUS
    <3>2. 0 \in 0 .. m
      BY <1>1
    <3>3. Len(q) = 0
      BY <3>1, <3>2, FirstEvents
    <3>4. Taken(q, {k \in DOMAIN q : InPeriod(q[k], period.start, period.end)}) = <<>>
      BY <3>3, TakenIs
    <3> QED BY <3>1, <3>4 DEF FirstOf, EventsOf
  <2>2. 0 >= b => 0 - b = 0
    BY <1>1
  <2>3. 0 \in 0 .. m
    BY <1>1
  <2> QED BY <2>1, <2>2, <2>3
<1>4. ASSUME NEW n \in 0 .. m - 1, n \in I
      PROVE  n + 1 \in I
  <2>1. n \in Nat /\ n + 1 \in 1 .. m /\ n + 1 \in 0 .. m /\ n \in 0 .. m
    BY <1>1
  <2>2. PICK t, e, p, q : /\ t = ticks[n + 1] /\ e = TickEvent(t, n + 1)
                          /\ p = FirstOf(ticks, n) /\ q = FirstOf(ticks, n + 1)
    OBVIOUS
  <2>3. t \in TickSet /\ t.time \in Nat /\ (t.time < period.start <=> n + 1 <= b)
    BY <1>1, <2>1, <2>2
  <2>4. e \in MarketEvent /\ e.time = t.time /\ e.seq = n + 1
    BY <2>1, <2>2, <2>3, EventIs
  <2>5. p \in Seq(MarketEvent) /\ Len(p) \in Nat
    BY <1>2, <2>1, <2>2, LenProperties
  <2>6. q = IF InPeriod(e, period.start, period.end) THEN Append(p, e) ELSE p
    BY <2>1, <2>2, FirstMore
  <2>7. /\ \A i \in 1 .. Len(p) : p[i].seq = b + i
        /\ n <= b => Len(p) = 0
        /\ n >= b /\ (\A k \in 1 .. n : ticks[k].time <= period.end) => Len(p) = n - b
    BY <1>4, <2>2
  <2>8. InPeriod(e, period.start, period.end) <=> n + 1 > b /\ t.time <= period.end
    BY <1>1, <2>1, <2>3, <2>4 DEF InPeriod
  <2>9. /\ \A i \in 1 .. Len(q) : q[i].seq = b + i
        /\ n + 1 <= b => Len(q) = 0
        /\ n + 1 >= b /\ (\A k \in 1 .. n + 1 : ticks[k].time <= period.end) => Len(q) = (n + 1) - b
    <3>1. CASE n + 1 > b /\ t.time <= period.end
      <4>1. n >= b /\ \A k \in 1 .. n : ticks[k].time <= period.end
        <5>1. n >= b
          BY <1>1, <2>1, <3>1
        <5>2. ASSUME NEW k \in 1 .. n PROVE ticks[k].time <= period.end
          <6>1. k \in 1 .. m /\ k < n + 1
            BY <2>1
          <6>2. ticks[k].time < t.time /\ ticks[k].time \in Nat
            BY <1>1, <2>1, <2>2, <6>1
          <6> QED BY <2>3, <3>1, <6>2
        <5> QED BY <5>1, <5>2
      <4>2. Len(p) = n - b
        BY <2>7, <4>1
      <4>3. q = Append(p, e)
        BY <2>6, <2>8, <3>1
      <4>4. /\ Len(q) = Len(p) + 1 /\ q[Len(p) + 1] = e /\ \A i \in 1 .. Len(p) : q[i] = p[i]
        BY <2>4, <2>5, <4>3, AppendProperties
      <4>5. ASSUME NEW i \in 1 .. Len(q) PROVE q[i].seq = b + i
        <5>1. CASE i = Len(p) + 1
          <6>1. b + i = n + 1
            BY <1>1, <2>1, <4>2, <5>1
          <6> QED BY <2>4, <4>4, <5>1, <6>1
        <5>2. CASE i # Len(p) + 1
          <6>1. i \in 1 .. Len(p)
            BY <2>5, <4>4, <5>2
          <6> QED BY <2>7, <4>4, <6>1
        <5> QED BY <5>1, <5>2
      <4>6. Len(q) = (n + 1) - b
        BY <1>1, <2>1, <4>2, <4>4
      <4>7. ~(n + 1 <= b)
        BY <1>1, <2>1, <3>1
      <4> QED BY <4>5, <4>6, <4>7
    <3>2. CASE n + 1 <= b
      <4>1. q = p /\ Len(p) = 0
        <5>1. ~(n + 1 > b) /\ n <= b
          BY <1>1, <2>1, <3>2
        <5> QED BY <2>6, <2>7, <2>8, <5>1
      <4>2. n + 1 >= b => (n + 1) - b = 0
        BY <1>1, <2>1, <3>2
      <4> QED BY <2>7, <4>1, <4>2
    <3>3. CASE n + 1 > b /\ ~(t.time <= period.end)
      <4>1. q = p
        BY <2>6, <2>8, <3>3
      <4>2. n + 1 \in 1 .. n + 1
        BY <2>1
      <4>3. ~\A k \in 1 .. n + 1 : ticks[k].time <= period.end
        BY <2>2, <3>3, <4>2
      <4>4. ~(n + 1 <= b)
        BY <1>1, <2>1, <3>3
      <4> QED BY <2>7, <4>1, <4>3, <4>4
    <3> QED BY <1>1, <2>1, <3>1, <3>2, <3>3
  <2>10. FirstNumbered(n + 1)
    <3>1. /\ \A i \in 1 .. Len(FirstOf(ticks, n + 1)) : FirstOf(ticks, n + 1)[i].seq = b + i
          /\ n + 1 <= b => Len(FirstOf(ticks, n + 1)) = 0
          /\ n + 1 >= b /\ (\A k \in 1 .. n + 1 : ticks[k].time <= period.end)
               => Len(FirstOf(ticks, n + 1)) = (n + 1) - b
      BY <2>2, <2>9
    <3> QED BY <3>1
  <2> HIDE DEF FirstNumbered
  <2> QED BY <2>1, <2>10
<1>5. m \in I
  <2>1. 0 \in Int /\ m \in Int /\ m \in 0 .. m /\ \A n \in 0 .. m - 1 : n \in I => n + 1 \in I
    BY <1>1, <1>4
  <2> HIDE DEF I, m
  <2>2. 0 .. m \subseteq I
    BY <1>3, <2>1, IntervalInduction
  <2> QED BY <2>1, <2>2
<1>6. FirstOf(ticks, m) = FedOf(ticks)
  <2>1. m \in 0 .. m
    BY <1>1
  <2> QED BY <2>1, FirstFed
<1>7. FirstNumbered(m)
  <2> HIDE DEF FirstNumbered
  <2> QED BY <1>5
<1> QED BY <1>6, <1>7

-----------------------------------------------------------------------------
(* The reader and the stream, one tick on *)

ReaderSet(f) ==
  [headers : {f.headers}, rest : Seq(RowsOf(f)), prev : SUBSET Nat, window : Seq(TickSet)]

Slid(w) == IF Len(w) >= WindowSize THEN Tail(w) ELSE w

\* The first usable row of the rest is the k-th and means t.
ReadsTick(f, r, next, k, t) ==
  /\ k \in Usable(r) /\ \A j \in Usable(r) : k <= j
  /\ t \in TicksOf(f.headers, r.rest[k], r.prev)
  /\ next.tick = {t}
  /\ next.reader = [r EXCEPT !.rest = SubSeq(@, k + 1, Len(@)), !.prev = {t.time},
                             !.window = Append(Slid(r.window), t)]

ReadsNone(r, next) ==
  Usable(r) = {} /\ next.tick = {} /\ next.reader = [r EXCEPT !.rest = <<>>]

LEMMA NextTickIs ==
  ASSUME NEW f \in Files, NEW r \in ReaderSet(f), NEW next, next = NextTick(r)
  PROVE  ReadsNone(r, next) \/ \E k, t : ReadsTick(f, r, next, k, t)
<1>1. r.headers = f.headers /\ r.rest \in Seq(RowsOf(f))
  BY DEF ReaderSet
<1>2. CASE Usable(r) = {}
  BY <1>2 DEF NextTick, ReadsNone
<1>3. CASE Usable(r) # {}
  <2> DEFINE k == CHOOSE i \in Usable(r) : \A j \in Usable(r) : i <= j
             t == CHOOSE u \in TicksOf(r.headers, r.rest[k], r.prev) : TRUE
  <2>1. Usable(r) \in SUBSET Nat
    <3>1. DOMAIN r.rest = 1 .. Len(r.rest) /\ Len(r.rest) \in Nat
      BY <1>1, LenProperties
    <3> QED BY <3>1 DEF Usable
  <2>2. \E i \in Usable(r) : \A j \in Usable(r) : i <= j
    BY <1>3, <2>1, LeastNumber
  <2>3. k \in Usable(r) /\ \A j \in Usable(r) : k <= j
    BY <2>2
  <2>4. TicksOf(r.headers, r.rest[k], r.prev) # {}
    BY <2>3 DEF Usable
  <2>5. t \in TicksOf(f.headers, r.rest[k], r.prev)
    BY <1>1, <2>4
  <2>6. /\ next.tick = {t}
        /\ next.reader = [r EXCEPT !.rest = SubSeq(@, k + 1, Len(@)), !.prev = {t.time},
                                   !.window = Append(Slid(r.window), t)]
    BY <1>3 DEF NextTick, Slid
  <2>7. ReadsTick(f, r, next, k, t)
    BY <2>3, <2>5, <2>6 DEF ReadsTick
  <2> QED BY <2>7
<1> QED BY <1>2, <1>3

LEMMA SlidIs ==
  ASSUME NEW w \in Seq(TickSet)
  PROVE  /\ Slid(w) \in Seq(TickSet)
         /\ Len(Slid(w)) = IF Len(w) >= WindowSize THEN Len(w) - 1 ELSE Len(w)
         /\ Len(w) >= WindowSize => w # <<>> /\ \A i \in 1 .. Len(w) - 1 : Slid(w)[i] = w[i + 1]
<1>1. WindowSize \in Nat \ {0} /\ Len(w) \in Nat
  BY FeedAssumption, LenProperties DEF FeedAssumption
<1>2. CASE Len(w) >= WindowSize
  <2>1. w # <<>>
    BY <1>1, <1>2
  <2>2. /\ Tail(w) \in Seq(TickSet) /\ Len(Tail(w)) = Len(w) - 1
        /\ \A i \in 1 .. Len(Tail(w)) : Tail(w)[i] = w[i + 1]
    BY <2>1, HeadTailProperties
  <2> QED BY <1>2, <2>1, <2>2 DEF Slid
<1>3. CASE ~(Len(w) >= WindowSize)
  BY <1>3 DEF Slid
<1> QED BY <1>2, <1>3

\* The reader goes on among the rows of its file.
LEMMA ReaderMoves ==
  ASSUME NEW f \in Files, NEW r \in ReaderSet(f), NEW next, NEW k, NEW t, ReadsTick(f, r, next, k, t)
  PROVE  /\ next.reader \in ReaderSet(f) /\ t \in TickSet /\ next.reader.prev = {t.time}
         /\ t.time \in Nat /\ \A p \in r.prev : t.time > p
<1>1. /\ r.headers = f.headers /\ r.rest \in Seq(RowsOf(f)) /\ r.prev \in SUBSET Nat
      /\ r.window \in Seq(TickSet)
  BY DEF ReaderSet
<1>2. Len(r.rest) \in Nat /\ DOMAIN r.rest = 1 .. Len(r.rest)
  BY <1>1, LenProperties
<1>3. k \in 1 .. Len(r.rest)
  BY <1>2 DEF ReadsTick, Usable
<1>4. r.rest[k] \in RowsOf(f)
  BY <1>1, <1>3, ElementOfSeq
<1>5. t \in TickSet /\ t.time \in Nat /\ \A p \in r.prev : t.time > p
  BY <1>1, <1>4, TickIs DEF ReadsTick
<1>6. SubSeq(r.rest, k + 1, Len(r.rest)) \in Seq(RowsOf(f))
  <2>1. \A i \in k + 1 .. Len(r.rest) : r.rest[i] \in RowsOf(f)
    BY <1>1, <1>3, ElementOfSeq
  <2>2. k + 1 \in Int /\ Len(r.rest) \in Int
    BY <1>2, <1>3
  <2> QED BY <2>1, <2>2, SubSeqProperties
<1>7. Append(Slid(r.window), t) \in Seq(TickSet)
  BY <1>1, <1>5, SlidIs
<1>8. next.reader = [r EXCEPT !.rest = SubSeq(@, k + 1, Len(@)), !.prev = {t.time},
                              !.window = Append(Slid(r.window), t)]
  BY DEF ReadsTick
<1>9. next.reader \in ReaderSet(f) /\ next.reader.prev = {t.time}
  BY <1>5, <1>6, <1>7, <1>8 DEF ReaderSet
<1> QED BY <1>5, <1>9

\* A file that loads is read row by row.
LEMMA LoadedNext ==
  ASSUME NEW f \in Files, NEW r \in ReaderSet(f), NEW next, next = NextTick(r),
         NEW ticks, LoadedSome(f, ticks, Len(f.rows)), NEW n \in 0 .. Len(ticks),
         r.rest = SubSeq(f.rows, n + 1, Len(f.rows)), r.prev = TimeBefore(ticks, n + 1)
  PROVE  /\ n = Len(ticks) => next.tick = {}
         /\ n < Len(ticks) => /\ ReadsTick(f, r, next, 1, ticks[n + 1])
                              /\ next.reader.rest = SubSeq(f.rows, n + 2, Len(f.rows))
<1> DEFINE m == Len(f.rows)
<1>1. m \in Nat /\ f.rows \in Seq(RowsOf(f)) /\ \A k \in 1 .. m : f.rows[k] \in RowsOf(f)
  BY RowIs
<1>2. ticks \in Seq(TickSet) /\ Len(ticks) = m
  BY DEF LoadedSome
<1>3. /\ Len(r.rest) = IF n + 1 <= m THEN m - (n + 1) + 1 ELSE 0
      /\ \A i \in 1 .. m - (n + 1) + 1 : r.rest[i] = f.rows[n + 1 + i - 1]
  <2>1. n + 1 \in Int /\ m \in Int /\ \A i \in n + 1 .. m : f.rows[i] \in RowsOf(f)
    BY <1>1, <1>2
  <2> QED BY <2>1, SubSeqProperties
<1>4. r.rest \in Seq(RowsOf(f)) /\ r.headers = f.headers /\ r.prev \in SUBSET Nat
  BY DEF ReaderSet
<1>5. DOMAIN r.rest = 1 .. Len(r.rest) /\ Len(r.rest) = m - n
  BY <1>1, <1>2, <1>3, <1>4, LenProperties
<1>6. ASSUME n = m PROVE next.tick = {}
  <2>1. Usable(r) = {}
    BY <1>1, <1>5, <1>6 DEF Usable
  <2> QED BY <2>1 DEF NextTick
<1>7. ASSUME n < m
      PROVE  ReadsTick(f, r, next, 1, ticks[n + 1]) /\ next.reader.rest = SubSeq(f.rows, n + 2, m)
  <2>1. n + 1 \in 1 .. m /\ 1 \in 1 .. m - n /\ 1 \in 1 .. m - (n + 1) + 1 /\ n + 1 + 1 - 1 = n + 1
    BY <1>1, <1>2, <1>7
  <2>2. r.rest[1] = f.rows[n + 1]
    BY <1>3, <2>1
  <2>3. ticks[n + 1] \in TicksOf(f.headers, r.rest[1], r.prev)
    BY <2>1, <2>2 DEF LoadedSome
  <2>4. 1 \in Usable(r)
    BY <1>4, <1>5, <2>1, <2>3 DEF Usable
  <2>5. PICK k, t : ReadsTick(f, r, next, k, t)
    <3>1. ~ReadsNone(r, next)
      BY <2>4 DEF ReadsNone
    <3> QED BY <3>1, NextTickIs
  <2>6. k = 1
    <3>1. k <= 1 /\ k \in DOMAIN r.rest
      BY <2>4, <2>5 DEF ReadsTick, Usable
    <3> QED BY <1>5, <3>1
  <2>7. t = ticks[n + 1]
    <3>1. f.rows[n + 1] \in RowsOf(f)
      BY <1>1, <2>1
    <3>2. t \in TicksOf(f.headers, r.rest[1], r.prev)
      BY <2>5, <2>6 DEF ReadsTick
    <3> QED BY <1>4, <2>2, <2>3, <3>1, <3>2, TickIs
  <2>8. next.reader.rest = SubSeq(r.rest, 2, Len(r.rest))
    <3>1. next.reader = [r EXCEPT !.rest = SubSeq(@, k + 1, Len(@)), !.prev = {t.time},
                                  !.window = Append(Slid(r.window), t)]
      BY <2>5 DEF ReadsTick
    <3>2. next.reader.rest = SubSeq(r.rest, k + 1, Len(r.rest))
      BY <3>1 DEF ReaderSet
    <3>3. k + 1 = 2
      BY <2>6
    <3> QED BY <3>2, <3>3
  <2>9. SubSeq(r.rest, 2, Len(r.rest)) = SubSeq(f.rows, n + 2, m)
    <3> DEFINE a == SubSeq(r.rest, 2, m - n)
               b == SubSeq(f.rows, n + 2, m)
    <3>1. /\ 2 \in Int /\ m - n \in Int /\ n + 2 \in Int /\ m \in Int
          /\ \A i \in 2 .. m - n : r.rest[i] \in RowsOf(f)
          /\ \A i \in n + 2 .. m : f.rows[i] \in RowsOf(f)
      BY <1>1, <1>2, <1>4, <1>5, ElementOfSeq
    <3>2. /\ a \in Seq(RowsOf(f)) /\ Len(a) = (IF 2 <= m - n THEN (m - n) - 2 + 1 ELSE 0)
          /\ \A i \in 1 .. (m - n) - 2 + 1 : a[i] = r.rest[2 + i - 1]
      BY <3>1, SubSeqProperties
    <3>3. /\ b \in Seq(RowsOf(f)) /\ Len(b) = (IF n + 2 <= m THEN m - (n + 2) + 1 ELSE 0)
          /\ \A i \in 1 .. m - (n + 2) + 1 : b[i] = f.rows[n + 2 + i - 1]
      BY <3>1, SubSeqProperties
    <3> HIDE DEF a, b
    <3>4. Len(a) = Len(b)
      BY <1>1, <1>2, <3>2, <3>3
    <3>5. ASSUME NEW i \in 1 .. Len(a) PROVE a[i] = b[i]
      <4>1. /\ i \in 1 .. (m - n) - 2 + 1 /\ i \in 1 .. m - (n + 2) + 1
            /\ 2 + i - 1 = i + 1 /\ i + 1 \in 1 .. m - (n + 1) + 1
            /\ n + 1 + (i + 1) - 1 = n + 2 + i - 1
        BY <1>1, <1>2, <3>2
      <4>2. a[i] = r.rest[i + 1] /\ b[i] = f.rows[n + 2 + i - 1]
        BY <3>2, <3>3, <4>1
      <4>3. r.rest[i + 1] = f.rows[n + 1 + (i + 1) - 1]
        BY <1>3, <4>1
      <4> QED BY <4>1, <4>2, <4>3
    <3>6. a = b
      BY <3>2, <3>3, <3>4, <3>5, SeqEqual
    <3> QED BY <1>5, <3>6 DEF a, b
  <2> QED BY <2>5, <2>6, <2>7, <2>8, <2>9
<1> QED BY <1>2, <1>6, <1>7

\* A window of the last ticks read is one of the last with one more.
WindowOf(w, ticks, n) ==
  /\ Len(w) = IF n < WindowSize THEN n ELSE WindowSize
  /\ w = SubSeq(ticks, n - Len(w) + 1, n)

LEMMA WindowMore ==
  ASSUME NEW ticks \in Seq(TickSet), NEW n \in 0 .. Len(ticks) - 1, NEW w \in Seq(TickSet),
         WindowOf(w, ticks, n)
  PROVE  WindowOf(Append(Slid(w), ticks[n + 1]), ticks, n + 1)
<1> DEFINE v == Append(Slid(w), ticks[n + 1])
           l == Len(w)
           b == SubSeq(ticks, n + 1 - Len(v) + 1, n + 1)
<1>1. /\ WindowSize \in Nat \ {0} /\ l \in Nat /\ Len(ticks) \in Nat /\ n \in Nat
      /\ n + 1 \in 1 .. Len(ticks)
  BY FeedAssumption, LenProperties DEF FeedAssumption
<1>2. l = (IF n < WindowSize THEN n ELSE WindowSize) /\ w = SubSeq(ticks, n - l + 1, n)
  BY DEF WindowOf
<1>3. \A i \in 1 .. l : w[i] = ticks[n - l + i]
  <2>1. n - l + 1 \in Int /\ n \in Int /\ \A i \in n - l + 1 .. n : ticks[i] \in TickSet
    BY <1>1, <1>2, ElementOfSeq
  <2>2. \A i \in 1 .. n - (n - l + 1) + 1 : SubSeq(ticks, n - l + 1, n)[i] = ticks[(n - l + 1) + i - 1]
    BY <2>1, SubSeqProperties
  <2> HIDE DEF l
  <2>3. ASSUME NEW i \in 1 .. l PROVE w[i] = ticks[n - l + i]
    <3>1. i \in 1 .. n - (n - l + 1) + 1 /\ (n - l + 1) + i - 1 = n - l + i
      BY <1>1
    <3> QED BY <1>2, <2>2, <3>1
  <2> QED BY <2>3
<1>4. /\ Slid(w) \in Seq(TickSet)
      /\ Len(Slid(w)) = IF l >= WindowSize THEN l - 1 ELSE l
      /\ l >= WindowSize => \A i \in 1 .. l - 1 : Slid(w)[i] = w[i + 1]
  BY SlidIs
<1>5. ticks[n + 1] \in TickSet
  BY <1>1, ElementOfSeq
<1>6. /\ v \in Seq(TickSet) /\ Len(v) = Len(Slid(w)) + 1 /\ v[Len(Slid(w)) + 1] = ticks[n + 1]
      /\ \A i \in 1 .. Len(Slid(w)) : v[i] = Slid(w)[i]
  <2> DEFINE u == Slid(w)
  <2>1. u \in Seq(TickSet)
    BY <1>4
  <2> HIDE DEF u
  <2>2. /\ Append(u, ticks[n + 1]) \in Seq(TickSet) /\ Len(Append(u, ticks[n + 1])) = Len(u) + 1
        /\ \A i \in 1 .. Len(u) : Append(u, ticks[n + 1])[i] = u[i]
        /\ Append(u, ticks[n + 1])[Len(u) + 1] = ticks[n + 1]
    BY <1>5, <2>1, AppendProperties
  <2> QED BY <2>2 DEF u
<1> HIDE DEF v, l
<1>7. Len(v) = IF n + 1 < WindowSize THEN n + 1 ELSE WindowSize
  BY <1>1, <1>2, <1>4, <1>6
<1>8. ASSUME NEW i \in 1 .. Len(v) PROVE v[i] = ticks[n + 1 - Len(v) + i]
  <2>1. CASE i = Len(v)
    <3>1. n + 1 - Len(v) + i = n + 1
      BY <1>1, <1>7, <2>1
    <3> QED BY <1>6, <2>1, <3>1
  <2>2. CASE i # Len(v) /\ l >= WindowSize
    <3>1. /\ i \in 1 .. Len(Slid(w)) /\ i \in 1 .. l - 1 /\ i + 1 \in 1 .. l
          /\ n + 1 - Len(v) + i = n - l + (i + 1)
      BY <1>1, <1>2, <1>4, <1>6, <1>7, <2>2
    <3> QED BY <1>3, <1>4, <1>6, <2>2, <3>1
  <2>3. CASE i # Len(v) /\ ~(l >= WindowSize)
    <3>1. i \in 1 .. Len(Slid(w)) /\ i \in 1 .. l /\ n + 1 - Len(v) + i = n - l + i
      BY <1>1, <1>2, <1>4, <1>6, <1>7, <2>3
    <3>2. Slid(w) = w
      BY <2>3 DEF Slid, l
    <3> QED BY <1>3, <1>6, <3>1, <3>2
  <2> QED BY <2>1, <2>2, <2>3
<1>9. /\ b \in Seq(TickSet) /\ Len(b) = Len(v) /\ \A i \in 1 .. Len(v) : b[i] = ticks[n + 1 - Len(v) + i]
  <2> DEFINE s == n + 1 - Len(v) + 1
  <2>1. s \in Int /\ n + 1 \in Int /\ s >= 1 /\ Len(v) \in Nat /\ Len(v) >= 1
    BY <1>1, <1>7
  <2>2. \A i \in s .. n + 1 : ticks[i] \in TickSet
    BY <1>1, <2>1, ElementOfSeq
  <2>3. /\ b \in Seq(TickSet) /\ Len(b) = (IF s <= n + 1 THEN n + 1 - s + 1 ELSE 0)
        /\ \A i \in 1 .. n + 1 - s + 1 : b[i] = ticks[s + i - 1]
    <3> HIDE DEF s
    <3>1. b = SubSeq(ticks, s, n + 1)
      BY DEF b, s
    <3> HIDE DEF b
    <3> QED BY <2>1, <2>2, <3>1, SubSeqProperties
  <2> HIDE DEF b
  <2>4. Len(b) = Len(v)
    BY <1>1, <2>1, <2>3
  <2>5. ASSUME NEW i \in 1 .. Len(v) PROVE b[i] = ticks[n + 1 - Len(v) + i]
    <3>1. i \in 1 .. n + 1 - s + 1 /\ s + i - 1 = n + 1 - Len(v) + i
      BY <1>1, <2>1
    <3> QED BY <2>3, <3>1
  <2> QED BY <2>3, <2>4, <2>5
<1> HIDE DEF b
<1>10. v = b
  <2>1. \A i \in 1 .. Len(v) : v[i] = b[i]
    BY <1>8, <1>9
  <2> QED BY <1>6, <1>9, <2>1, SeqEqual
<1>11. v = SubSeq(ticks, n + 1 - Len(v) + 1, n + 1)
  BY <1>10 DEF b
<1>12. n + 1 \in Nat /\ Len(v) \in Nat
  BY <1>1, <1>7
<1>13. PICK x : x = v
  OBVIOUS
<1>14. PICK k : k = n + 1
  OBVIOUS
<1>15. Len(x) = IF k < WindowSize THEN k ELSE WindowSize
  BY <1>7, <1>13, <1>14
<1>16. x = SubSeq(ticks, k - Len(x) + 1, k)
  BY <1>11, <1>13, <1>14
<1>17. WindowOf(x, ticks, k)
  BY <1>15, <1>16 DEF WindowOf
<1> QED BY <1>13, <1>14, <1>17 DEF v

-----------------------------------------------------------------------------
(* The batches, one tick on *)

StreamSet == [seq : Nat, batch : Seq(MarketEvent), processed : Seq(Seq(MarketEvent))]

\* What the engine was given or is about to be
HandedOf(s) == Streamed(s) \o s.batch

LEMMA HandedIs ==
  ASSUME NEW s \in StreamSet
  PROVE  /\ Streamed(s) \in Seq(MarketEvent) /\ s.batch \in Seq(MarketEvent) /\ s.seq \in Nat
         /\ s.processed \in Seq(Seq(MarketEvent)) /\ HandedOf(s) \in Seq(MarketEvent)
<1>1. s.batch \in Seq(MarketEvent) /\ s.processed \in Seq(Seq(MarketEvent)) /\ s.seq \in Nat
  BY DEF StreamSet
<1>2. Streamed(s) \in Seq(MarketEvent)
  BY <1>1, StreamedTypes
<1> QED BY <1>1, <1>2, ConcatProperties DEF HandedOf

\* A batch that is given to the engine leaves what was handed over as it is.
LEMMA BatchGiven ==
  ASSUME NEW s \in StreamSet, NEW b \in Seq(MarketEvent), NEW next \in StreamSet,
         next.batch = <<>>, next.processed = Append(s.processed, b)
  PROVE  HandedOf(next) = Streamed(s) \o b
<1>1. Streamed(s) \in Seq(MarketEvent) /\ s.processed \in Seq(Seq(MarketEvent))
  BY HandedIs
<1>2. Streamed(next) = Streamed(s) \o b
  <2>1. b \in Seq(MarketEvent) /\ next.processed = Append(s.processed, b)
    OBVIOUS
  <2> QED BY ONLY <1>1, <2>1, StreamedMore
<1>3. Streamed(s) \o b \in Seq(MarketEvent)
  BY <1>1, ConcatProperties
<1>4. (Streamed(s) \o b) \o <<>> = Streamed(s) \o b
  BY <1>3, ConcatEmptySeq
<1> QED BY <1>2, <1>4 DEF HandedOf

LEMMA StreamTickIs ==
  ASSUME NEW s \in StreamSet, NEW t \in TickSet, NEW start, NEW end,
         NEW e, e = TickEvent(t, s.seq + 1), NEW next, next = StreamTick(s, t, start, end)
  PROVE  /\ next \in StreamSet /\ next.seq = s.seq + 1
         /\ HandedOf(next) = IF InPeriod(e, start, end) THEN Append(HandedOf(s), e) ELSE HandedOf(s)
<1> DEFINE batch == IF InPeriod(e, start, end) THEN Append(s.batch, e) ELSE s.batch
           full == Len(batch) >= BatchSize
<1>1. /\ Streamed(s) \in Seq(MarketEvent) /\ s.batch \in Seq(MarketEvent) /\ s.seq \in Nat
      /\ s.processed \in Seq(Seq(MarketEvent))
  BY HandedIs
<1>2. e \in MarketEvent
  BY <1>1, EventIs
<1>3. batch \in Seq(MarketEvent)
  BY <1>1, <1>2
<1>4. next = [seq |-> s.seq + 1, batch |-> IF full THEN <<>> ELSE batch,
              processed |-> IF full THEN Append(s.processed, batch) ELSE s.processed]
  BY DEF StreamTick
<1>5. Streamed(s) \o batch = IF InPeriod(e, start, end) THEN Append(HandedOf(s), e) ELSE HandedOf(s)
  <2>1. CASE InPeriod(e, start, end)
    <3>1. Append(s.batch, e) = s.batch \o <<e>>
      BY <1>1, <1>2, AppendIsConcat
    <3>2. <<e>> \in Seq(MarketEvent)
      BY <1>2
    <3>3. Streamed(s) \o (s.batch \o <<e>>) = (Streamed(s) \o s.batch) \o <<e>>
      <4>1. PICK u, v, w : u = Streamed(s) /\ v = s.batch /\ w = <<e>>
        OBVIOUS
      <4>2. u \in Seq(MarketEvent) /\ v \in Seq(MarketEvent) /\ w \in Seq(MarketEvent)
        BY <1>1, <3>2, <4>1
      <4>3. (u \o v) \o w = u \o (v \o w)
        BY ONLY <4>2, ConcatAssociative
      <4> QED BY <4>1, <4>3
    <3>4. HandedOf(s) \o <<e>> = Append(HandedOf(s), e)
      BY <1>2, HandedIs, AppendIsConcat
    <3> QED BY <2>1, <3>1, <3>3, <3>4 DEF HandedOf
  <2>2. CASE ~InPeriod(e, start, end)
    BY <2>2 DEF HandedOf
  <2> QED BY <2>1, <2>2
<1> HIDE DEF batch
<1>6. next \in StreamSet
  <2>1. <<>> \in Seq(MarketEvent) /\ Append(s.processed, batch) \in Seq(Seq(MarketEvent))
    BY <1>1, <1>3
  <2>2. s.seq + 1 \in Nat
    BY <1>1
  <2> HIDE DEF full
  <2> QED BY <1>1, <1>3, <1>4, <2>1, <2>2 DEF StreamSet
<1>7. HandedOf(next) = Streamed(s) \o batch
  <2>1. CASE full
    <3>1. next.batch = <<>> /\ next.processed = Append(s.processed, batch)
      BY <1>4, <2>1
    <3> QED BY <1>3, <1>6, <3>1, BatchGiven
  <2>2. CASE ~full
    <3>1. next.batch = batch /\ next.processed = s.processed
      BY <1>4, <2>2
    <3>2. Streamed(next) = Streamed(s)
      BY <3>1 DEF Streamed
    <3> QED BY <3>1, <3>2 DEF HandedOf
  <2> QED BY <2>1, <2>2
<1>8. next.seq = s.seq + 1
  BY <1>4
<1> QED BY <1>5, <1>6, <1>7, <1>8

LEMMA StreamEndIs ==
  ASSUME NEW s \in StreamSet, NEW next, next = StreamEnd(s)
  PROVE  next \in StreamSet /\ next.seq = s.seq /\ HandedOf(next) = HandedOf(s)
<1>1. /\ s.batch \in Seq(MarketEvent) /\ s.seq \in Nat /\ s.processed \in Seq(Seq(MarketEvent))
      /\ s = [seq |-> s.seq, batch |-> s.batch, processed |-> s.processed]
  BY DEF StreamSet
<1>2. CASE s.batch = <<>>
  <2>1. next = s
    BY <1>1, <1>2 DEF StreamEnd
  <2> QED BY <2>1
<1>3. CASE s.batch # <<>>
  <2>1. next.batch = <<>> /\ next.processed = Append(s.processed, s.batch) /\ next.seq = s.seq
    BY <1>1, <1>3 DEF StreamEnd
  <2>2. next \in StreamSet
    <3>1. Append(s.processed, s.batch) \in Seq(Seq(MarketEvent)) /\ <<>> \in Seq(MarketEvent)
      BY <1>1
    <3> QED BY <1>1, <1>3, <3>1 DEF StreamEnd, StreamSet
  <2>3. HandedOf(next) = Streamed(s) \o s.batch
    BY <1>1, <2>1, <2>2, BatchGiven
  <2> QED BY <2>1, <2>2, <2>3 DEF HandedOf
<1> QED BY <1>2, <1>3

\* Events handed over in time, none of them later than the last tick read
InTime(events, prev) ==
  /\ \A i, j \in 1 .. Len(events) : i < j => events[i].time < events[j].time
  /\ \A i \in 1 .. Len(events) : \E p \in prev : events[i].time <= p

LEMMA InTimeMore ==
  ASSUME NEW events \in Seq(MarketEvent), NEW prev \in SUBSET Nat, InTime(events, prev),
         NEW time \in Nat, \A p \in prev : time > p
  PROVE  /\ InTime(events, {time})
         /\ \A e \in MarketEvent : e.time = time => InTime(Append(events, e), {time})
<1>1. Len(events) \in Nat /\ \A i \in 1 .. Len(events) : events[i].time \in Nat
  <2>1. \A i \in 1 .. Len(events) : events[i] \in MarketEvent
    BY ElementOfSeq
  <2>2. \A e \in MarketEvent : e.time \in Nat
    BY DEF MarketEvent
  <2> QED BY <2>1, <2>2, LenProperties
<1>2. \A i \in 1 .. Len(events) : events[i].time < time
  <2> SUFFICES ASSUME NEW i \in 1 .. Len(events) PROVE events[i].time < time
    OBVIOUS
  <2>1. PICK p \in prev : events[i].time <= p
    BY DEF InTime
  <2>2. p \in Nat /\ events[i].time \in Nat /\ time > p
    BY <1>1
  <2> QED BY <2>1, <2>2
<1>3. \A i, j \in 1 .. Len(events) : i < j => events[i].time < events[j].time
  BY DEF InTime
<1>4. InTime(events, {time})
  <2>1. \A i \in 1 .. Len(events) : events[i].time <= time
    BY <1>1, <1>2
  <2> QED BY <1>3, <2>1 DEF InTime
<1>5. ASSUME NEW e \in MarketEvent, e.time = time
      PROVE  InTime(Append(events, e), {time})
  <2> DEFINE more == Append(events, e)
  <2>1. /\ Len(more) = Len(events) + 1 /\ more[Len(events) + 1] = e
        /\ \A i \in 1 .. Len(events) : more[i] = events[i]
    BY AppendProperties
  <2> HIDE DEF more
  <2>2. ASSUME NEW i \in 1 .. Len(more), NEW j \in 1 .. Len(more), i < j
        PROVE  more[i].time < more[j].time
    <3>1. i \in 1 .. Len(events)
      BY <1>1, <2>1, <2>2
    <3>2. CASE j = Len(events) + 1
      BY <1>2, <1>5, <2>1, <3>1, <3>2
    <3>3. CASE j # Len(events) + 1
      <4>1. j \in 1 .. Len(events)
        BY <1>1, <2>1, <3>3
      <4>2. events[i].time < events[j].time
        BY <1>3, <2>2, <3>1, <4>1
      <4> QED BY <2>1, <3>1, <4>1, <4>2
    <3> QED BY <3>2, <3>3
  <2>3. ASSUME NEW i \in 1 .. Len(more)
        PROVE  more[i].time <= time
    <3>1. CASE i = Len(events) + 1
      BY <1>5, <2>1, <3>1
    <3>2. CASE i # Len(events) + 1
      <4>1. i \in 1 .. Len(events)
        BY <1>1, <2>1, <3>2
      <4>2. events[i].time < time /\ events[i].time \in Nat
        BY <1>1, <1>2, <4>1
      <4> QED BY <2>1, <4>1, <4>2
    <3> QED BY <3>1, <3>2
  <2>4. InTime(more, {time})
    BY <2>2, <2>3 DEF InTime
  <2> QED BY <2>4 DEF more
<1> QED BY <1>4, <1>5

-----------------------------------------------------------------------------
(* The feeds of a file: their invariant *)

FedSet(p) ==
  [speed : {1}, start : {{p.start}}, end : {{p.end}}, buffer : Seq(TickSet),
   connected : BOOLEAN, last : SUBSET Nat]

FeedTyped ==
  /\ file \in Files /\ period \in Periods
  /\ reader \in ReaderSet(file) /\ stream \in StreamSet /\ ended \in BOOLEAN
  /\ feed \in FedSet(period) /\ delivered \in Seq(MarketEvent)
  /\ \A i \in 1 .. Len(delivered) : delivered[i].seq = i

\* Where the file loads, the reader is behind the last tick that was streamed.
ReadSoFar(ticks) ==
  /\ stream.seq <= Len(ticks)
  /\ HandedOf(stream) = FirstOf(ticks, stream.seq)
  /\ ended => stream.seq = Len(ticks)
  /\ ~ended => /\ reader.rest = SubSeq(file.rows, stream.seq + 1, Len(file.rows))
               /\ reader.prev = TimeBefore(ticks, stream.seq + 1)
  /\ WindowOf(reader.window, ticks, stream.seq)

DeliveredSoFar(ticks) ==
  /\ feed.connected => TicksIn(delivered) \o feed.buffer = TicksIn(FedOf(ticks))
  /\ IsPrefix(TicksIn(delivered), TicksIn(FedOf(ticks)))

FeedInv ==
  /\ FeedTyped
  /\ InTime(HandedOf(stream), reader.prev)
  /\ ~feed.connected => feed.buffer = <<>>
  /\ \A ticks \in LoadCsv(file.headers, file.rows) : ReadSoFar(ticks)
  /\ \A ticks \in LoadCsv(file.headers, file.rows) : DeliveredSoFar(ticks)

LEMMA LoadIs ==
  ASSUME NEW f \in Files, NEW ticks \in LoadCsv(f.headers, f.rows)
  PROVE  ticks \in Seq(TickSet) /\ Len(ticks) = Len(f.rows) /\ Len(ticks) \in Nat
<1>1. LoadedSome(f, ticks, Len(f.rows))
  BY LoadedIs
<1> QED BY <1>1, LenProperties DEF LoadedSome

LEMMA NothingPrefixes ==
  ASSUME NEW S, NEW q \in Seq(S)
  PROVE  IsPrefix(<<>>, q)
<1>1. PICK none : none = <<>>
  OBVIOUS
<1>2. none \in Seq(S) /\ Len(none) = 0 /\ Len(q) \in Nat
  BY <1>1, LenProperties
<1>3. Len(none) <= Len(q) /\ \A i \in 1 .. Len(none) : none[i] = q[i]
  BY <1>2
<1>4. IsPrefix(none, q)
  BY <1>2, <1>3, PrefixIs
<1> QED BY <1>1, <1>4

LEMMA NoTicks == TicksIn(<<>>) = <<>>
<1>1. PICK q : q = <<>>
  OBVIOUS
<1>2. q \in Seq(MarketEvent) /\ Len(q) = 0
  BY <1>1
<1>3. TicksIn(q) \in Seq(TickSet) /\ Len(TicksIn(q)) = 0
  BY <1>2, TicksAre
<1> QED BY <1>1, <1>3, EmptySeq

LEMMA FeedInitInv ==
  ASSUME NEW files, NEW periods, files \subseteq Files, periods \subseteq Periods,
         FeedInit(files, periods)
  PROVE  FeedInv
<1>1. /\ file \in Files /\ period \in Periods /\ ended = FALSE /\ delivered = <<>>
      /\ reader = [headers |-> file.headers, rest |-> file.rows, prev |-> {}, window |-> <<>>]
      /\ stream = [seq |-> 0, batch |-> <<>>, processed |-> <<>>]
      /\ feed = [speed |-> 1, start |-> {period.start}, end |-> {period.end}, buffer |-> <<>>,
                 connected |-> FALSE, last |-> {}]
  BY DEF FeedInit, NewReader, NewStream, NewRecorded
<1>2. FeedTyped
  <2>1. file.rows \in Seq(RowsOf(file))
    BY <1>1, RowIs
  <2>2. <<>> \in Seq(TickSet) /\ <<>> \in Seq(MarketEvent) /\ <<>> \in Seq(Seq(MarketEvent))
        /\ Len(delivered) = 0
    BY <1>1
  <2>3. reader \in ReaderSet(file)
    BY <1>1, <2>1, <2>2 DEF ReaderSet
  <2>4. stream \in StreamSet
    BY <1>1, <2>2 DEF StreamSet
  <2>5. feed \in FedSet(period)
    BY <1>1, <2>2 DEF FedSet
  <2>6. \A i \in 1 .. Len(delivered) : delivered[i].seq = i
    BY <2>2
  <2>7. delivered \in Seq(MarketEvent) /\ ended \in BOOLEAN
    BY <1>1, <2>2
  <2> QED BY <1>1, <2>3, <2>4, <2>5, <2>6, <2>7 DEF FeedTyped
<1>3. HandedOf(stream) = <<>>
  <2>1. Len(stream.processed) = 0 /\ Len(stream.processed) \in Nat
    BY <1>1
  <2>2. Streamed(stream) = <<>>
    BY <2>1, StreamedIs
  <2>3. <<>> \o <<>> = <<>>
    <3>1. <<>> \in Seq(MarketEvent)
      OBVIOUS
    <3> QED BY <3>1, ConcatEmptySeq
  <2> QED BY <1>1, <2>2, <2>3 DEF HandedOf
<1>4. InTime(HandedOf(stream), reader.prev)
  BY <1>3 DEF InTime
<1>5. ASSUME NEW ticks \in LoadCsv(file.headers, file.rows)
      PROVE  ReadSoFar(ticks) /\ DeliveredSoFar(ticks)
  <2>1. ticks \in Seq(TickSet) /\ Len(ticks) = Len(file.rows) /\ Len(ticks) \in Nat
    BY <1>1, LoadIs
  <2>2. FirstOf(ticks, 0) = <<>>
    <3>1. PICK q : q = TicksToEvents(SubSeq(ticks, 1, 0))
      OBVIOUS
    <3>2. 0 \in 0 .. Len(ticks)
      BY <2>1
    <3>3. Len(q) = 0
      BY <2>1, <3>1, <3>2, FirstEvents
    <3>4. Taken(q, {k \in DOMAIN q : InPeriod(q[k], period.start, period.end)}) = <<>>
      BY <3>3, TakenIs
    <3> QED BY <3>1, <3>4 DEF FirstOf, EventsOf
  <2>3. /\ reader.rest = SubSeq(file.rows, 0 + 1, Len(file.rows))
        /\ reader.prev = TimeBefore(ticks, 0 + 1)
    <3>1. file.rows \in Seq(RowsOf(file))
      BY <1>1, RowIs
    <3>2. SubSeq(file.rows, 1, Len(file.rows)) = file.rows
      BY <3>1, SubSeqFull
    <3> QED BY <1>1, <3>2 DEF TimeBefore
  <2>4. WindowOf(<<>>, ticks, 0)
    <3>1. WindowSize \in Nat \ {0}
      BY FeedAssumption DEF FeedAssumption
    <3>2. SubSeq(ticks, 1, 0) = <<>>
      BY SubSeqEmpty
    <3>3. Len(<<>>) = 0 /\ 0 - 0 + 1 = 1 /\ 0 < WindowSize
      BY <3>1
    <3> QED BY <3>2, <3>3 DEF WindowOf
  <2>5. ReadSoFar(ticks)
    BY <1>1, <1>3, <2>1, <2>2, <2>3, <2>4 DEF ReadSoFar
  <2>6. TicksIn(FedOf(ticks)) \in Seq(TickSet)
    <3>1. 0 \in 0 .. Len(ticks)
      BY <2>1
    <3>2. FedOf(ticks) \in Seq(MarketEvent)
      BY <2>1, <3>1, FirstFed
    <3> QED BY <3>2, TicksAre
  <2>7. DeliveredSoFar(ticks)
    BY <1>1, <2>6, NoTicks, NothingPrefixes DEF DeliveredSoFar
  <2> QED BY <2>5, <2>7
<1> QED BY <1>1, <1>2, <1>4, <1>5 DEF FeedInv

-----------------------------------------------------------------------------
(* The feeds of a file: their steps *)

LEMMA StreamOnInv ==
  ASSUME FeedInv, StreamOn
  PROVE  FeedInv'
<1> DEFINE n == stream.seq
<1>1. /\ file' = file /\ period' = period /\ feed' = feed /\ delivered' = delivered
      /\ ended = FALSE
  BY DEF StreamOn, FeedInv, FeedTyped
<1>2. PICK next : /\ next = NextTick(reader) /\ reader' = next.reader
                  /\ \/ next.tick = {} /\ stream' = StreamEnd(stream) /\ ended' = TRUE
                     \/ \E tick \in next.tick :
                          /\ stream' = StreamTick(stream, tick, period.start, period.end)
                          /\ ended' = ended
  BY DEF StreamOn
<1>3. /\ file \in Files /\ period \in Periods /\ reader \in ReaderSet(file)
      /\ stream \in StreamSet /\ feed \in FedSet(period) /\ delivered \in Seq(MarketEvent)
      /\ (\A i \in 1 .. Len(delivered) : delivered[i].seq = i)
      /\ InTime(HandedOf(stream), reader.prev)
  BY DEF FeedInv, FeedTyped
<1>4. /\ HandedOf(stream) \in Seq(MarketEvent) /\ n \in Nat /\ reader.prev \in SUBSET Nat
      /\ reader.window \in Seq(TickSet)
  BY <1>3, HandedIs DEF ReaderSet
<1>5. \A ticks \in LoadCsv(file.headers, file.rows) : DeliveredSoFar(ticks)'
  BY <1>1 DEF FeedInv, DeliveredSoFar, FedOf
<1>6. ~feed'.connected => feed'.buffer = <<>>
  BY <1>1 DEF FeedInv
<1>7. ASSUME NEW ticks \in LoadCsv(file.headers, file.rows)
      PROVE  /\ ticks \in Seq(TickSet) /\ Len(ticks) = Len(file.rows) /\ n \in 0 .. Len(ticks)
             /\ LoadedSome(file, ticks, Len(file.rows)) /\ HandedOf(stream) = FirstOf(ticks, n)
             /\ reader.rest = SubSeq(file.rows, n + 1, Len(file.rows))
             /\ reader.prev = TimeBefore(ticks, n + 1) /\ WindowOf(reader.window, ticks, n)
             /\ n = Len(ticks) => next.tick = {}
             /\ n < Len(ticks) => /\ ReadsTick(file, reader, next, 1, ticks[n + 1])
                                  /\ next.reader.rest = SubSeq(file.rows, n + 2, Len(file.rows))
  <2>1. ReadSoFar(ticks)
    BY DEF FeedInv
  <2>2. ticks \in Seq(TickSet) /\ Len(ticks) = Len(file.rows) /\ Len(ticks) \in Nat
    BY <1>3, LoadIs
  <2>3. LoadedSome(file, ticks, Len(file.rows))
    BY <1>3, LoadedIs
  <2>4. /\ n <= Len(ticks) /\ HandedOf(stream) = FirstOf(ticks, n)
        /\ reader.rest = SubSeq(file.rows, n + 1, Len(file.rows))
        /\ reader.prev = TimeBefore(ticks, n + 1) /\ WindowOf(reader.window, ticks, n)
    BY <1>1, <2>1 DEF ReadSoFar
  <2>5. n \in 0 .. Len(ticks)
    BY <1>4, <2>2, <2>4
  <2>6. /\ n = Len(ticks) => next.tick = {}
        /\ n < Len(ticks) => /\ ReadsTick(file, reader, next, 1, ticks[n + 1])
                             /\ next.reader.rest = SubSeq(file.rows, n + 2, Len(file.rows))
    <3> HIDE DEF n
    <3> QED BY <1>2, <1>3, <2>3, <2>4, <2>5, LoadedNext
  <2> QED BY <2>2, <2>3, <2>4, <2>5, <2>6
<1>8. CASE next.tick = {}
  <2>1. stream' = StreamEnd(stream) /\ ended' = TRUE
    BY <1>2, <1>8
  <2>2. stream' \in StreamSet /\ stream'.seq = n /\ HandedOf(stream') = HandedOf(stream)
    BY <1>3, <2>1, StreamEndIs
  <2>3. ReadsNone(reader, next)
    <3>1. \A k, t : ~ReadsTick(file, reader, next, k, t)
      BY <1>8 DEF ReadsTick
    <3> QED BY <1>2, <1>3, <3>1, NextTickIs
  <2>4. reader' = [reader EXCEPT !.rest = <<>>]
    BY <1>2, <2>3 DEF ReadsNone
  <2>5. /\ reader' \in ReaderSet(file) /\ reader'.prev = reader.prev
        /\ reader'.window = reader.window
    <3>1. <<>> \in Seq(RowsOf(file))
      OBVIOUS
    <3> QED BY <1>3, <2>4, <3>1 DEF ReaderSet
  <2>6. FeedTyped'
    BY <1>1, <1>3, <2>1, <2>2, <2>5 DEF FeedTyped
  <2>7. InTime(HandedOf(stream'), reader'.prev)
    BY <1>3, <2>2, <2>5
  <2>8. ASSUME NEW ticks \in LoadCsv(file.headers, file.rows)
        PROVE  ReadSoFar(ticks)'
    <3>1. /\ n \in 0 .. Len(ticks) /\ Len(ticks) \in Nat /\ HandedOf(stream) = FirstOf(ticks, n)
          /\ WindowOf(reader.window, ticks, n)
      BY <1>3, <1>7, LoadIs
    <3>2. ~(n < Len(ticks))
      BY <1>7, <1>8 DEF ReadsTick
    <3>3. n = Len(ticks)
      BY <3>1, <3>2
    <3>4. FirstOf(ticks, n)' = FirstOf(ticks, n)'
      OBVIOUS
    <3>5. HandedOf(stream') = FirstOf(ticks, stream.seq)
      BY <2>2, <3>1
    <3>6. EventsOf(TicksToEvents(SubSeq(ticks, 1, stream'.seq)), period'.start, period'.end)
            = HandedOf(stream')
      BY <1>1, <2>2, <3>5 DEF FirstOf
    <3>7. WindowOf(reader'.window, ticks, stream'.seq)
      BY <2>2, <2>5, <3>1
    <3>8. stream'.seq <= Len(ticks) /\ stream'.seq = Len(ticks)
      BY <2>2, <3>1, <3>3
    <3> QED BY <2>1, <3>6, <3>7, <3>8 DEF ReadSoFar, FirstOf
  <2> QED BY <1>1, <1>5, <1>6, <2>6, <2>7, <2>8 DEF FeedInv
<1>9. CASE next.tick # {}
  <2>1. PICK k, t : ReadsTick(file, reader, next, k, t)
    <3>1. ~ReadsNone(reader, next)
      BY <1>9 DEF ReadsNone
    <3> QED BY <1>2, <1>3, <3>1, NextTickIs
  <2>2. /\ next.tick = {t}
        /\ next.reader = [reader EXCEPT !.rest = SubSeq(@, k + 1, Len(@)), !.prev = {t.time},
                                        !.window = Append(Slid(reader.window), t)]
    BY <2>1 DEF ReadsTick
  <2>3. stream' = StreamTick(stream, t, period.start, period.end) /\ ended' = FALSE
    BY <1>1, <1>2, <2>2
  <2>4. /\ reader' \in ReaderSet(file) /\ t \in TickSet /\ reader'.prev = {t.time}
        /\ t.time \in Nat /\ \A p \in reader.prev : t.time > p
    BY <1>2, <1>3, <2>1, ReaderMoves
  <2>5. PICK e : e = TickEvent(t, n + 1)
    OBVIOUS
  <2>6. e \in MarketEvent /\ e.time = t.time
    BY <1>4, <2>4, <2>5, EventIs
  <2>7. /\ stream' \in StreamSet /\ stream'.seq = n + 1
        /\ HandedOf(stream') = IF InPeriod(e, period.start, period.end)
                               THEN Append(HandedOf(stream), e) ELSE HandedOf(stream)
    <3>1. PICK s, from, to, next2 : /\ s = stream /\ from = period.start /\ to = period.end
                                    /\ next2 = stream'
      OBVIOUS
    <3>2. /\ s \in StreamSet /\ t \in TickSet /\ e = TickEvent(t, s.seq + 1)
          /\ next2 = StreamTick(s, t, from, to)
      BY <1>3, <2>3, <2>4, <2>5, <3>1
    <3>3. /\ next2 \in StreamSet /\ next2.seq = s.seq + 1
          /\ HandedOf(next2) = IF InPeriod(e, from, to) THEN Append(HandedOf(s), e)
                                                        ELSE HandedOf(s)
      BY ONLY <3>2, StreamTickIs
    <3> QED BY <3>1, <3>3
  <2>8. FeedTyped'
    BY <1>1, <1>3, <2>3, <2>4, <2>7 DEF FeedTyped
  <2>9. InTime(HandedOf(stream'), reader'.prev)
    <3>1. /\ InTime(HandedOf(stream), {t.time})
          /\ InTime(Append(HandedOf(stream), e), {t.time})
      BY <1>3, <1>4, <2>4, <2>6, InTimeMore
    <3> QED BY <2>4, <2>7, <3>1
  <2>10. ASSUME NEW ticks \in LoadCsv(file.headers, file.rows)
         PROVE  ReadSoFar(ticks)'
    <3>1. /\ ticks \in Seq(TickSet) /\ Len(ticks) = Len(file.rows) /\ Len(ticks) \in Nat
          /\ n \in 0 .. Len(ticks) /\ HandedOf(stream) = FirstOf(ticks, n)
          /\ WindowOf(reader.window, ticks, n)
      BY <1>3, <1>7, LoadIs
    <3>2. n # Len(ticks)
      BY <1>7, <1>9
    <3>3. n < Len(ticks) /\ n \in 0 .. Len(ticks) - 1 /\ n + 1 <= Len(ticks)
      BY <3>1, <3>2
    <3>4. /\ ReadsTick(file, reader, next, 1, ticks[n + 1])
          /\ next.reader.rest = SubSeq(file.rows, n + 2, Len(file.rows))
      BY <1>7, <3>3
    <3>5. t = ticks[n + 1]
      BY <2>2, <3>4 DEF ReadsTick
    <3>6. FirstOf(ticks, n + 1) = IF InPeriod(e, period.start, period.end)
                                  THEN Append(FirstOf(ticks, n), e) ELSE FirstOf(ticks, n)
      <4> HIDE DEF n
      <4> QED BY <2>5, <3>1, <3>3, <3>5, FirstMore
    <3>7. HandedOf(stream') = FirstOf(ticks, n + 1)
      BY <2>7, <3>1, <3>6
    <3>8. EventsOf(TicksToEvents(SubSeq(ticks, 1, stream'.seq)), period'.start, period'.end)
            = HandedOf(stream')
      BY <1>1, <2>7, <3>7 DEF FirstOf
    <3>9. reader'.window = Append(Slid(reader.window), t)
      BY <1>2, <1>3, <2>2 DEF ReaderSet
    <3>10. WindowOf(Append(Slid(reader.window), ticks[n + 1]), ticks, n + 1)
      <4> HIDE DEF n
      <4> QED BY <1>4, <3>1, <3>3, WindowMore
    <3>11. WindowOf(reader'.window, ticks, stream'.seq)
      BY <2>7, <3>5, <3>9, <3>10
    <3>12. stream'.seq <= Len(ticks)
      BY <2>7, <3>3
    <3>13. reader'.rest = SubSeq(file'.rows, stream'.seq + 1, Len(file'.rows))
      <4>1. stream'.seq + 1 = n + 2
        BY <1>4, <2>7
      <4> QED BY <1>1, <1>2, <3>4, <4>1
    <3>14. reader'.prev = TimeBefore(ticks, stream'.seq + 1)
      <4>1. stream'.seq + 1 # 1 /\ (stream'.seq + 1) - 1 = n + 1
        BY <1>4, <2>7
      <4> QED BY <2>4, <3>5, <4>1 DEF TimeBefore
    <3> QED BY <2>3, <3>8, <3>11, <3>12, <3>13, <3>14 DEF ReadSoFar, FirstOf
  <2> QED BY <1>1, <1>5, <1>6, <2>8, <2>9, <2>10 DEF FeedInv
<1> QED BY <1>8, <1>9

LEMMA ConnectInv ==
  ASSUME FeedInv, Connect
  PROVE  FeedInv'
<1>1. /\ file' = file /\ period' = period /\ reader' = reader /\ stream' = stream
      /\ ended' = ended /\ delivered' = <<>> /\ feed.connected = FALSE
  BY DEF Connect, FeedInv, FeedTyped, FedSet
<1>2. PICK ticks \in LoadCsv(file.headers, file.rows) :
        feed' = ConnectRecorded(feed, TicksToEvents(ticks))
  BY DEF Connect
<1>3. /\ file \in Files /\ period \in Periods /\ feed \in FedSet(period) /\ feed.buffer = <<>>
      /\ feed.start = {period.start} /\ feed.end = {period.end}
      /\ period.start \in Nat /\ period.end \in Nat
  BY <1>1, FeedAssumption DEF FeedInv, FeedTyped, FedSet, FeedAssumption
<1>4. ticks \in Seq(TickSet) /\ Len(ticks) \in Nat
  BY <1>3, LoadIs
<1>5. TicksToEvents(ticks) \in Seq(MarketEvent)
  BY <1>4, EventsAre
<1>6. Selected(feed, TicksToEvents(ticks)) = TicksIn(FedOf(ticks))
  BY <1>3, <1>5, SelectedIs DEF FedOf
<1>7. TicksIn(FedOf(ticks)) \in Seq(TickSet)
  <2>1. 0 \in 0 .. Len(ticks)
    BY <1>4
  <2>2. FedOf(ticks) \in Seq(MarketEvent)
    BY <1>4, <2>1, FirstFed
  <2> QED BY <2>2, TicksAre
<1>8. feed' = [feed EXCEPT !.buffer = TicksIn(FedOf(ticks)), !.connected = TRUE]
  <2>1. <<>> \o TicksIn(FedOf(ticks)) = TicksIn(FedOf(ticks))
    BY <1>7, ConcatEmptySeq
  <2> QED BY <1>2, <1>3, <1>6, <2>1 DEF ConnectRecorded
<1>9. /\ feed' \in FedSet(period) /\ feed'.buffer = TicksIn(FedOf(ticks))
      /\ feed'.connected = TRUE
  <2>1. PICK q : q = TicksIn(FedOf(ticks))
    OBVIOUS
  <2>2. q \in Seq(TickSet) /\ feed' = [feed EXCEPT !.buffer = q, !.connected = TRUE]
    BY <1>7, <1>8, <2>1
  <2>3. feed' \in FedSet(period) /\ feed'.buffer = q /\ feed'.connected = TRUE
    BY <1>3, <2>2 DEF FedSet
  <2> QED BY <2>1, <2>3
<1>10. FeedTyped'
  <2>1. <<>> \in Seq(MarketEvent) /\ Len(delivered') = 0
    BY <1>1
  <2> QED BY <1>1, <1>9, <2>1 DEF FeedInv, FeedTyped
<1>11. InTime(HandedOf(stream'), reader'.prev)
  BY <1>1 DEF FeedInv
<1>12. ASSUME NEW q \in LoadCsv(file.headers, file.rows)
       PROVE  ReadSoFar(q)' /\ DeliveredSoFar(q)'
  <2>1. ReadSoFar(q)'
    BY <1>1 DEF FeedInv, ReadSoFar, FirstOf
  <2>2. q = ticks
    BY <1>3, LoadedOnce
  <2>3. FedOf(q)' = FedOf(ticks)
    BY <1>1, <2>2 DEF FedOf
  <2>4. TicksIn(delivered') \o feed'.buffer = TicksIn(FedOf(ticks))
    BY <1>1, <1>7, <1>9, NoTicks, ConcatEmptySeq
  <2>5. IsPrefix(TicksIn(delivered'), TicksIn(FedOf(ticks)))
    BY <1>1, <1>7, NoTicks, NothingPrefixes
  <2>6. DeliveredSoFar(q)'
    BY <2>3, <2>4, <2>5 DEF DeliveredSoFar, TicksIn
  <2> QED BY <2>1, <2>6
<1> QED BY <1>1, <1>9, <1>10, <1>11, <1>12 DEF FeedInv

LEMMA DeliverInv ==
  ASSUME FeedInv, Deliver
  PROVE  FeedInv'
<1>1. /\ file' = file /\ period' = period /\ reader' = reader /\ stream' = stream
      /\ ended' = ended /\ feed.connected = TRUE /\ feed.buffer # <<>>
  BY DEF Deliver, FeedInv, FeedTyped, FedSet
<1>2. PICK next : /\ next = NextRecorded(feed) /\ feed' = next.feed
                  /\ \E tick \in next.tick :
                       delivered' = Append(delivered, TickEvent(tick, Len(delivered) + 1))
  BY DEF Deliver
<1> DEFINE tick == Head(feed.buffer)
<1>3. /\ file \in Files /\ period \in Periods /\ feed \in FedSet(period)
      /\ feed.buffer \in Seq(TickSet) /\ delivered \in Seq(MarketEvent)
      /\ \A i \in 1 .. Len(delivered) : delivered[i].seq = i
  BY DEF FeedInv, FeedTyped, FedSet
<1>4. tick \in TickSet /\ Tail(feed.buffer) \in Seq(TickSet) /\ tick.time \in Nat
  <2>1. PICK b : b = feed.buffer
    OBVIOUS
  <2>2. b \in Seq(TickSet) /\ b # <<>>
    BY <1>1, <1>3, <2>1
  <2>3. Head(b) \in TickSet /\ Tail(b) \in Seq(TickSet)
    BY ONLY <2>2, HeadTailProperties
  <2> QED BY <2>1, <2>3, TickSetIs
<1>5. /\ feed' = [feed EXCEPT !.buffer = Tail(@), !.last = {tick.time}]
      /\ delivered' = Append(delivered, TickEvent(tick, Len(delivered) + 1))
  BY <1>1, <1>2 DEF NextRecorded
<1>6. PICK t, r, d, e : /\ t = tick /\ r = Tail(feed.buffer) /\ d = delivered
                        /\ e = TickEvent(tick, Len(delivered) + 1)
  OBVIOUS
<1>7. /\ t \in TickSet /\ r \in Seq(TickSet) /\ {t.time} \in SUBSET Nat
      /\ d \in Seq(MarketEvent) /\ Len(d) \in Nat
  BY <1>3, <1>4, <1>6, LenProperties
<1>8. e \in MarketEvent /\ e.tick = t /\ e.seq = Len(d) + 1
  <2>1. Len(d) + 1 \in Nat /\ e = TickEvent(t, Len(d) + 1)
    BY <1>6, <1>7
  <2> QED BY <1>7, <2>1, EventIs
<1>9. /\ feed' = [feed EXCEPT !.buffer = r, !.last = {t.time}] /\ delivered' = Append(d, e)
  BY <1>5, <1>6
<1>10. feed' \in FedSet(period) /\ feed'.buffer = r /\ feed'.connected = TRUE
  <2> HIDE DEF tick
  <2> QED BY <1>1, <1>3, <1>7, <1>9 DEF FedSet
<1>11. /\ delivered' \in Seq(MarketEvent)
       /\ \A i \in 1 .. Len(delivered') : delivered'[i].seq = i
  <2>1. PICK new : new = Append(d, e)
    OBVIOUS
  <2>2. /\ new \in Seq(MarketEvent) /\ Len(new) = Len(d) + 1 /\ new[Len(d) + 1] = e
        /\ \A i \in 1 .. Len(d) : new[i] = d[i]
    BY <1>7, <1>8, <2>1, AppendProperties
  <2>3. ASSUME NEW i \in 1 .. Len(new) PROVE new[i].seq = i
    <3>1. CASE i = Len(d) + 1
      BY <1>8, <2>2, <3>1
    <3>2. CASE i # Len(d) + 1
      <4>1. i \in 1 .. Len(d)
        BY <1>7, <2>2, <3>2
      <4> QED BY <1>3, <1>6, <2>2, <4>1
    <3> QED BY <3>1, <3>2
  <2> QED BY <1>9, <2>1, <2>2, <2>3
<1>12. FeedTyped'
  BY <1>1, <1>10, <1>11 DEF FeedInv, FeedTyped
<1>13. PICK u, v : u = TicksIn(d) /\ v = Append(u, t)
  OBVIOUS
<1>14. /\ u \in Seq(TickSet) /\ v \in Seq(TickSet) /\ u = TicksIn(delivered)
       /\ v = TicksIn(delivered')
  <2>1. u \in Seq(TickSet)
    BY <1>7, <1>13, TicksAre
  <2>2. TicksIn(Append(d, e)) = v
    BY <1>7, <1>8, <1>13, TicksMore
  <2> QED BY <1>6, <1>7, <1>9, <1>13, <2>1, <2>2
<1>15. v \o r = u \o feed.buffer
  <2>1. PICK h, b : h = <<t>> /\ b = feed.buffer
    OBVIOUS
  <2>2. h \in Seq(TickSet) /\ Len(h) = 1 /\ h[1] = t
    BY <1>7, <2>1
  <2>3. (u \o h) \o r = u \o (h \o r)
    <3>1. u \in Seq(TickSet) /\ h \in Seq(TickSet) /\ r \in Seq(TickSet)
      BY <1>7, <1>14, <2>2
    <3> QED BY ONLY <3>1, ConcatAssociative
  <2>4. v = u \o h
    BY <1>7, <1>13, <1>14, <2>1, AppendIsConcat
  <2>5. h \o r = b
    <3>1. b \in Seq(TickSet) /\ b # <<>> /\ r = Tail(b) /\ t = Head(b)
      BY <1>1, <1>3, <1>6, <2>1
    <3>2. /\ Len(b) \in Nat \ {0} /\ Len(r) = Len(b) - 1 /\ t = b[1]
          /\ \A i \in 1 .. Len(r) : r[i] = b[i + 1]
      BY ONLY <3>1, HeadTailProperties, EmptySeq, LenProperties
    <3>3. /\ h \o r \in Seq(TickSet) /\ Len(h \o r) = Len(h) + Len(r)
          /\ \A i \in 1 .. Len(h) + Len(r) : (h \o r)[i] = IF i <= Len(h) THEN h[i] ELSE r[i - Len(h)]
      BY <1>7, <2>2, ConcatProperties
    <3>4. Len(h \o r) = Len(b)
      BY <2>2, <3>2, <3>3
    <3>5. ASSUME NEW i \in 1 .. Len(h \o r) PROVE (h \o r)[i] = b[i]
      <4>1. CASE i = 1
        BY <2>2, <3>2, <3>3, <4>1
      <4>2. CASE i # 1
        <5>1. i - 1 \in 1 .. Len(r) /\ ~(i <= 1) /\ (i - 1) + 1 = i /\ i \in 1 .. 1 + Len(r)
          BY <3>2, <3>4, <4>2
        <5> QED BY <2>2, <3>2, <3>3, <5>1
      <4> QED BY <4>1, <4>2
    <3> QED BY <3>1, <3>3, <3>4, <3>5, SeqEqual
  <2> QED BY <2>1, <2>3, <2>4, <2>5
<1>16. ASSUME NEW q \in LoadCsv(file.headers, file.rows)
       PROVE  ReadSoFar(q)' /\ DeliveredSoFar(q)'
  <2>1. ReadSoFar(q)'
    BY <1>1 DEF FeedInv, ReadSoFar, FirstOf
  <2>2. u \o feed.buffer = TicksIn(FedOf(q))
    BY <1>1, <1>14 DEF FeedInv, DeliveredSoFar
  <2>3. FedOf(q)' = FedOf(q)
    BY <1>1 DEF FedOf
  <2>4. IsPrefix(v, v \o r)
    <3>1. /\ v \o r \in Seq(TickSet) /\ Len(v \o r) = Len(v) + Len(r)
          /\ \A i \in 1 .. Len(v) + Len(r) : (v \o r)[i] = IF i <= Len(v) THEN v[i] ELSE r[i - Len(v)]
      BY <1>7, <1>14, ConcatProperties
    <3>2. Len(v) \in Nat /\ Len(r) \in Nat
      BY <1>7, <1>14, LenProperties
    <3>3. Len(v) <= Len(v \o r) /\ \A i \in 1 .. Len(v) : v[i] = (v \o r)[i]
      BY <3>1, <3>2
    <3> QED BY <1>14, <3>1, <3>3, PrefixIs
  <2>5. TicksIn(delivered') \o feed'.buffer = TicksIn(FedOf(q))
    BY <1>10, <1>14, <1>15, <2>2
  <2>6. IsPrefix(TicksIn(delivered'), TicksIn(FedOf(q)))
    BY <1>14, <1>15, <2>2, <2>4
  <2>7. DeliveredSoFar(q)'
    BY <2>3, <2>5, <2>6 DEF DeliveredSoFar, TicksIn
  <2> QED BY <2>1, <2>7
<1>17. InTime(HandedOf(stream'), reader'.prev)
  BY <1>1 DEF FeedInv
<1> QED BY <1>1, <1>10, <1>12, <1>16, <1>17 DEF FeedInv

LEMMA DisconnectInv ==
  ASSUME FeedInv, Disconnect
  PROVE  FeedInv'
<1>1. /\ file' = file /\ period' = period /\ reader' = reader /\ stream' = stream
      /\ ended' = ended /\ delivered' = delivered
      /\ feed' = [feed EXCEPT !.connected = FALSE, !.buffer = <<>>, !.last = {}]
  BY DEF Disconnect, DisconnectRecorded
<1>2. feed' \in FedSet(period) /\ feed'.connected = FALSE /\ feed'.buffer = <<>>
  <2>1. <<>> \in Seq(TickSet) /\ feed \in FedSet(period)
    BY DEF FeedInv, FeedTyped
  <2> QED BY <1>1, <2>1 DEF FedSet
<1>3. FeedTyped'
  BY <1>1, <1>2 DEF FeedInv, FeedTyped
<1>4. ASSUME NEW q \in LoadCsv(file.headers, file.rows)
      PROVE  ReadSoFar(q)' /\ DeliveredSoFar(q)'
  <2>1. ReadSoFar(q)'
    BY <1>1 DEF FeedInv, ReadSoFar, FirstOf
  <2>2. DeliveredSoFar(q)'
    BY <1>1, <1>2 DEF FeedInv, DeliveredSoFar, FedOf
  <2> QED BY <2>1, <2>2
<1>5. InTime(HandedOf(stream'), reader'.prev)
  BY <1>1 DEF FeedInv
<1> QED BY <1>1, <1>2, <1>3, <1>4, <1>5 DEF FeedInv

LEMMA FeedStep == FeedInv /\ [FeedNext]_feedVars => FeedInv'
<1> SUFFICES ASSUME FeedInv, [FeedNext]_feedVars PROVE FeedInv'
  OBVIOUS
<1>1. CASE FeedNext
  BY <1>1, StreamOnInv, ConnectInv, DeliverInv, DisconnectInv DEF FeedNext
<1>2. CASE UNCHANGED feedVars
  <2>1. /\ file' = file /\ period' = period /\ reader' = reader /\ stream' = stream
        /\ ended' = ended /\ delivered' = delivered /\ feed' = feed
    BY <1>2 DEF feedVars
  <2> QED BY <2>1 DEF FeedInv, FeedTyped, ReadSoFar, DeliveredSoFar, FirstOf, FedOf
<1> QED BY <1>1, <1>2

\* The invariant is about the property's expressions.
LEMMA FeedAgrees == FeedInv => FeedsAgree
<1> SUFFICES ASSUME FeedInv PROVE FeedsAgree
  OBVIOUS
<1> DEFINE n == stream.seq
<1>1. /\ file \in Files /\ period \in Periods /\ stream \in StreamSet
      /\ InTime(HandedOf(stream), reader.prev)
  BY DEF FeedInv, FeedTyped
<1>2. /\ Streamed(stream) \in Seq(MarketEvent) /\ stream.batch \in Seq(MarketEvent) /\ n \in Nat
      /\ HandedOf(stream) \in Seq(MarketEvent)
  BY <1>1, HandedIs
<1>3. \A i, j \in DOMAIN Streamed(stream) :
        i < j => Streamed(stream)[i].time < Streamed(stream)[j].time
  <2>1. PICK a, b : a = Streamed(stream) /\ b = stream.batch
    OBVIOUS
  <2>2. /\ a \in Seq(MarketEvent) /\ b \in Seq(MarketEvent) /\ DOMAIN a = 1 .. Len(a)
        /\ Len(a) \in Nat /\ Len(b) \in Nat
    BY <1>2, <2>1, LenProperties
  <2>3. /\ Len(a \o b) = Len(a) + Len(b)
        /\ \A i \in 1 .. Len(a) + Len(b) : (a \o b)[i] = IF i <= Len(a) THEN a[i] ELSE b[i - Len(a)]
    BY <2>2, ConcatProperties
  <2>4. \A i \in 1 .. Len(a) : i \in 1 .. Len(a \o b) /\ (a \o b)[i] = a[i]
    BY <2>2, <2>3
  <2>5. \A i, j \in 1 .. Len(a \o b) : i < j => (a \o b)[i].time < (a \o b)[j].time
    BY <1>1, <2>1 DEF InTime, HandedOf
  <2>6. ASSUME NEW i \in 1 .. Len(a), NEW j \in 1 .. Len(a), i < j
        PROVE  a[i].time < a[j].time
    BY <2>4, <2>5, <2>6
  <2> QED BY <2>1, <2>2, <2>6
<1>4. ASSUME NEW ticks \in LoadCsv(file.headers, file.rows)
      PROVE  LET expected == EventsOf(TicksToEvents(ticks), period.start, period.end)
                 streamed == Streamed(stream) \o stream.batch
                 before == Cardinality({k \in DOMAIN ticks : ticks[k].time < period.start})
                 from == stream.seq - Len(reader.window) + 1
             IN /\ IsPrefix(streamed, expected) /\ (ended => streamed = expected)
                /\ IsPrefix(TicksIn(delivered), TicksIn(expected))
                /\ feed.connected => TicksIn(delivered) \o feed.buffer = TicksIn(expected)
                /\ \A i \in DOMAIN delivered : expected[i].seq = before + delivered[i].seq
                /\ reader.window = SubSeq(ticks, from, stream.seq)
                /\ Len(reader.window) = IF stream.seq < WindowSize THEN stream.seq ELSE WindowSize
  <2>1. ReadSoFar(ticks) /\ DeliveredSoFar(ticks)
    BY DEF FeedInv
  <2>2. ticks \in Seq(TickSet) /\ Len(ticks) \in Nat
    BY <1>1, LoadIs
  <2>3. /\ n <= Len(ticks) /\ HandedOf(stream) = FirstOf(ticks, n) /\ (ended => n = Len(ticks))
        /\ WindowOf(reader.window, ticks, n)
    BY <2>1 DEF ReadSoFar
  <2>4. n \in 0 .. Len(ticks)
    BY <1>2, <2>2, <2>3
  <2>5. /\ IsPrefix(FirstOf(ticks, n), FedOf(ticks)) /\ FedOf(ticks) \in Seq(MarketEvent)
        /\ n = Len(ticks) => FirstOf(ticks, n) = FedOf(ticks)
    <3> HIDE DEF n
    <3> QED BY <2>2, <2>4, FirstFed
  <2>6. /\ IsPrefix(Streamed(stream) \o stream.batch, FedOf(ticks))
        /\ ended => Streamed(stream) \o stream.batch = FedOf(ticks)
    BY <2>3, <2>5 DEF HandedOf
  <2>7. /\ IsPrefix(TicksIn(delivered), TicksIn(FedOf(ticks)))
        /\ feed.connected => TicksIn(delivered) \o feed.buffer = TicksIn(FedOf(ticks))
    BY <2>1 DEF DeliveredSoFar
  <2>8. reader.window = SubSeq(ticks, stream.seq - Len(reader.window) + 1, stream.seq)
    BY <2>3 DEF WindowOf
  <2>9. Len(reader.window) = IF stream.seq < WindowSize THEN stream.seq ELSE WindowSize
    BY <2>3 DEF WindowOf
  <2>10. PICK before : before = Cardinality({k \in DOMAIN ticks : ticks[k].time < period.start})
    OBVIOUS
  <2>11. \A i \in 1 .. Len(FedOf(ticks)) : FedOf(ticks)[i].seq = before + i
    <3>1. LoadedSome(file, ticks, Len(file.rows))
      BY <1>1, LoadedIs
    <3>2. TicksOrdered(ticks)
      BY <1>1, <3>1, LoadedInOrder DEF TicksOrdered
    <3>3. period.start \in Nat /\ period.end \in Nat
      BY <1>1, FeedAssumption DEF FeedAssumption
    <3>4. FirstAre(ticks, before, period.start)
      <4>1. PICK time : time = period.start
        OBVIOUS
      <4>2. FirstAre(ticks, Cardinality({k \in DOMAIN ticks : ticks[k].time < time}), time)
        BY <2>2, <3>2, <3>3, <4>1, BeforeCounted
      <4> QED BY <2>10, <4>1, <4>2
    <3> QED BY <2>2, <3>2, <3>3, <3>4, FedNumbers
  <2>12. \A i \in DOMAIN delivered : FedOf(ticks)[i].seq = before + delivered[i].seq
    <3>1. /\ delivered \in Seq(MarketEvent) /\ DOMAIN delivered = 1 .. Len(delivered)
          /\ Len(delivered) \in Nat /\ \A i \in 1 .. Len(delivered) : delivered[i].seq = i
      BY LenProperties DEF FeedInv, FeedTyped
    <3>2. Len(TicksIn(delivered)) = Len(delivered) /\ Len(TicksIn(FedOf(ticks))) = Len(FedOf(ticks))
          /\ Len(FedOf(ticks)) \in Nat
      BY <2>5, <3>1, TicksAre
    <3>3. Len(delivered) <= Len(FedOf(ticks))
      BY <2>7, <3>2 DEF IsPrefix
    <3>4. \A i \in 1 .. Len(delivered) : i \in 1 .. Len(FedOf(ticks))
      BY <3>1, <3>2, <3>3
    <3> QED BY <2>11, <3>1, <3>4
  <2> QED BY <2>6, <2>7, <2>8, <2>9, <2>10, <2>12 DEF FedOf
<1> QED BY <1>3, <1>4 DEF FeedsAgree

-----------------------------------------------------------------------------
(* The parts together: each takes its own steps, or none. *)

\* Two messages carry one sequence number only where calls overlap or the counterparty has set
\* the counter (fix.rs 322-348, and the send_ calls with 608), for any tasks and any numbers.
THEOREM NumbersAreFresh == Spec => []NumbersFresh
<1>1. FixInit => NumbersInv
  BY DEF FixInit, NumbersInv
<1>2. NumbersInv /\ [FixNext]_fixVars => NumbersInv'
  BY StepKeeps
<1>3. NumbersInv => NumbersFresh
  BY DEF NumbersInv, NumbersFresh
<1>4. [Next]_partVars => [FixNext]_fixVars
  BY DEF Next, partVars
<1>5. Init => FixInit
  BY DEF Init
<1> QED BY <1>1, <1>2, <1>3, <1>4, <1>5, PTL DEF Spec

\* A loss beyond the threshold that lasts is reported again and again, and never twice within
\* an interval (alert.rs evaluate_risk_limit, should_debounce), for any losses and thresholds.
THEOREM PersistingIsReported ==
  ASSUME AlertInterval # 0
  PROVE  Spec => []PersistingReported
<1>1. [Next]_partVars => [AlertingNext]_alertingVars
  BY DEF Next, partVars
<1>2. Init => AlertingInit
  BY DEF Init
<1>3. AlertingInv => PersistingReported
  BY DEF AlertingInv
<1> QED BY <1>1, <1>2, <1>3, AlertingInitInv, AlertingStep, PTL DEF Spec

\* What a store has returned for stays, in memory and after a crash at any write that was not
\* flushed, and a replay has its number (tier1.rs store, remove, replay), for any events.
THEOREM StoresSurvive == Spec => []StoreSurvives
<1>1. [Next]_partVars => [TierNext]_tierVars
  BY DEF Next, partVars
<1>2. Init => TierInit
  BY DEF Init
<1> QED BY <1>1, <1>2, TierInitInv, TierStep, TierKeeps, PTL DEF Spec

\* A learned state becomes whole on disk only beside whole results of its run, whatever
\* commands there were and wherever they stopped (main.rs run_backtest), for any requests.
THEOREM ExportsFollowResults == Spec => ExportFollowsResults
<1>1. [Next]_partVars => [CommandNext]_commandVars
  BY DEF Next, partVars
<1>2. Init => CommandInit
  BY DEF Init
<1>3. [Follows]_commandVars <=>
      [\A s \in disk'["q_state"] : s.whole /\ s \notin disk["q_state"]
        => \A f \in {"json", "trades"} : \E c \in disk[f] : c.whole /\ c.run = s.run]_commandVars
  BY DEF Follows
<1> QED BY <1>1, <1>2, <1>3, CommandInitInv, CommandStep, PTL DEF Spec, ExportFollowsResults

\* However many orders each LP is sent and whatever comes of them, its models are what its whole
\* history gives: the counts of its fills and refusals and, kept one fill at a time, the mean
\* and the variance of its slippages (otc_model.rs update_observation), for any fractions.
THEOREM ModelsAreTheHistory ==
  ASSUME Reduced(PriorAlpha), Reduced(PriorBeta), \A s \in Slippages : Reduced(s)
  PROVE  Spec => []ModelsMatchHistory
<1>1. [Next]_partVars => [ExecutionNext]_executionVars
  BY DEF Next, partVars
<1>2. Init => ExecutionInit
  BY DEF Init
<1> QED BY <1>1, <1>2, ExecutionInitInv, ExecutionStep, ExecutionMatches, PTL DEF Spec

\* FeaturesCurrent, for every number of regimes, sizes of windows and quotes (FeatureExtractor in
\* extractor.rs, RegimeCache in regime.rs): windows and statistics are of the last quotes and of the
\* executions young enough, with exact sums, and the posterior is a distribution of this tick.
THEOREM FeaturesAreCurrent ==
  ASSUME MarketFitting, MathFitting
  PROVE  Spec => []FeaturesCurrent
<1>1. [Next]_partVars => [RegimeNext]_regimeVars
  BY DEF Next, partVars
<1>2. Init => RegimeInv
  BY RegimeInitInv DEF Init
<1> QED BY <1>1, <1>2, RegimeStep, RegimeIsCurrent, PTL DEF Spec

\* The tracker's drawdown is the deepest fall of the equity it was told of, the summary's that
\* over the fills and not the deeper one when each fill had a report of its own, and the parts of
\* the breakdown add up (tracker.rs update, runner.rs run, stats.rs from_trades), for any number
\* of fills and reports in any order, any window and any profits.
THEOREM DrawdownsAlwaysAgree ==
  ASSUME Amounts \subseteq Lowest
  PROVE  Spec => []DrawdownsAgree
<1>1. [Next]_partVars => [TrackingNext]_trackingVars
  BY DEF Next, partVars
<1>2. Init => TrackingInit
  BY DEF Init
<1> QED BY <1>1, <1>2, TrackingInitInv, TrackingStep, TrackingAgrees, PTL DEF Spec

\* A backtest and a forward test of one file see the same ticks of the period in order, under
\* numbers that differ by the ticks before it, however the reader's batches fall and however often
\* the feed is connected again (data.rs, feed.rs, engine.rs run_from_stream, runner.rs
\* tick_to_event), for any files, periods, windows and batches.
THEOREM FeedsAlwaysAgree == Spec => []FeedsAgree
<1>1. [Next]_partVars => [FeedNext]_feedVars
  BY DEF Next, partVars
<1>2. Init => FeedInv
  <2> SUFFICES ASSUME Init PROVE FeedInv
    OBVIOUS
  <2>1. FeedInit(Among(Files, "feed"), Among(Periods, "feed"))
    BY DEF Init
  <2>2. Among(Files, "feed") \subseteq Files /\ Among(Periods, "feed") \subseteq Periods
    BY FeedAssumption DEF Among, FeedAssumption
  <2> QED BY <2>1, <2>2, FeedInitInv
<1> QED BY <1>1, <1>2, FeedStep, FeedAgrees, PTL DEF Spec
=============================================================================
