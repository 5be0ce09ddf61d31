------------------------------ MODULE FixSession ------------------------------
(***************************************************************************)
(* FixSession (gateway/fix.rs): one session used by several tasks.  State  *)
(* and sequence numbers are shared; a call is taken by its task in steps,   *)
(* one for each await or atomic operation, and the steps of different tasks *)
(* interleave.  The connection and the counterparty are external: TCP may   *)
(* refuse or time out, the logon may be answered by anything or nothing.    *)
(*                                                                         *)
(* send_message does not write to the connection: a message counts as sent  *)
(* when its number is taken.  last_inbound and shutdown are written and     *)
(* never read, no task is ever stored in the two handles; they are left     *)
(* out, and so is what the callback does with a message.                    *)
(***************************************************************************)
EXTENDS Integers, Sequences

CONSTANTS Tasks,
          Kinds,         \* the messages they send, by the names of the send_ calls
          Numbers,       \* sequence numbers a counterparty may ask for or send
          MaxFixCalls    \* bound: calls

ASSUME FixAssumption ==
  /\ Numbers \subseteq Nat
  /\ MaxFixCalls \in Nat

VARIABLES
  session,      \* FixSessionState
  outbound,     \* outbound_seq
  inbound,      \* inbound_seq
  step,         \* the step each task is about to take, or idle
  call,         \* what it was called for
  number,       \* the number its message was built with
  raced,        \* history: outbound_seq has moved since
  numbered,     \* history: numbers of messages no other call overlapped, since it was set
  calls         \* calls made

counters == <<outbound, numbered>>
taskVars == <<step, call, number, raced, calls>>
fixVars  == <<session, counters, inbound, taskVars>>

-----------------------------------------------------------------------------
(* Messages: a type and a sequence of fields.  A field is a tag and the set of the  *)
(* number its value is read as, empty for a text.  Framing and time are left out.   *)

Text(t)   == <<t, {}>>
Num(t, n) == <<t, {n}>>

\* What each send_ call, and the logon, puts into its message
Body(kind, n) ==
  CASE kind = "TestRequest" -> <<Text("58")>>
    [] kind = "Logout" -> <<Text("58")>>
    [] kind = "ResendRequest" -> <<Text("8"), Num("7", n), Num("16", n)>>
    [] kind = "SequenceReset" -> <<Num("34", n), Text("36")>>
    [] kind = "NewOrderSingle" -> <<Text("11"), Text("55"), Num("54", 1), Num("38", n),
                                    Num("40", 1), Num("21", 1), Num("59", 0)>>
    [] kind = "OrderCancelRequest" -> <<Text("11"), Text("41"), Text("55"), Num("54", 1),
                                        Num("38", 0)>>
    [] kind = "MarketDataRequest" -> <<Text("262"), Num("263", 1), Num("264", 1), Num("265", 1),
                                       Num("266", 0), Num("267", 2), Num("269", 0),
                                       Num("269", 1), Num("146", 1), Text("55")>>
    [] kind = "Logon" -> <<Num("98", 0), Num("108", 30), Text("141")>>
    [] OTHER -> <<>>

Build(kind, body, n) ==
  [type |-> kind, fields |-> <<Text("49"), Text("56"), Num("34", n), Text("52")>> \o body]

\* parse_fix_message: of a field given twice the last counts.
Parsed(raw) ==
  [type |-> raw.type,
   fields |-> [t \in {raw.fields[i][1] : i \in DOMAIN raw.fields} |->
     LET last == CHOOSE i \in DOMAIN raw.fields :
                   /\ raw.fields[i][1] = t
                   /\ \A j \in DOMAIN raw.fields : raw.fields[j][1] = t => j <= i
     IN raw.fields[last][2]]]

\* get_u64: the number of a field, or none
Read(msg, t) == IF t \in DOMAIN msg.fields THEN msg.fields[t] ELSE {}

-----------------------------------------------------------------------------
(* Tasks and numbers *)

Idle == "idle"
At(t, s) == step[t] = s
Goto(t, s) == step' = [step EXCEPT ![t] = s]

BeginCall(t, what, first) ==
  /\ At(t, Idle) /\ calls < MaxFixCalls
  /\ calls' = calls + 1
  /\ call' = [call EXCEPT ![t] = what]
  /\ Goto(t, first)

Load(t) ==
  /\ number' = [number EXCEPT ![t] = outbound]
  /\ raced' = [raced EXCEPT ![t] = FALSE]

\* fetch_add, after a message with the number of the task has been handed on
Advance(t) ==
  /\ outbound' = outbound + 1
  /\ numbered' = IF raced[t] THEN numbered ELSE numbered \cup {number[t]}
  /\ raced' = [u \in Tasks |-> TRUE]

\* The counterparty names the number to go on with.
Store(n) ==
  /\ outbound' = n
  /\ numbered' = {}
  /\ raced' = [u \in Tasks |-> TRUE]

-----------------------------------------------------------------------------
(* connect *)

CallConnect(t) ==
  /\ BeginCall(t, "connect", "tcp")
  /\ UNCHANGED <<session, counters, inbound, number, raced>>

\* No connection, or not in time: the state stays what it was.
TcpFails(t) ==
  /\ At(t, "tcp") /\ Goto(t, Idle)
  /\ UNCHANGED <<session, counters, inbound, call, number, raced, calls>>

TcpConnects(t) ==
  /\ At(t, "tcp") /\ Goto(t, "build_logon")
  /\ session' = "LoggingOn"
  /\ UNCHANGED <<counters, inbound, call, number, raced, calls>>

BuildLogon(t) ==
  /\ At(t, "build_logon") /\ Goto(t, "write_logon")
  /\ Load(t)
  /\ UNCHANGED <<session, counters, inbound, call, calls>>

\* The error returns at once: the state stays LoggingOn.
WriteFails(t) ==
  /\ At(t, "write_logon") /\ Goto(t, Idle)
  /\ UNCHANGED <<session, counters, inbound, call, number, raced, calls>>

\* Fault: the logon does not count.
WriteLogonUncounted(t) ==
  /\ At(t, "write_logon") /\ Goto(t, "await_logon")
  /\ numbered' = IF raced[t] THEN numbered ELSE numbered \cup {number[t]}
  /\ UNCHANGED <<session, outbound, inbound, call, number, raced, calls>>

WriteLogon(t) ==
  /\ At(t, "write_logon") /\ Goto(t, "await_logon")
  /\ Advance(t)
  /\ UNCHANGED <<session, inbound, call, number, calls>>

\* Heartbeats, other messages and what does not parse are ignored while waiting.
LogonConfirmed(t, msg) ==
  /\ At(t, "await_logon") /\ Goto(t, "logged_on")
  /\ msg.type = "Logon"
  /\ IF Read(msg, "789") = {} THEN UNCHANGED <<counters, raced>>
     ELSE \E n \in Read(msg, "789") : Store(n)
  /\ UNCHANGED <<session, inbound, call, number, calls>>

\* Fault: nothing but a disconnect ends the wait.
LogonFailsIfDisconnected(t) ==
  /\ At(t, "await_logon") /\ session = "Disconnected" /\ Goto(t, "failed")
  /\ UNCHANGED <<session, counters, inbound, call, number, raced, calls>>

\* A Logout, the end of the connection, or the timeout
LogonFails(t) ==
  /\ At(t, "await_logon") /\ Goto(t, "failed")
  /\ UNCHANGED <<session, counters, inbound, call, number, raced, calls>>

ConnectEnds(t) ==
  /\ step[t] \in {"logged_on", "failed"} /\ Goto(t, Idle)
  /\ session' = IF At(t, "logged_on") THEN "LoggedOn" ELSE "Error"
  /\ UNCHANGED <<counters, inbound, call, number, raced, calls>>

(* disconnect *)

CallDisconnect(t) ==
  /\ BeginCall(t, "disconnect", "disconnected")
  /\ UNCHANGED <<session, counters, inbound, number, raced>>

Disconnected(t) ==
  /\ At(t, "disconnected") /\ Goto(t, Idle)
  /\ session' = "Disconnected"
  /\ UNCHANGED <<counters, inbound, call, number, raced, calls>>

-----------------------------------------------------------------------------
(* The send_ calls: the message is built first, then the state is read twice. *)

CallSend(t, kind) ==
  /\ BeginCall(t, kind, "is_logged_on")
  /\ Load(t)
  /\ UNCHANGED <<session, counters, inbound>>

IsLoggedOn(t) ==
  /\ At(t, "is_logged_on")
  /\ Goto(t, IF session = "LoggedOn" THEN "count" ELSE "is_logging_on")
  /\ UNCHANGED <<session, counters, inbound, call, number, raced, calls>>

\* The error ends the call.
IsLoggingOn(t) ==
  /\ At(t, "is_logging_on")
  /\ Goto(t, IF session = "LoggingOn" THEN "count" ELSE Idle)
  /\ UNCHANGED <<session, counters, inbound, call, number, raced, calls>>

CountMessage(t) ==
  /\ At(t, "count")
  /\ Advance(t)
  /\ Goto(t, IF call[t] = "Logout" THEN "logoff" ELSE Idle)
  /\ UNCHANGED <<session, inbound, call, number, calls>>

LogoffSent(t) ==
  /\ At(t, "logoff") /\ Goto(t, Idle)
  /\ session' = "LogoffSent"
  /\ UNCHANGED <<counters, inbound, call, number, raced, calls>>

-----------------------------------------------------------------------------
(* handle_incoming_message *)

\* A number too high or too low is logged: the next one is expected all the same.
Expected(msg) ==
  IF Read(msg, "34") = {} THEN inbound ELSE (CHOOSE n \in Read(msg, "34") : TRUE) + 1

CallHandle(t, msg) ==
  /\ inbound' = Expected(msg)
  /\ \/ /\ msg.type \in {"Heartbeat", "Logon", "ResendRequest", "ExecutionReport"}
        /\ BeginCall(t, msg.type, Idle)
        /\ UNCHANGED <<session, counters, number, raced>>
     \/ /\ msg.type = "Logout"
        /\ BeginCall(t, msg.type, "logout")
        /\ UNCHANGED <<session, counters, number, raced>>
     \/ /\ msg.type = "TestRequest"
        /\ BeginCall(t, "Heartbeat", "is_logged_on")
        /\ Load(t)
        /\ UNCHANGED <<session, counters>>
     \/ /\ msg.type = "SequenceReset"
        /\ BeginCall(t, msg.type, Idle)
        /\ IF Read(msg, "36") = {} THEN UNCHANGED <<counters, raced>>
           ELSE \E n \in Read(msg, "36") : Store(n)
        /\ UNCHANGED <<session, number>>

LogoutReceived(t) ==
  /\ At(t, "logout") /\ Goto(t, Idle)
  /\ session' = "LogoutReceived"
  /\ UNCHANGED <<counters, inbound, call, number, raced, calls>>

-----------------------------------------------------------------------------
FixInit ==
  /\ session = "Disconnected"
  /\ outbound = 1 /\ numbered = {}
  /\ inbound = 1
  /\ step = [t \in Tasks |-> Idle] /\ call = [t \in Tasks |-> Idle]
  /\ number = [t \in Tasks |-> 0] /\ raced = [t \in Tasks |-> TRUE]
  /\ calls = 0

\* What a counterparty sends: numbered, and a reset or an expected number may be named.
Incoming ==
  {Build(kind, Body(kind, n), n) : kind \in {"Heartbeat", "TestRequest", "SequenceReset",
                                             "Logout", "ExecutionReport", "Logon"}, n \in Numbers}
    \cup {Build("SequenceReset", <<Num("36", n)>>, 1) : n \in Numbers}
    \cup {Build("Logon", <<Num("789", n)>>, 1) : n \in Numbers}

Call(t) ==
  \/ CallConnect(t)
  \/ CallDisconnect(t)
  \/ \E kind \in Kinds : CallSend(t, kind)
  \/ \E raw \in Incoming : CallHandle(t, Parsed(raw))

\* What ends without the counterparty: the timeouts are among them.
Advances(t) ==
  \/ TcpFails(t) \/ TcpConnects(t) \/ BuildLogon(t) \/ WriteFails(t) \/ WriteLogon(t)
  \/ LogonFails(t) \/ ConnectEnds(t) \/ Disconnected(t)
  \/ IsLoggedOn(t) \/ IsLoggingOn(t) \/ CountMessage(t) \/ LogoffSent(t) \/ LogoutReceived(t)

Answered(t) == \E raw \in Incoming : LogonConfirmed(t, Parsed(raw))

FixNext == \E t \in Tasks : Call(t) \/ Advances(t) \/ Answered(t)

FixSpec == FixInit /\ [][FixNext]_fixVars /\ \A t \in Tasks : WF_fixVars(Advances(t))

-----------------------------------------------------------------------------
(* Properties *)

\* Two messages carry one sequence number only where calls overlap or the counterparty has
\* set the counter: what a call has built with the counter unmoved since is not the number of
\* a message sent the same way, although number and counter are read and moved in two steps.
NumbersFresh == \A t \in Tasks : ~raced[t] => number[t] \notin numbered

\* No call waits for ever, connect included: a counterparty that neither answers nor closes
\* the connection is given up after the timeout.
FixCallsReturn == \A t \in Tasks : step[t] # Idle ~> step[t] = Idle
=============================================================================
