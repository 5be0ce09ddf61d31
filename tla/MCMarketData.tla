---------------------------- MODULE MCMarketData ----------------------------
(***************************************************************************)
(* Values for MarketData: a channel of one event, and a detector that     *)
(* halts when two are missing.                                             *)
(***************************************************************************)
EXTENDS MarketData

Stream   == [p \in {"gateway", "gaps"} |-> IF p = "gateway" THEN "Market" ELSE "Strategy"]
Polled   == [s \in {"watch", "desk"} |->
               IF s = "watch" THEN <<"Market">> ELSE <<"Market", "Strategy">>]
EventIds == {"Market", "Strategy"} \X (1 .. 9)
Contents == [at : 0 .. 9, level : {"none", "minor", "severe"}]
=============================================================================
