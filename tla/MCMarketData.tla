---------------------------- MODULE MCMarketData ----------------------------
(***************************************************************************)
(* Two threads of one process and one of another over one Redis: an        *)
(* overview, which loads both snapshots, races with loads of the second.   *)
(***************************************************************************)
EXTENDS MarketData

MCHome == [t \in Threads |-> IF t = "t3" THEN "other" ELSE "api"]

\* get_market_overview and get_indices
MCRequests ==
  [t \in Threads |-> IF t = "t1" THEN {<<"stock-snapshot", "index-snapshots">>}
                     ELSE {<<"index-snapshots">>}]

\* The first key holds what does not decode or not validate, the second nothing
\* or what does not validate.
Invalid == [ok |-> FALSE, at |-> 0]
MCLeft == [k \in Keys |-> IF k = "stock-snapshot" THEN {Malformed, Invalid}
                          ELSE {Missing, Invalid}]
=============================================================================
