---------------------------- MODULE MCArrayNode ----------------------------
(***************************************************************************)
(* Setups for TLC: subnodes one after the other with faults, and as many   *)
(* at a time as the workflow allows without.                               *)
(***************************************************************************)
EXTENDS ArrayNode

Asks(parallelism, n) ==
    [minSuccesses : {1, 2}, parallelism : {parallelism}, behavior : {"hybrid"}, faults : {n}]

MCSetups == Asks(1, MaxFaults) \cup Asks(Null, 0)
MCInTurn == Asks(1, MaxFaults)
============================================================================
