--------------------------- MODULE MCWebApiPlugin ---------------------------
(***************************************************************************)
(* Setups for TLC.                                                         *)
(***************************************************************************)
EXTENDS WebApiPlugin, TLC

(* Three tasks, two of them visited at a time, and a cache for one.        *)
MCCrowd == {[tasks |-> Ids, size |-> 1, workers |-> 2, faults |-> MaxFaults]}

(* All tasks take their turns without faults; one of them meets the faults. *)
MCTurns ==
    {[tasks |-> Ids, size |-> Cardinality(Ids), workers |-> 1, faults |-> 0],
     [tasks |-> {CHOOSE t \in Ids : TRUE}, size |-> Cardinality(Ids), workers |-> 1, faults |-> MaxFaults]}

(* Where the tokens matter: few batches are queued and marked.             *)
MCFewBatches == Cardinality(queue) =< 1 /\ Cardinality(marking \cup processing) =< 2

(* Only for runs without liveness properties.                              *)
MCSymmetry == Permutations(Ids)
=============================================================================
