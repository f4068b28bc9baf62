------------------------- MODULE ReservationLease -------------------------
(***************************************************************************)
(* What datacatalog promises about the reservation of one artifact: it has *)
(* one owner until it runs out or is released.  CacheSerialization, where  *)
(* each call reads, looks at the clock and writes in separate steps, is    *)
(* shown to implement it.                                                  *)
(***************************************************************************)
EXTENDS Integers

CONSTANTS
    Owners,     \* who may reserve
    Nobody,     \* no owner
    Grace       \* ticks that a reservation lasts without an extension

VARIABLES
    owner,      \* who owns the reservation, or Nobody
    left        \* ticks until it runs out; 0 or less when it has

Init == owner = Nobody /\ left = 0

(* A free or lapsed reservation gets a new owner.                          *)
Acquire ==
    /\ owner = Nobody \/ left <= 0
    /\ owner' \in Owners
    /\ left' <= Grace

(* The owner extends it, in time or late.                                  *)
Extend ==
    /\ owner \in Owners
    /\ owner' = owner
    /\ left' <= Grace

(* The owner gives it up.                                                  *)
Release ==
    /\ owner \in Owners
    /\ owner' = Nobody
    /\ left' = 0

(* Time passes.                                                            *)
Elapse ==
    /\ owner' = owner
    /\ left' = left - 1

Next == Acquire \/ Extend \/ Release \/ Elapse

Spec == Init /\ [][Next]_<<owner, left>>
============================================================================
