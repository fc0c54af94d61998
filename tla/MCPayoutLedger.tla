----------------------------- MODULE MCPayoutLedger -----------------------------
(* Two addresses that mine and get a cut of every block; one is the pool's own. *)
EXTENDS PayoutLedger

CONSTANTS alice, pool

Addresses == {alice, pool}
Cuts == [a \in Addresses |-> 1]
\* One share earns too little for a payment, two are just enough.
Thresholds == [a \in Addresses |-> 2]
=============================================================================
