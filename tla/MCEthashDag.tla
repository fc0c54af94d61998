----------------------------- MODULE MCEthashDag -----------------------------
(* Two validating threads; three epochs, and one made in advance, for a cache of two. *)
EXTENDS EthashDag

\* A cached Dag, and one that is the future, in use, or being generated besides.
TwoCopies == {1, 2}
=============================================================================
