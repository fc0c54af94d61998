------------------------ MODULE MCStratumDifficulty ------------------------
(* Two difficulties: the base one, and one a retarget or the miner goes to. *)
EXTENDS StratumDifficulty

Difficulties == {1, 2}
=============================================================================
