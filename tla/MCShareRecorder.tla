---------------------------- MODULE MCShareRecorder ----------------------------
(* Shares in windows of at most two; the second one found a block. *)
EXTENDS ShareRecorder

BlockShares == {2}
=============================================================================
