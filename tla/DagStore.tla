------------------------------- MODULE DagStore -------------------------------
(***************************************************************************)
(* What the threads that validate Ethash shares are promised of the DAGs:  *)
(* a thread computes with the DAG of an epoch only when it is complete,    *)
(* and a complete DAG is never lost, not even when the process dies.  It   *)
(* knows nothing of caches, files, handles or locks.                       *)
(***************************************************************************)
CONSTANTS
  Thread,   (* threads that compute hashes                                  *)
  Epoch,    (* DAGs are named by their epoch                                *)
  NoEpoch   (* a thread that computes nothing                               *)

VARIABLES
  complete, (* epochs whose DAG is complete                                 *)
  using     (* the epoch whose DAG each thread computes with                *)

Init ==
  /\ complete = {}
  /\ using = [t \in Thread |-> NoEpoch]

Finish(e) ==
  /\ complete' = complete \cup {e}
  /\ UNCHANGED using

Begin(t, e) ==
  /\ using[t] = NoEpoch
  /\ e \in complete
  /\ using' = [using EXCEPT ![t] = e]
  /\ UNCHANGED complete

End(t) ==
  /\ using' = [using EXCEPT ![t] = NoEpoch]
  /\ UNCHANGED complete

Restart ==
  /\ using' = [t \in Thread |-> NoEpoch]
  /\ UNCHANGED complete

Next ==
  \/ \E e \in Epoch : Finish(e)
  \/ \E t \in Thread, e \in Epoch : Begin(t, e)
  \/ \E t \in Thread : End(t)
  \/ Restart

Spec == Init /\ [][Next]_<<complete, using>>
=============================================================================
