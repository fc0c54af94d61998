----------------------------- MODULE MCRandomXPool -----------------------------
(* Two threads and two seeds; two Cryptonote pools that share a realm, and Alpha. *)
EXTENDS RandomXPool

CONSTANTS xmr1, xmr2, alpha, shared, alphas

Pools == {xmr1, xmr2, alpha}
Cryptonote == {xmr1, xmr2}
Realms == {shared, alphas}
RealmOfPool == [m \in Manager |-> IF m \in Rotating THEN shared ELSE alphas]

\* One machine per collection shows what is never released; two let a thread hash
\* while a rotation disposes of the other one.
OneVm == {1}
TwoVms == {1, 2}

\* Alpha lists one collection per seed; the shared realm has one for each of its two
\* managers, and each of two threads may be stranded on one more.
SixCollections == 1..6
NamesOfRealm == [r \in Realm |-> IF r = shared THEN 3..6 ELSE 1..2]
=============================================================================
