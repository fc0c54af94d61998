------------------------------ MODULE RandomXPool ------------------------------
(***************************************************************************)
(* The RandomX virtual machines of the pool process (Native/RandomX.cs),   *)
(* used by share-validating threads and by the job managers.               *)
(*                                                                         *)
(* The machines of one seed sit in a blocking collection; the collections  *)
(* are listed in a dictionary per realm, all under one lock.  A thread     *)
(* that hashes finds the collection under the lock, and takes a machine,   *)
(* hashes and puts it back outside of it.  A Cryptonote job manager whose  *)
(* template has a new seed takes the lock, unlists the old collection,     *)
(* takes all its machines one by one to dispose of them, and creates the   *)
(* new collection, unless it is there, before it releases the lock.  An    *)
(* Alpha job just creates the collection of its epoch when there is none.  *)
(*                                                                         *)
(* Cryptonote pools may be configured with one realm (CryptonoteJobManager *)
(* line 282): each of their managers has a current seed of its own, and    *)
(* unlists that one's collection whether or not another one uses it.       *)
(*                                                                         *)
(* A collection is named by an identity that is reused once nothing refers *)
(* to it any more (it is garbage for the runtime).                         *)
(***************************************************************************)
EXTENDS Naturals, FiniteSets

CONSTANTS
  Hasher,     (* threads that validate shares                               *)
  Realm,      (* buckets of collections                                     *)
  Manager,    (* job managers: one per mining pool of the process           *)
  Rotating,   (* the Cryptonote job managers; the others are Alpha's        *)
  RealmOf,    (* the realm of each; Alpha's is fixed, Cryptonote's is set   *)
  Seed,       (* seed hashes                                                *)
  NoSeed,     (* no template was seen yet                                   *)
  NoRealm,    (* realm of an identity that was never used                   *)
  Collection, (* identities of collections                                  *)
  Names,      (* bound: those that the collections of a realm can have      *)
  Vm,         (* the machines of a collection                               *)
  MaxFaults   (* bound: failed creations                                    *)

ASSUME ConstantsAssumption ==
  /\ RealmOf \in [Manager -> Realm]
  /\ Rotating \subseteq Manager
  /\ IsFiniteSet(Rotating)
  /\ \A m \in Rotating, a \in Manager \ Rotating : RealmOf[m] # RealmOf[a]
  /\ NoSeed \notin Seed
  /\ NoRealm \notin Realm
  /\ Collection \subseteq Nat \ {0}
  /\ Names \in [Realm -> SUBSET Collection]
  /\ Vm \subseteq Nat \ {0}
  /\ Vm # {}
  /\ IsFiniteSet(Vm)
  /\ MaxFaults \in Nat

VARIABLES
  listed,   (* collections found in `realms`                                *)
  key,      (* realm and seed each collection was made for                  *)
  free,     (* machines in each collection                                  *)
  gone,     (* machines of each collection that are disposed of             *)
  lock,     (* the job manager that holds the lock across steps             *)
  doomed,   (* the unlisted collection it disposes of                       *)
  current,  (* each manager's currentSeedHash, or seed of the last job      *)
  issued,   (* seeds of each realm's jobs that miners may send shares for   *)
  pc,       (* each hasher: "idle", "wait" for a machine, "hash"            *)
  want,     (* realm and seed of its job                                    *)
  col,      (* the collection it found, 0 when idle                         *)
  vm,       (* the machine it leases, 0 when none                           *)
  faults    (* failed creations so far (bound only)                         *)

store   == <<listed, key, free, gone>>
manager == <<lock, doomed, current, issued>>
hashers == <<pc, want, col, vm>>
vars    == <<store, manager, hashers, faults>>

Key == Realm \X Seed
NoKey == <<NoRealm, NoSeed>>

-----------------------------------------------------------------------------
\* Mutant: collections are looked up by realm alone.
FindAnySeed(r, s) == {i \in listed : key[i][1] = r}
Find(r, s) == {i \in listed : key[i] = <<r, s>>}
Leasing(h, i, v) == pc[h] = "hash" /\ col[h] = i /\ vm[h] = v
Leased(i) == {v \in Vm : \E h \in Hasher : Leasing(h, i, v)}

\* An identity whose machines are gone and that nothing in the process refers to.
Spare(i) == /\ i \in Collection \ listed
            /\ gone[i] = Vm
            /\ \A h \in Hasher : col[h] # i
Fresh(i, r) == /\ i \in Names[r]
               /\ Spare(i)
               /\ \A j \in Names[r] : Spare(j) => i <= j

\* Mutant: the new collection is not entered in the dictionary.
CreateUnlisted(i, r, s) ==
  /\ Fresh(i, r)
  /\ key' = [key EXCEPT ![i] = <<r, s>>]
  /\ free' = [free EXCEPT ![i] = Vm]
  /\ gone' = [gone EXCEPT ![i] = {}]
  /\ UNCHANGED listed

\* The private CreateSeed, and the entry in the dictionary.
Create(i, r, s) ==
  /\ Fresh(i, r)
  /\ listed' = listed \cup {i}
  /\ key' = [key EXCEPT ![i] = <<r, s>>]
  /\ free' = [free EXCEPT ![i] = Vm]
  /\ gone' = [gone EXCEPT ![i] = {}]

\* The public CreateSeed: nothing to do when the realm has the seed already.
CreateSeed(r, s) ==
  IF Find(r, s) = {}
  THEN \E i \in Collection : Create(i, r, s)
  ELSE UNCHANGED store

\* Mutant: the job carries the seed hash read before it was updated.
IssueEarlier(m, s) == issued' = [issued EXCEPT ![RealmOf[m]] = @ \cup {current[m]}]
Issue(m, s) == issued' = [issued EXCEPT ![RealmOf[m]] = @ \cup {s}]

-----------------------------------------------------------------------------
(* A Cryptonote job manager: UpdateHashParams, inside WithLock. *)

\* Mutant: the old seed is removed from the dictionary and forgotten.
BeginWithoutDisposal(m, s) ==
  /\ m \in Rotating
  /\ lock = {}
  /\ s # current[m]
  /\ lock' = {m}
  /\ listed' = listed \ Find(RealmOf[m], current[m])
  /\ current' = [current EXCEPT ![m] = s]
  /\ UNCHANGED <<key, free, gone, doomed, issued, hashers, faults>>

\* A template with another seed: the old collection is unlisted, if no manager of
\* the realm has done so before.  From here on the manager holds the lock until the
\* new collection is listed.
BeginRotation(m, s) ==
  /\ m \in Rotating
  /\ lock = {}
  /\ s # current[m]
  /\ lock' = {m}
  /\ doomed' = Find(RealmOf[m], current[m])
  /\ listed' = listed \ doomed'
  /\ current' = [current EXCEPT ![m] = s]
  /\ UNCHANGED <<key, free, gone, issued, hashers, faults>>

\* Mutant: machines are disposed of wherever they are.
DisposeLeased(m, v) ==
  /\ lock = {m}
  /\ \E i \in doomed :
       /\ v \notin gone[i]
       /\ free' = [free EXCEPT ![i] = @ \ {v}]
       /\ gone' = [gone EXCEPT ![i] = @ \cup {v}]
  /\ UNCHANGED <<listed, key, manager, hashers, faults>>

\* DeleteSeed takes the next machine, waiting for one that is leased.
Dispose(m, v) ==
  /\ lock = {m}
  /\ \E i \in doomed :
       /\ v \in free[i]
       /\ free' = [free EXCEPT ![i] = @ \ {v}]
       /\ gone' = [gone EXCEPT ![i] = @ \cup {v}]
  /\ UNCHANGED <<listed, key, manager, hashers, faults>>

\* Mutants: the disposal loop runs once too little, or once too often.
DisposedButOne == \A i \in doomed : Cardinality(gone[i]) + 1 >= Cardinality(Vm)
DisposedAndOne == \A i \in doomed : Cardinality(gone[i]) = Cardinality(Vm) + 1
\* As many machines as were created have been disposed of.
Disposed == \A i \in doomed : Cardinality(gone[i]) = Cardinality(Vm)

FinishRotation(m) ==
  /\ lock = {m}
  /\ Disposed
  /\ CreateSeed(RealmOf[m], current[m])
  /\ lock' = {}
  /\ doomed' = {}
  /\ Issue(m, current[m])
  /\ UNCHANGED <<current, hashers, faults>>

\* Creating the machines throws: the lock is released, currentSeedHash stays.
CreateFails(m) ==
  /\ lock = {m}
  /\ Disposed
  /\ Find(RealmOf[m], current[m]) = {}
  /\ faults < MaxFaults
  /\ faults' = faults + 1
  /\ lock' = {}
  /\ doomed' = {}
  /\ UNCHANGED <<store, current, issued, hashers>>

\* A template with the seed of the one before: the job is issued, and no machine
\* is looked for, not even after creating them has failed or another manager has
\* disposed of them.
NewJob(m) ==
  /\ m \in Rotating \ lock
  /\ current[m] # NoSeed
  /\ Issue(m, current[m])
  /\ UNCHANGED <<store, lock, doomed, current, hashers, faults>>

-----------------------------------------------------------------------------
(* An Alpha job: InitAlpha.  (When the creation throws there is no job, and *)
(* nothing has changed.)                                                    *)

\* Mutant: the collection of the epoch before is dropped.
NewEpochReplaces(m, s) ==
  /\ m \in Manager \ Rotating
  /\ lock = {}
  /\ s # current[m]
  /\ Find(RealmOf[m], s) = {}
  /\ \E i \in Collection :
       /\ Fresh(i, RealmOf[m])
       /\ listed' = (listed \ Find(RealmOf[m], current[m])) \cup {i}
       /\ key' = [key EXCEPT ![i] = <<RealmOf[m], s>>]
       /\ free' = [free EXCEPT ![i] = Vm]
       /\ gone' = [gone EXCEPT ![i] = {}]
  /\ current' = [current EXCEPT ![m] = s]
  /\ Issue(m, s)
  /\ UNCHANGED <<lock, doomed, hashers, faults>>

NewEpoch(m, s) ==
  /\ m \in Manager \ Rotating
  /\ lock = {}
  /\ s # current[m]
  /\ CreateSeed(RealmOf[m], s)
  /\ current' = [current EXCEPT ![m] = s]
  /\ Issue(m, s)
  /\ UNCHANGED <<lock, doomed, hashers, faults>>

-----------------------------------------------------------------------------
(* A share-validating thread: CalculateHash. *)

GetSeed(h, r, s) ==
  /\ pc[h] = "idle"
  /\ s \in issued[r]
  /\ lock = {}
  /\ \E i \in Find(r, s) : col' = [col EXCEPT ![h] = i]
  /\ want' = [want EXCEPT ![h] = <<r, s>>]
  /\ pc' = [pc EXCEPT ![h] = "wait"]
  /\ UNCHANGED <<vm, store, manager, faults>>

\* GetSeed returned null; taking it apart throws, before the try block: the share
\* is lost, and nothing else happens.
SeedMissing(h, r, s) ==
  /\ pc[h] = "idle"
  /\ s \in issued[r]
  /\ lock = {}
  /\ Find(r, s) = {}
  /\ UNCHANGED vars

\* Mutant: the machine stays in the collection while it is leased.
TakeShared(h, v) ==
  /\ pc[h] = "wait"
  /\ v \in free[col[h]]
  /\ vm' = [vm EXCEPT ![h] = v]
  /\ pc' = [pc EXCEPT ![h] = "hash"]
  /\ UNCHANGED <<want, col, store, manager, faults>>

Take(h, v) ==
  /\ pc[h] = "wait"
  /\ v \in free[col[h]]
  /\ free' = [free EXCEPT ![col[h]] = @ \ {v}]
  /\ vm' = [vm EXCEPT ![h] = v]
  /\ pc' = [pc EXCEPT ![h] = "hash"]
  /\ UNCHANGED <<want, col, listed, key, gone, manager, faults>>

\* Mutant: the machine is put back on success only.
ReturnIfHashed(h) ==
  /\ pc[h] = "hash"
  /\ \/ free' = [free EXCEPT ![col[h]] = @ \cup {vm[h]}]
     \/ UNCHANGED free
  /\ pc' = [pc EXCEPT ![h] = "idle"]
  /\ col' = [col EXCEPT ![h] = 0]
  /\ vm' = [vm EXCEPT ![h] = 0]
  /\ want' = [want EXCEPT ![h] = NoKey]
  /\ UNCHANGED <<listed, key, gone, manager, faults>>

\* The finally block: the hash is computed, or it throws and the result is cleared;
\* the machine is put back in both cases.
Return(h) ==
  /\ pc[h] = "hash"
  /\ free' = [free EXCEPT ![col[h]] = @ \cup {vm[h]}]
  /\ pc' = [pc EXCEPT ![h] = "idle"]
  /\ col' = [col EXCEPT ![h] = 0]
  /\ vm' = [vm EXCEPT ![h] = 0]
  /\ want' = [want EXCEPT ![h] = NoKey]
  /\ UNCHANGED <<listed, key, gone, manager, faults>>

-----------------------------------------------------------------------------
Init ==
  /\ listed = {}
  /\ key = [i \in Collection |-> NoKey]
  /\ free = [i \in Collection |-> {}]
  /\ gone = [i \in Collection |-> Vm]
  /\ lock = {} /\ doomed = {}
  /\ current = [m \in Manager |-> NoSeed]
  /\ issued = [r \in Realm |-> {}]
  /\ pc = [h \in Hasher |-> "idle"]
  /\ want = [h \in Hasher |-> NoKey]
  /\ col = [h \in Hasher |-> 0]
  /\ vm = [h \in Hasher |-> 0]
  /\ faults = 0

ManagerStep(m) ==
  \/ \E v \in Vm : Dispose(m, v)
  \/ FinishRotation(m)
  \/ CreateFails(m)

HasherStep(h) ==
  \/ \E v \in Vm : Take(h, v)
  \/ Return(h)

Template(m, s) ==
  \/ BeginRotation(m, s)
  \/ NewEpoch(m, s)

Share(h, r, s) ==
  \/ GetSeed(h, r, s)
  \/ SeedMissing(h, r, s)

Next ==
  \/ \E m \in Manager : ManagerStep(m)
  \/ \E m \in Manager : NewJob(m)
  \/ \E h \in Hasher : HasherStep(h)
  \/ \E m \in Manager, s \in Seed : Template(m, s)
  \/ \E h \in Hasher, r \in Realm, s \in Seed : Share(h, r, s)

Spec == Init /\ [][Next]_vars

\* A rotation goes on when it can; a hash ends; a free machine is taken by some
\* thread that waits for one (the collection promises no order among them).
Fairness ==
  /\ WF_vars(\E m \in Manager : ManagerStep(m))
  /\ \A h \in Hasher : WF_vars(HasherStep(h))

FairSpec == Spec /\ Fairness

-----------------------------------------------------------------------------
(* Properties. *)

\* Type invariant.
TypeOK ==
  /\ listed \subseteq Collection
  /\ key \in [Collection -> Key \cup {NoKey}]
  /\ free \in [Collection -> SUBSET Vm]
  /\ gone \in [Collection -> SUBSET Vm]
  /\ lock \subseteq Rotating
  /\ doomed \subseteq Collection
  /\ current \in [Manager -> Seed \cup {NoSeed}]
  /\ issued \in [Realm -> SUBSET Seed]
  /\ pc \in [Hasher -> {"idle", "wait", "hash"}]
  /\ want \in [Hasher -> Key \cup {NoKey}]
  /\ col \in [Hasher -> Collection \cup {0}]
  /\ vm \in [Hasher -> Vm \cup {0}]
  /\ faults \in 0..MaxFaults

\* Two threads never hash on the same machine, which is not thread-safe.
ExclusiveLease ==
  \A g, h \in Hasher :
    g # h /\ pc[g] = "hash" /\ pc[h] = "hash" =>
      <<col[g], vm[g]>> # <<col[h], vm[h]>>

\* A thread never hashes on a machine that a rotation has disposed of, however
\* the rotation overtakes it between finding the collection and hashing.
NoUseAfterDispose ==
  \A h \in Hasher : pc[h] = "hash" => vm[h] \notin gone[col[h]]

\* The machine a thread waits for, or hashes on, was made for the seed of its job.
HashesOwnSeed ==
  \A h \in Hasher : pc[h] # "idle" => key[col[h]] = want[h]

\* A thread finds its collection empty for good, with no thread left to put a
\* machine back, only when a rotation has unlisted that collection meanwhile.
StrandedOnlyByRotation ==
  \A h \in Hasher :
    pc[h] = "wait" /\ free[col[h]] = {} /\ Leased(col[h]) = {} => col[h] \notin listed

\* The machines of a realm never take more memory than one generation for each of
\* the Cryptonote pools that share it.
InUse(r) == {i \in Collection : key[i][1] = r /\ gone[i] # Vm}
Sharing(r) == {m \in Rotating : RealmOf[m] = r}
OneGeneration ==
  \A m \in Rotating : Cardinality(InUse(RealmOf[m])) <= Cardinality(Sharing(RealmOf[m]))

\* An Alpha share can be hashed for as long as its job may be worked on.
OldJobsStayHashable ==
  \A m \in Manager \ Rotating : \A s \in issued[RealmOf[m]] : Find(RealmOf[m], s) # {}

\* The current seed of a job manager loses its machines in two ways only: creating
\* them fails, or another pool with the same realm and the same seed moves on to its
\* next one.  No other interleaving of threads and managers loses them.
Unready(m) ==
  m \notin lock /\ current[m] # NoSeed /\ Find(RealmOf[m], current[m]) = {}
SharerMovesOn(m) ==
  \E n \in Rotating \ {m}, s \in Seed :
    RealmOf[n] = RealmOf[m] /\ current[n] = current[m] /\ BeginRotation(n, s)
UnreadyOnlyByFailure ==
  [][\A m \in Manager :
       Unready(m)' /\ ~Unready(m) => CreateFails(m) \/ SharerMovesOn(m)]_vars

\* The lock, which every share of every pool of the process needs, is always
\* released: a rotation waits for threads, but none of them waits for the lock.
LockReleased == lock # {} ~> lock = {}

\* Machines that no pool looks for any more, because their collection is unlisted or
\* its seed is no manager's current one, are disposed of, in the realms of managers M.
Wanted(i) ==
  i \in listed /\ \E m \in Manager : key[i] = <<RealmOf[m], current[m]>>
Stale(i, M) ==
  (\E m \in M : key[i][1] = RealmOf[m]) /\ gone[i] # Vm /\ ~Wanted(i)
Released(M) ==
  (\E i \in Collection : Stale(i, M)) ~> (\A i \in Collection : ~Stale(i, M))
RotatedVmsReleased == Released(Rotating)
\* The same for every pool: "RandomX VM pooling with automatic cleanup".
StaleVmsReleased == Released(Manager)
=============================================================================
