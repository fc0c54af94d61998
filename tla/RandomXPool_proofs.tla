--------------------------- MODULE RandomXPool_proofs ---------------------------
(***************************************************************************)
(* Proofs about RandomXPool, for every number of threads, job managers,    *)
(* realms, seeds and machines.                                             *)
(***************************************************************************)
EXTENDS RandomXPool, TLAPS, FunctionTheorems, FiniteSetTheorems

\* A thread that is not idle holds a collection of its seed; a leased machine is
\* neither free nor disposed of.
HasherOK ==
  \A h \in Hasher :
    /\ pc[h] = "idle" => col[h] = 0
    /\ pc[h] # "idle" => col[h] \in Collection /\ key[col[h]] = want[h]
    /\ pc[h] = "hash" => /\ vm[h] \in Vm
                         /\ vm[h] \notin free[col[h]]
                         /\ vm[h] \notin gone[col[h]]

\* No machine is lost: it is free, leased or disposed of.
VmOK ==
  \A i \in Collection :
    /\ free[i] \cap gone[i] = {}
    /\ \A v \in Vm : v \in free[i] \/ v \in gone[i] \/ \E h \in Hasher : Leasing(h, i, v)

\* A listed collection is whole, an unlisted one is being disposed of or gone.
ListOK ==
  /\ \A i \in listed : gone[i] = {} /\ key[i] \in Key
  /\ \A i \in doomed : i \notin listed /\ key[i] \in Key
  /\ \A i \in Collection : i \in listed \/ i \in doomed \/ gone[i] = Vm
  /\ lock = {} => doomed = {}
  /\ \A m \in lock : lock = {m}

\* The seed of collection i is the current one of a manager that is not rotating.
Owns(m, i) == m \in Rotating \ lock /\ key[i] = <<RealmOf[m], current[m]>>

\* One listed collection per realm and seed.
DistinctOK == \A i, j \in listed : key[i] = key[j] => i = j

\* In a Cryptonote realm each listed collection is some manager's, and the one that
\* is being disposed of belongs to the realm of the rotating manager.
GenerationOK ==
  /\ \A i, j \in doomed : i = j
  /\ \A i \in doomed, m \in lock : key[i][1] = RealmOf[m]
  /\ \A i \in listed, m \in Rotating : key[i][1] = RealmOf[m] => \E n \in Manager : Owns(n, i)

\* The collections of Alpha's jobs stay listed.
JobsOK ==
  \A m \in Manager \ Rotating : \A s \in issued[RealmOf[m]] :
    \E i \in listed : key[i] = <<RealmOf[m], s>>

\* A manager that holds the lock has seen a template.
StartedOK == \A m \in lock : current[m] \in Seed

\* The inductive invariant.
IInv ==
  /\ TypeOK
  /\ HasherOK
  /\ ExclusiveLease
  /\ VmOK
  /\ ListOK
  /\ DistinctOK
  /\ GenerationOK
  /\ JobsOK
  /\ StartedOK

LEMMA KeyFacts ==
  ASSUME NEW k \in Key
  PROVE  k[1] \in Realm /\ k[2] \in Seed /\ k = <<k[1], k[2]>>
BY DEF Key

LEMMA BeginRotationInv ==
  ASSUME IInv, NEW m \in Manager, NEW s \in Seed, BeginRotation(m, s)
  PROVE  IInv'
<1> USE DEF BeginRotation, hashers
<1>1. TypeOK'
  BY DEF IInv, TypeOK, Find
<1>2. HasherOK' /\ ExclusiveLease'
  BY DEF IInv, HasherOK, ExclusiveLease
<1>3. VmOK'
  BY DEF IInv, VmOK, Leasing
<1>4. ListOK' /\ DistinctOK'
  BY DEF IInv, TypeOK, ListOK, DistinctOK, Find
<1>5. GenerationOK'
  <2>1. \A i \in doomed' : key[i][1] = RealmOf[m]
    BY DEF Find
  <2>2. \A i, j \in doomed' : i = j
    BY DEF IInv, DistinctOK, Find
  <2>3. ASSUME NEW i \in listed', NEW q \in Rotating, key[i][1] = RealmOf[q]
        PROVE  \E n \in Manager : Owns(n, i)'
    <3>1. i \in listed /\ key[i] # <<RealmOf[m], current[m]>>
      BY DEF Find
    <3>2. PICK n \in Manager : Owns(n, i)
      BY <2>3, <3>1 DEF IInv, GenerationOK
    <3>3. n # m /\ current'[n] = current[n]
      BY <3>1, <3>2 DEF Owns, IInv, TypeOK
    <3> QED
      BY <3>2, <3>3 DEF Owns
  <2> QED
    BY <2>1, <2>2, <2>3 DEF GenerationOK
<1>6. JobsOK'
  <2>1. SUFFICES ASSUME NEW a \in Manager \ Rotating, NEW t \in issued[RealmOf[a]]
                 PROVE  \E i \in listed' : key[i] = <<RealmOf[a], t>>
    BY DEF JobsOK
  <2>2. PICK i \in listed : key[i] = <<RealmOf[a], t>>
    BY <2>1 DEF IInv, JobsOK
  <2>3. i \notin Find(RealmOf[m], current[m])
    BY <2>2, ConstantsAssumption DEF Find
  <2> QED
    BY <2>2, <2>3
<1>7. StartedOK'
  BY DEF IInv, TypeOK, StartedOK
<1> QED
  BY <1>1, <1>2, <1>3, <1>4, <1>5, <1>6, <1>7 DEF IInv

LEMMA DisposeInv ==
  ASSUME IInv, NEW m \in Manager, NEW v \in Vm, Dispose(m, v)
  PROVE  IInv'
<1> USE DEF Dispose, hashers, manager
<1>0. PICK i \in doomed : /\ v \in free[i]
                          /\ free' = [free EXCEPT ![i] = @ \ {v}]
                          /\ gone' = [gone EXCEPT ![i] = @ \cup {v}]
  OBVIOUS
<1>1. TypeOK' /\ i \in Collection
  BY <1>0 DEF IInv, TypeOK
<1>2. \A h \in Hasher : ~Leasing(h, i, v)
  BY <1>0 DEF IInv, HasherOK, Leasing
<1>3. HasherOK'
  BY <1>0, <1>1, <1>2 DEF IInv, TypeOK, HasherOK, Leasing
<1>4. ExclusiveLease'
  BY DEF IInv, ExclusiveLease
<1>5. VmOK'
  <2>1. \A h \in Hasher, j \in Collection, w \in Vm : Leasing(h, j, w) => Leasing(h, j, w)'
    BY DEF Leasing
  <2> QED
    BY <1>0, <1>1, <2>1 DEF IInv, TypeOK, VmOK
<1>6. ListOK'
  BY <1>0, <1>1 DEF IInv, TypeOK, ListOK
<1>7. DistinctOK' /\ GenerationOK' /\ JobsOK' /\ StartedOK'
  BY DEF IInv, DistinctOK, GenerationOK, Owns, JobsOK, StartedOK
<1> QED
  BY <1>1, <1>3, <1>4, <1>5, <1>6, <1>7 DEF IInv

\* Listing a new collection, while nothing is being disposed of any more: what is
\* true of the machines, whoever creates it.
LEMMA CreateInv ==
  ASSUME IInv, NEW i \in Collection, NEW r \in Realm, NEW s \in Seed,
         Create(i, r, s), doomed' = {}, lock' = {},
         \A j \in doomed : gone[j] = Vm,
         UNCHANGED hashers
  PROVE  HasherOK' /\ ExclusiveLease' /\ VmOK' /\ ListOK'
<1> USE DEF hashers, Create, Fresh, Spare
<1>1. i \notin listed /\ \A h \in Hasher : col[h] # i
  OBVIOUS
<1>2. \A j \in Collection \ {i} : key'[j] = key[j] /\ free'[j] = free[j] /\ gone'[j] = gone[j]
  BY DEF IInv, TypeOK
<1>3. key'[i] = <<r, s>> /\ free'[i] = Vm /\ gone'[i] = {}
  BY DEF IInv, TypeOK
<1>4. HasherOK'
  BY <1>1, <1>2 DEF IInv, HasherOK
<1>5. ExclusiveLease'
  BY DEF IInv, ExclusiveLease
<1>6. VmOK'
  <2>1. \A h \in Hasher, j \in Collection, w \in Vm : Leasing(h, j, w) => Leasing(h, j, w)'
    BY DEF Leasing
  <2> QED
    BY <1>2, <1>3, <2>1 DEF IInv, VmOK
<1>7. ListOK'
  <2>1. \A j \in listed' : gone'[j] = {} /\ key'[j] \in Key
    BY <1>1, <1>2, <1>3 DEF IInv, TypeOK, ListOK, Key
  <2>2. \A j \in Collection : j \in listed' \/ gone'[j] = Vm
    BY <1>2 DEF IInv, ListOK
  <2> QED
    BY <2>1, <2>2 DEF ListOK
<1> QED
  BY <1>4, <1>5, <1>6, <1>7

\* Counting the machines that were disposed of is as good as comparing the sets.
LEMMA DisposedIsGone ==
  ASSUME TypeOK, Disposed
  PROVE  \A j \in doomed : gone[j] = Vm
BY ConstantsAssumption, FS_Subset DEF TypeOK, Disposed

\* The same when nothing is listed.
LEMMA IdleInv ==
  ASSUME IInv, UNCHANGED store, UNCHANGED hashers, doomed' = {}, lock' = {},
         \A j \in doomed : gone[j] = Vm
  PROVE  HasherOK' /\ ExclusiveLease' /\ VmOK' /\ ListOK'
<1> USE DEF store, hashers
<1>1. HasherOK' /\ ExclusiveLease'
  BY DEF IInv, HasherOK, ExclusiveLease
<1>2. VmOK'
  BY DEF IInv, VmOK, Leasing
<1>3. ListOK'
  BY DEF IInv, ListOK
<1> QED
  BY <1>1, <1>2, <1>3

\* The public CreateSeed lists the seed that is asked for and no other, once.
LEMMA CreateSeedInv ==
  ASSUME IInv, NEW r \in Realm, NEW s \in Seed, CreateSeed(r, s),
         doomed' = {}, lock' = {},
         \A j \in doomed : gone[j] = Vm,
         UNCHANGED hashers
  PROVE  /\ HasherOK' /\ ExclusiveLease' /\ VmOK' /\ ListOK' /\ DistinctOK'
         /\ listed' \subseteq Collection
         /\ key' \in [Collection -> Key \cup {NoKey}]
         /\ free' \in [Collection -> SUBSET Vm]
         /\ gone' \in [Collection -> SUBSET Vm]
         /\ \A j \in listed : j \in listed' /\ key'[j] = key[j]
         /\ \A j \in listed' : j \in listed \/ key'[j] = <<r, s>>
         /\ \E j \in listed' : key'[j] = <<r, s>>
<1>1. CASE Find(r, s) = {}
  <2>1. PICK i \in Collection : Create(i, r, s)
    BY <1>1 DEF CreateSeed
  <2>2. HasherOK' /\ ExclusiveLease' /\ VmOK' /\ ListOK'
    BY <2>1, CreateInv
  <2>3. /\ listed' = listed \cup {i} /\ i \notin listed
        /\ key' = [key EXCEPT ![i] = <<r, s>>]
        /\ free' = [free EXCEPT ![i] = Vm]
        /\ gone' = [gone EXCEPT ![i] = {}]
    BY <2>1 DEF Create, Fresh, Spare
  <2>4. /\ listed' \subseteq Collection
        /\ key' \in [Collection -> Key \cup {NoKey}]
        /\ free' \in [Collection -> SUBSET Vm]
        /\ gone' \in [Collection -> SUBSET Vm]
    BY <2>3 DEF IInv, TypeOK, Key
  <2>5. key'[i] = <<r, s>> /\ \A j \in listed : key'[j] = key[j] /\ key[j] # <<r, s>>
    BY <1>1, <2>3 DEF IInv, TypeOK, Find
  <2>6. DistinctOK'
    BY <2>3, <2>5 DEF IInv, DistinctOK
  <2> QED
    BY <2>2, <2>3, <2>4, <2>5, <2>6
<1>2. CASE Find(r, s) # {}
  <2>1. UNCHANGED store
    BY <1>2 DEF CreateSeed
  <2>2. HasherOK' /\ ExclusiveLease' /\ VmOK' /\ ListOK'
    BY <2>1, IdleInv
  <2>3. DistinctOK'
    BY <2>1 DEF IInv, DistinctOK, store
  <2>4. \E j \in listed : key[j] = <<r, s>>
    BY <1>2 DEF Find
  <2> QED
    BY <2>1, <2>2, <2>3, <2>4 DEF IInv, TypeOK, store
<1> QED
  BY <1>1, <1>2

LEMMA FinishRotationInv ==
  ASSUME IInv, NEW m \in Manager, FinishRotation(m)
  PROVE  IInv'
<1> USE DEF FinishRotation
<1> DEFINE r == RealmOf[m]
<1> DEFINE s == current[m]
<1>1. m \in Rotating /\ r \in Realm /\ s \in Seed
  BY ConstantsAssumption DEF IInv, TypeOK, StartedOK
<1>2. \A j \in doomed : gone[j] = Vm
  BY DisposedIsGone DEF IInv
<1>3. /\ HasherOK' /\ ExclusiveLease' /\ VmOK' /\ ListOK' /\ DistinctOK'
      /\ listed' \subseteq Collection
      /\ key' \in [Collection -> Key \cup {NoKey}]
      /\ free' \in [Collection -> SUBSET Vm]
      /\ gone' \in [Collection -> SUBSET Vm]
      /\ \A j \in listed : j \in listed' /\ key'[j] = key[j]
      /\ \A j \in listed' : j \in listed \/ key'[j] = <<r, s>>
  BY <1>1, <1>2, CreateSeedInv
<1>4. TypeOK'
  BY <1>1, <1>3 DEF IInv, TypeOK, Issue, hashers
<1>5. GenerationOK'
  <2>1. SUFFICES ASSUME NEW i \in listed', NEW q \in Rotating, key'[i][1] = RealmOf[q]
                 PROVE  \E n \in Manager : Owns(n, i)'
    BY DEF GenerationOK
  <2>2. CASE i \in listed
    <3>1. PICK n \in Manager : Owns(n, i)
      BY <1>3, <2>1, <2>2 DEF IInv, GenerationOK
    <3> QED
      BY <1>3, <2>2, <3>1 DEF Owns
  <2>3. CASE i \notin listed
    BY <1>1, <1>3, <2>3 DEF Owns
  <2> QED
    BY <2>2, <2>3
<1>6. JobsOK'
  <2>1. \A a \in Manager \ Rotating : issued'[RealmOf[a]] = issued[RealmOf[a]]
    BY <1>1, ConstantsAssumption DEF IInv, TypeOK, Issue
  <2>2. SUFFICES ASSUME NEW a \in Manager \ Rotating, NEW t \in issued[RealmOf[a]]
                 PROVE  \E i \in listed' : key'[i] = <<RealmOf[a], t>>
    BY <2>1 DEF JobsOK
  <2>3. PICK i \in listed : key[i] = <<RealmOf[a], t>>
    BY DEF IInv, JobsOK
  <2> QED
    BY <1>3, <2>3
<1>7. StartedOK'
  BY DEF StartedOK
<1> QED
  BY <1>3, <1>4, <1>5, <1>6, <1>7 DEF IInv

LEMMA CreateFailsInv ==
  ASSUME IInv, NEW m \in Manager, CreateFails(m)
  PROVE  IInv'
<1> USE DEF CreateFails
<1>1. TypeOK'
  BY ConstantsAssumption DEF IInv, TypeOK, store, hashers
<1>2. HasherOK' /\ ExclusiveLease' /\ VmOK' /\ ListOK'
  <2>1. \A j \in doomed : gone[j] = Vm
    BY DisposedIsGone DEF IInv
  <2> QED
    BY <2>1, IdleInv
<1>3. DistinctOK' /\ GenerationOK' /\ JobsOK' /\ StartedOK'
  BY DEF IInv, DistinctOK, GenerationOK, Owns, JobsOK, StartedOK, store
<1> QED
  BY <1>1, <1>2, <1>3 DEF IInv

LEMMA NewEpochInv ==
  ASSUME IInv, NEW m \in Manager, NEW s \in Seed, NewEpoch(m, s)
  PROVE  IInv'
<1> USE DEF NewEpoch
<1> DEFINE r == RealmOf[m]
<1>1. doomed = {} /\ r \in Realm
  BY ConstantsAssumption DEF IInv, ListOK
<1>2. /\ HasherOK' /\ ExclusiveLease' /\ VmOK' /\ ListOK' /\ DistinctOK'
      /\ listed' \subseteq Collection
      /\ key' \in [Collection -> Key \cup {NoKey}]
      /\ free' \in [Collection -> SUBSET Vm]
      /\ gone' \in [Collection -> SUBSET Vm]
      /\ \A j \in listed : j \in listed' /\ key'[j] = key[j]
      /\ \A j \in listed' : j \in listed \/ key'[j] = <<r, s>>
      /\ \E j \in listed' : key'[j] = <<r, s>>
  BY <1>1, CreateSeedInv
<1>3. TypeOK'
  BY <1>1, <1>2 DEF IInv, TypeOK, Issue, hashers
<1>4. GenerationOK'
  <2>1. SUFFICES ASSUME NEW i \in listed', NEW q \in Rotating, key'[i][1] = RealmOf[q]
                 PROVE  \E n \in Manager : Owns(n, i)'
    BY <1>1 DEF GenerationOK
  <2>2. RealmOf[q] # r
    BY ConstantsAssumption
  <2>3. i \in listed /\ key'[i] = key[i]
    BY <1>2, <2>1, <2>2
  <2>4. PICK n \in Manager : Owns(n, i)
    BY <2>1, <2>3 DEF IInv, GenerationOK
  <2>5. n # m /\ current'[n] = current[n]
    BY <2>4 DEF Owns, IInv, TypeOK
  <2> QED
    BY <2>3, <2>4, <2>5 DEF Owns
<1>5. JobsOK'
  <2>1. \A q \in Realm : issued'[q] = IF q = r THEN issued[r] \cup {s} ELSE issued[q]
    BY <1>1 DEF IInv, TypeOK, Issue
  <2>2. SUFFICES ASSUME NEW a \in Manager \ Rotating, NEW t \in issued'[RealmOf[a]]
                 PROVE  \E i \in listed' : key'[i] = <<RealmOf[a], t>>
    BY DEF JobsOK
  <2>3. RealmOf[a] \in Realm
    BY ConstantsAssumption
  <2>4. t \in issued[RealmOf[a]] \/ (RealmOf[a] = r /\ t = s)
    BY <2>1, <2>2, <2>3
  <2> QED
    BY <1>2, <2>4 DEF IInv, JobsOK
<1>6. StartedOK'
  BY DEF StartedOK
<1> QED
  BY <1>2, <1>3, <1>4, <1>5, <1>6 DEF IInv

LEMMA GetSeedInv ==
  ASSUME IInv, NEW h \in Hasher, NEW r \in Realm, NEW s \in Seed, GetSeed(h, r, s)
  PROVE  IInv'
<1> USE DEF GetSeed, store, manager
<1>1. PICK i \in listed : key[i] = <<r, s>> /\ col' = [col EXCEPT ![h] = i]
  BY DEF Find
<1>2. TypeOK'
  BY <1>1 DEF IInv, TypeOK, Key
<1>3. HasherOK'
  BY <1>1 DEF IInv, TypeOK, HasherOK
<1>4. ExclusiveLease'
  BY <1>1 DEF IInv, TypeOK, ExclusiveLease
<1>5. VmOK'
  <2>1. \A g \in Hasher, j \in Collection, w \in Vm : Leasing(g, j, w) => Leasing(g, j, w)'
    BY <1>1 DEF IInv, TypeOK, Leasing
  <2> QED
    BY <2>1 DEF IInv, VmOK
<1>6. ListOK' /\ DistinctOK' /\ GenerationOK' /\ JobsOK' /\ StartedOK'
  BY DEF IInv, ListOK, DistinctOK, GenerationOK, Owns, JobsOK, StartedOK
<1> QED
  BY <1>2, <1>3, <1>4, <1>5, <1>6 DEF IInv

LEMMA TakeInv ==
  ASSUME IInv, NEW h \in Hasher, NEW v \in Vm, Take(h, v)
  PROVE  IInv'
<1> USE DEF Take, manager
<1> DEFINE i == col[h]
<1>1. i \in Collection /\ v \notin gone[i] /\ key[i] = want[h]
  BY DEF IInv, HasherOK, VmOK
<1>2. free'[i] = free[i] \ {v} /\ \A j \in Collection \ {i} : free'[j] = free[j]
  BY <1>1 DEF IInv, TypeOK
<1>3. TypeOK'
  BY <1>1 DEF IInv, TypeOK
<1>4. \A g \in Hasher \ {h} : pc'[g] = pc[g] /\ vm'[g] = vm[g]
  BY DEF IInv, TypeOK
<1>5. pc'[h] = "hash" /\ vm'[h] = v
  BY DEF IInv, TypeOK
<1>6. HasherOK'
  <2>1. SUFFICES ASSUME NEW g \in Hasher
        PROVE (/\ pc[g] = "idle" => col[g] = 0
               /\ pc[g] # "idle" => col[g] \in Collection /\ key[col[g]] = want[g]
               /\ pc[g] = "hash" => /\ vm[g] \in Vm
                                    /\ vm[g] \notin free[col[g]]
                                    /\ vm[g] \notin gone[col[g]])'
    BY DEF HasherOK
  <2>2. CASE g = h
    BY <1>1, <1>2, <1>5, <2>2
  <2>3. CASE g # h
    BY <1>1, <1>2, <1>4, <2>3 DEF IInv, HasherOK
  <2> QED
    BY <2>2, <2>3
<1>7. ExclusiveLease'
  BY <1>1, <1>4, <1>5 DEF IInv, HasherOK, ExclusiveLease
<1>8. VmOK'
  <2>1. \A g \in Hasher, j \in Collection, w \in Vm : Leasing(g, j, w) => Leasing(g, j, w)'
    BY <1>4, <1>5 DEF Leasing
  <2>2. Leasing(h, i, v)'
    BY <1>5 DEF Leasing
  <2> QED
    BY <1>1, <1>2, <2>1, <2>2 DEF IInv, VmOK
<1>9. ListOK'
  BY DEF IInv, ListOK
<1>10. DistinctOK' /\ GenerationOK' /\ JobsOK' /\ StartedOK'
  BY DEF IInv, DistinctOK, GenerationOK, Owns, JobsOK, StartedOK
<1> QED
  BY <1>3, <1>6, <1>7, <1>8, <1>9, <1>10 DEF IInv

LEMMA ReturnInv ==
  ASSUME IInv, NEW h \in Hasher, Return(h)
  PROVE  IInv'
<1> USE DEF Return, manager
<1> DEFINE i == col[h]
<1>1. i \in Collection /\ vm[h] \in Vm /\ vm[h] \notin gone[i]
  BY DEF IInv, HasherOK
<1>2. free'[i] = free[i] \cup {vm[h]} /\ \A j \in Collection \ {i} : free'[j] = free[j]
  BY <1>1 DEF IInv, TypeOK
<1>3. TypeOK'
  BY <1>1 DEF IInv, TypeOK
<1>4. \A g \in Hasher \ {h} :
        pc'[g] = pc[g] /\ vm'[g] = vm[g] /\ col'[g] = col[g] /\ want'[g] = want[g]
  BY DEF IInv, TypeOK
<1>5. pc'[h] = "idle" /\ col'[h] = 0
  BY DEF IInv, TypeOK
<1>6. HasherOK'
  <2>1. \A g \in Hasher \ {h} : pc[g] = "hash" /\ col[g] = i => vm[g] # vm[h]
    BY DEF IInv, ExclusiveLease
  <2> QED
    BY <1>1, <1>2, <1>4, <1>5, <2>1 DEF IInv, HasherOK
<1>7. ExclusiveLease'
  BY <1>4, <1>5 DEF IInv, ExclusiveLease
<1>8. VmOK'
  <2>1. \A g \in Hasher \ {h}, j \in Collection, w \in Vm : Leasing(g, j, w) => Leasing(g, j, w)'
    BY <1>4 DEF Leasing
  <2>2. \A j \in Collection, w \in Vm : Leasing(h, j, w) => j = i /\ w = vm[h]
    BY DEF Leasing
  <2> QED
    BY <1>1, <1>2, <2>1, <2>2 DEF IInv, VmOK
<1>9. ListOK'
  BY DEF IInv, ListOK
<1>10. DistinctOK' /\ GenerationOK' /\ JobsOK' /\ StartedOK'
  BY DEF IInv, DistinctOK, GenerationOK, Owns, JobsOK, StartedOK
<1> QED
  BY <1>3, <1>6, <1>7, <1>8, <1>9, <1>10 DEF IInv

LEMMA InitIInv == Init => IInv
<1>1. SUFFICES ASSUME Init PROVE IInv
  OBVIOUS
<1>2. TypeOK
  BY <1>1, ConstantsAssumption DEF Init, TypeOK
<1>3. HasherOK /\ ExclusiveLease
  BY <1>1 DEF Init, HasherOK, ExclusiveLease
<1>4. VmOK
  BY <1>1 DEF Init, VmOK
<1>5. ListOK /\ DistinctOK /\ GenerationOK /\ JobsOK /\ StartedOK
  BY <1>1, ConstantsAssumption DEF Init, ListOK, DistinctOK, GenerationOK, JobsOK, StartedOK
<1> QED
  BY <1>2, <1>3, <1>4, <1>5 DEF IInv

LEMMA NewJobInv ==
  ASSUME IInv, NEW m \in Manager, NewJob(m)
  PROVE  IInv'
<1>1. TypeOK'
  BY ConstantsAssumption DEF IInv, TypeOK, NewJob, Issue, store, hashers
<1>2. HasherOK' /\ ExclusiveLease' /\ ListOK' /\ DistinctOK' /\ GenerationOK' /\ StartedOK'
  BY DEF IInv, HasherOK, ExclusiveLease, ListOK, DistinctOK, GenerationOK, Owns, StartedOK, NewJob, store, hashers
<1>3. VmOK'
  BY DEF IInv, VmOK, Leasing, NewJob, store, hashers
<1>4. JobsOK'
  <2>1. \A a \in Manager \ Rotating : issued'[RealmOf[a]] = issued[RealmOf[a]]
    BY ConstantsAssumption DEF IInv, TypeOK, NewJob, Issue
  <2> QED
    BY <2>1 DEF IInv, JobsOK, NewJob, store
<1> QED
  BY <1>1, <1>2, <1>3, <1>4 DEF IInv

LEMMA NextIInv == IInv /\ [Next]_vars => IInv'
<1>1. SUFFICES ASSUME IInv, [Next]_vars PROVE IInv'
  OBVIOUS
<1>2. ASSUME NEW m \in Manager, ManagerStep(m) PROVE IInv'
  BY <1>1, <1>2, DisposeInv, FinishRotationInv, CreateFailsInv DEF ManagerStep
<1>3. ASSUME NEW h \in Hasher, HasherStep(h) PROVE IInv'
  <2>1. ASSUME NEW v \in Vm, Take(h, v) PROVE IInv'
    BY <1>1, <2>1, TakeInv
  <2>2. CASE Return(h)
    BY <1>1, <2>2, ReturnInv
  <2> QED
    BY <1>3, <2>1, <2>2 DEF HasherStep
<1>4. ASSUME NEW m \in Manager, NewJob(m) PROVE IInv'
  BY <1>1, <1>4, NewJobInv
<1>5. ASSUME NEW m \in Manager, NEW s \in Seed, Template(m, s) PROVE IInv'
  BY <1>1, <1>5, BeginRotationInv, NewEpochInv DEF Template
<1>6. CASE UNCHANGED vars
  <2> USE <1>6 DEF vars, store, manager, hashers
  <2>1. TypeOK' /\ HasherOK' /\ ExclusiveLease'
    BY <1>1 DEF IInv, TypeOK, HasherOK, ExclusiveLease
  <2>2. VmOK'
    BY <1>1 DEF IInv, VmOK, Leasing
  <2>3. ListOK' /\ DistinctOK' /\ GenerationOK' /\ JobsOK' /\ StartedOK'
    BY <1>1 DEF IInv, ListOK, DistinctOK, GenerationOK, Owns, JobsOK, StartedOK
  <2> QED
    BY <2>1, <2>2, <2>3 DEF IInv
<1>7. ASSUME NEW h \in Hasher, NEW r \in Realm, NEW s \in Seed, Share(h, r, s) PROVE IInv'
  BY <1>1, <1>6, <1>7, GetSeedInv DEF Share, SeedMissing
<1> QED
  BY <1>1, <1>2, <1>3, <1>4, <1>5, <1>6, <1>7 DEF Next

LEMMA Invariance == Spec => []IInv
BY InitIInv, NextIInv, PTL DEF Spec

\* The types of the state variables.
THEOREM TypeCorrect == Spec => []TypeOK
<1>1. IInv => TypeOK
  BY DEF IInv
<1> QED
  BY <1>1, Invariance, PTL

\* A machine is leased to one thread at a time.
THEOREM LeasesAreExclusive == Spec => []ExclusiveLease
<1>1. IInv => ExclusiveLease
  BY DEF IInv
<1> QED
  BY <1>1, Invariance, PTL

\* No thread hashes on a machine that was disposed of.
THEOREM DisposedIsNeverUsed == Spec => []NoUseAfterDispose
<1>1. IInv => NoUseAfterDispose
  BY DEF IInv, HasherOK, NoUseAfterDispose
<1> QED
  BY <1>1, Invariance, PTL

\* Every hash is computed with the seed of the job.
THEOREM SeedsAreNeverMixed == Spec => []HashesOwnSeed
<1>1. IInv => HashesOwnSeed
  BY DEF IInv, HasherOK, HashesOwnSeed
<1> QED
  BY <1>1, Invariance, PTL

\* A listed collection never runs dry for good.
THEOREM OnlyRotationsStrand == Spec => []StrandedOnlyByRotation
<1>1. ASSUME IInv PROVE StrandedOnlyByRotation
  <2>1. SUFFICES ASSUME NEW h \in Hasher, pc[h] = "wait",
                        free[col[h]] = {}, Leased(col[h]) = {},
                        col[h] \in listed
                 PROVE  FALSE
    BY DEF StrandedOnlyByRotation
  <2>2. col[h] \in Collection /\ gone[col[h]] = {}
    BY <1>1, <2>1 DEF IInv, HasherOK, ListOK
  <2>3. PICK v \in Vm : TRUE
    BY ConstantsAssumption
  <2>4. \E g \in Hasher : Leasing(g, col[h], v)
    BY <1>1, <2>1, <2>2 DEF IInv, VmOK
  <2> QED
    BY <2>1, <2>4 DEF Leased
<1> QED
  BY <1>1, Invariance, PTL

\* The manager that collection i of a Cryptonote realm is held for: one whose seed it
\* has, or the one that disposes of it.
HeldFor(n, i) == IF i \in doomed THEN n \in lock ELSE Owns(n, i)

\* A realm holds the machines of at most one seed for each pool that shares it: no two
\* collections are held for the same manager.
THEOREM MemoryIsBounded == Spec => []OneGeneration
<1>1. ASSUME IInv PROVE OneGeneration
  <2>1. SUFFICES ASSUME NEW m \in Rotating
                 PROVE  Cardinality(InUse(RealmOf[m])) <= Cardinality(Sharing(RealmOf[m]))
    BY DEF OneGeneration
  <2> DEFINE r == RealmOf[m]
  <2> DEFINE f == [i \in InUse(r) |-> CHOOSE n \in Sharing(r) : HeldFor(n, i)]
  <2>2. ASSUME NEW i \in InUse(r) PROVE \E n \in Sharing(r) : HeldFor(n, i)
    <3>1. key[i][1] = r /\ (i \in listed \/ i \in doomed)
      BY <1>1, <2>2 DEF IInv, ListOK, InUse
    <3>2. CASE i \in listed
      <4>1. PICK n \in Manager : Owns(n, i)
        BY <1>1, <3>1, <3>2 DEF IInv, GenerationOK
      <4>2. n \in Rotating /\ RealmOf[n] = r
        BY <3>1, <4>1 DEF Owns
      <4> QED
        BY <1>1, <3>2, <4>1, <4>2 DEF HeldFor, Sharing, IInv, ListOK
    <3>3. CASE i \in doomed
      <4>1. PICK n \in lock : TRUE
        BY <1>1, <3>3 DEF IInv, ListOK
      <4>2. n \in Rotating /\ RealmOf[n] = r
        BY <1>1, <3>1, <3>3 DEF IInv, TypeOK, GenerationOK
      <4> QED
        BY <3>3, <4>2 DEF HeldFor, Sharing
    <3> QED
      BY <3>1, <3>2, <3>3
  <2>3. ASSUME NEW i \in InUse(r), NEW j \in InUse(r), NEW n \in Sharing(r),
               HeldFor(n, i), HeldFor(n, j)
        PROVE  i = j
    <3>1. /\ i \in listed \/ i \in doomed
          /\ j \in listed \/ j \in doomed
      BY <1>1, <2>3 DEF IInv, ListOK, InUse
    <3>2. CASE n \in lock
      <4>1. i \in doomed /\ j \in doomed
        BY <2>3, <3>2 DEF HeldFor, Owns
      <4> QED
        BY <1>1, <4>1 DEF IInv, GenerationOK
    <3>3. CASE n \notin lock
      <4>1. i \notin doomed /\ j \notin doomed /\ key[i] = key[j]
        BY <2>3, <3>3 DEF HeldFor, Owns
      <4> QED
        BY <1>1, <3>1, <4>1 DEF IInv, DistinctOK
    <3> QED
      BY <3>2, <3>3
  <2>4. \A i \in InUse(r) : f[i] \in Sharing(r) /\ HeldFor(f[i], i)
    BY <2>2
  <2>5. f \in Injection(InUse(r), Sharing(r))
    <3>1. f \in [InUse(r) -> Sharing(r)]
      BY <2>4
    <3>2. \A i, j \in InUse(r) : f[i] = f[j] => i = j
      BY <2>3, <2>4
    <3> HIDE DEF f
    <3> QED
      BY <3>1, <3>2, Fun_IsInj
  <2>6. IsFiniteSet(Sharing(r))
    BY ConstantsAssumption, FS_Subset DEF Sharing
  <2> HIDE DEF f
  <2> QED
    BY <2>5, <2>6, FS_Injection
<1> QED
  BY <1>1, Invariance, PTL

\* No Alpha share is lost because the machines of its job are gone.
THEOREM AlphaJobsStayHashable == Spec => []OldJobsStayHashable
<1>1. IInv => OldJobsStayHashable
  BY DEF IInv, JobsOK, OldJobsStayHashable, Find
<1> QED
  BY <1>1, Invariance, PTL

\* A manager that keeps its seed, its collections and the lock does not become unready.
LEMMA StaysReady ==
  ASSUME NEW m \in Manager,
         current'[m] = current[m],
         \A i \in listed : key[i] = <<RealmOf[m], current[m]>> => i \in listed' /\ key'[i] = key[i],
         m \in lock => m \in lock',
         Unready(m)'
  PROVE  Unready(m)
<1>1. m \notin lock /\ current[m] # NoSeed
  BY DEF Unready
<1>2. Find(RealmOf[m], current[m]) = {}
  BY DEF Unready, Find
<1> QED
  BY <1>1, <1>2 DEF Unready

\* Only a manager of the same realm, with the same seed, takes a manager's collection.
LEMMA BeginRotationReady ==
  ASSUME IInv, NEW q \in Manager, NEW s \in Seed, BeginRotation(q, s),
         NEW m \in Manager, Unready(m)', ~Unready(m)
  PROVE  SharerMovesOn(m)
<1>1. m # q /\ lock = {} /\ q \in Rotating
  BY DEF Unready, BeginRotation
<1>2. current'[m] = current[m]
  BY <1>1 DEF IInv, TypeOK, BeginRotation
<1>3. CASE RealmOf[q] = RealmOf[m] /\ current[q] = current[m]
  BY <1>1, <1>3 DEF SharerMovesOn
<1>4. CASE ~(RealmOf[q] = RealmOf[m] /\ current[q] = current[m])
  <2>1. \A i \in listed : key[i] = <<RealmOf[m], current[m]>> => i \in listed' /\ key'[i] = key[i]
    BY <1>4 DEF BeginRotation, Find
  <2> QED
    BY <1>1, <1>2, <2>1, StaysReady
<1> QED
  BY <1>3, <1>4

LEMMA FinishRotationReady ==
  ASSUME IInv, NEW q \in Manager, FinishRotation(q), NEW m \in Manager, Unready(m)'
  PROVE  Unready(m)
<1>1. /\ current' = current /\ lock = {q} /\ lock' = {} /\ doomed' = {}
      /\ UNCHANGED hashers
      /\ CreateSeed(RealmOf[q], current[q])
      /\ current[q] \in Seed /\ RealmOf[q] \in Realm
      /\ \A j \in doomed : gone[j] = Vm
  BY DisposedIsGone, ConstantsAssumption DEF FinishRotation, IInv, StartedOK
<1>2. /\ \A j \in listed : j \in listed' /\ key'[j] = key[j]
      /\ \E j \in listed' : key'[j] = <<RealmOf[q], current[q]>>
  BY <1>1, CreateSeedInv
<1>3. m # q
  BY <1>1, <1>2 DEF Unready, Find
<1> QED
  BY <1>1, <1>2, <1>3, StaysReady

LEMMA NewEpochReady ==
  ASSUME IInv, NEW q \in Manager, NEW s \in Seed, NewEpoch(q, s),
         NEW m \in Manager, Unready(m)'
  PROVE  Unready(m)
<1>1. lock = {} /\ \A p \in Manager : current'[p] = IF p = q THEN s ELSE current[p]
  BY DEF NewEpoch, IInv, TypeOK
<1>2. doomed = {} /\ doomed' = {} /\ lock' = {} /\ UNCHANGED hashers
      /\ RealmOf[q] \in Realm /\ CreateSeed(RealmOf[q], s)
  BY <1>1, ConstantsAssumption DEF NewEpoch, IInv, ListOK
<1>3. /\ \A j \in listed : j \in listed' /\ key'[j] = key[j]
      /\ \E j \in listed' : key'[j] = <<RealmOf[q], s>>
  BY <1>2, CreateSeedInv
<1>4. m # q
  BY <1>1, <1>3 DEF Unready, Find
<1> QED
  BY <1>1, <1>3, <1>4, StaysReady

\* The steps that leave the dictionary, the seeds and the lock alone.
LEMMA QuietReady ==
  ASSUME UNCHANGED <<listed, key, lock, current>>, NEW m \in Manager, Unready(m)'
  PROVE  Unready(m)
BY StaysReady

LEMMA ManagerReady ==
  ASSUME IInv, NEW q \in Manager, ManagerStep(q), NEW m \in Manager, Unready(m)', ~Unready(m)
  PROVE  CreateFails(m)
<1>1. ASSUME NEW v \in Vm, Dispose(q, v) PROVE FALSE
  BY <1>1, QuietReady DEF Dispose, manager
<1>2. CASE FinishRotation(q)
  BY <1>2, FinishRotationReady
<1>3. CASE CreateFails(q)
  <2>1. UNCHANGED <<listed, key, current>> /\ lock = {q}
    BY <1>3 DEF CreateFails, store
  <2>2. CASE m = q
    BY <1>3, <2>2
  <2>3. CASE m # q
    BY <2>1, <2>3, StaysReady
  <2> QED
    BY <2>2, <2>3
<1> QED
  BY <1>1, <1>2, <1>3 DEF ManagerStep

LEMMA HasherReady ==
  ASSUME NEW h \in Hasher, HasherStep(h)
  PROVE  UNCHANGED <<listed, key, lock, current>>
BY DEF HasherStep, Take, Return, manager

LEMMA NextReady ==
  ASSUME IInv, [Next]_vars, NEW m \in Manager, Unready(m)', ~Unready(m)
  PROVE  CreateFails(m) \/ SharerMovesOn(m)
<1>1. ASSUME NEW q \in Manager, ManagerStep(q) PROVE CreateFails(m)
  BY <1>1, ManagerReady
<1>2. ASSUME NEW q \in Manager, NewJob(q) PROVE FALSE
  BY <1>2, QuietReady DEF NewJob, store
<1>3. ASSUME NEW h \in Hasher, HasherStep(h) PROVE FALSE
  BY <1>3, HasherReady, QuietReady
<1>4. ASSUME NEW q \in Manager, NEW s \in Seed, Template(q, s) PROVE SharerMovesOn(m)
  BY <1>4, BeginRotationReady, NewEpochReady DEF Template
<1>5. CASE UNCHANGED vars
  BY <1>5, QuietReady DEF vars, store, manager
<1>6. ASSUME NEW h \in Hasher, NEW r \in Realm, NEW s \in Seed, Share(h, r, s) PROVE FALSE
  BY <1>5, <1>6, QuietReady DEF Share, GetSeed, SeedMissing, vars, store, manager
<1> QED
  BY <1>1, <1>2, <1>3, <1>4, <1>5, <1>6 DEF Next

\* A manager is left without machines for its current seed only when creating them
\* fails, or when a pool that shares its realm and its seed moves on.
THEOREM MachinesAreNotLost == Spec => UnreadyOnlyByFailure
<1>1. IInv /\ [Next]_vars =>
        [\A m \in Manager : Unready(m)' /\ ~Unready(m) => CreateFails(m) \/ SharerMovesOn(m)]_vars
  BY NextReady
<1> QED
  BY <1>1, Invariance, PTL DEF Spec, UnreadyOnlyByFailure

\* A manager that holds the lock can go on at once, or a thread that waits for nothing
\* hashes on a machine that it still has to dispose of.
RotationGoesOn ==
  \A m \in lock :
    \/ Disposed
    \/ \E i \in doomed : \E v \in Vm : v \in free[i] \/ \E h \in Hasher : Leasing(h, i, v)

\* The lock is never held for good for want of a machine: what DeleteSeed waits for
\* is always in use by a thread that will put it back (the safety side of LockReleased).
THEOREM RotationIsNeverStuck == Spec => []RotationGoesOn
<1>1. ASSUME IInv PROVE RotationGoesOn
  <2>1. SUFFICES ASSUME NEW i \in doomed, Cardinality(gone[i]) # Cardinality(Vm)
                 PROVE  \E v \in Vm : v \in free[i] \/ \E h \in Hasher : Leasing(h, i, v)
    BY DEF RotationGoesOn, Disposed
  <2>2. i \in Collection /\ gone[i] \subseteq Vm
    BY <1>1, <2>1 DEF IInv, TypeOK
  <2>3. gone[i] # Vm
    BY <2>1
  <2>4. PICK v \in Vm : v \notin gone[i]
    BY <2>2, <2>3
  <2> QED
    BY <1>1, <2>2, <2>4 DEF IInv, VmOK
<1> QED
  BY <1>1, Invariance, PTL
=============================================================================
