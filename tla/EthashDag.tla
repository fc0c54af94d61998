------------------------------- MODULE EthashDag -------------------------------
(***************************************************************************)
(* The DAGs of an Ethash pool: the cache of `Dag` objects (EthashFull.cs), *)
(* their generation under one semaphore (Dag.cs) and the files that hold   *)
(* them (libethhash: internal.c, io.c).                                    *)
(*                                                                         *)
(* A request finds or makes the Dag of its epoch under the cache lock, and *)
(* generates it, or waits for whoever does, outside of it; then it hashes  *)
(* on it without any lock.  A hit may also start to generate the DAG of    *)
(* the next epoch in the background.  Generating takes the semaphore, maps *)
(* the epoch's file when it has the right size and the magic number, and   *)
(* otherwise truncates it, extends it, fills it through the mapping and    *)
(* writes the magic number last.  The process may die between two steps;   *)
(* the files stay.                                                         *)
(*                                                                         *)
(* A Dag is its epoch and a number, reused once nothing refers to the Dag. *)
(***************************************************************************)
EXTENDS Naturals, FiniteSets

CONSTANTS
  Sharer,     (* threads that validate shares                               *)
  Loader,     (* the start of the pool, which loads the current DAG         *)
  Copy,       (* bound: identities of the Dag objects of one epoch          *)
  None,       (* no Dag, or no actor                                        *)
  NumCaches,  (* Dags kept by the cache                                     *)
  Lag,        (* epochs that may begin while a request goes on              *)
  MaxEpoch,   (* bound: the last epoch that templates reach                 *)
  MaxFaults,  (* bound: failed generations and deaths of the process        *)
  PowerLoss   (* whether a death may lose what the kernel did not write     *)

ASSUME ConstantsAssumption ==
  /\ Copy \subseteq Nat
  /\ Sharer \cap (Nat \X Copy) = {}
  /\ Loader \notin Sharer \cup (Nat \X Copy)
  /\ None \notin Sharer \cup {Loader} \cup (Nat \X Copy)
  /\ Lag \in Nat
  /\ NumCaches \in Nat \ {0}
  /\ MaxEpoch \in Nat
  /\ MaxFaults \in Nat
  /\ PowerLoss \in BOOLEAN

VARIABLES
  file,    (* the file of each epoch: its size, magic number, and data      *)
  open,    (* Dags whose handle is not zero                                 *)
  fulls,   (* ethash_full objects made for each Dag and not deleted         *)
  dropped, (* Dags given up with no one left to dispose of them             *)
  cached,  (* caches.Values                                                 *)
  older,   (* pairs of them: the LastUsed of the first is the smaller one   *)
  future,  (* the pre-generated Dag, or None                                *)
  sem,     (* the actor that holds the semaphore, or None                   *)
  pc,      (* where each actor is                                           *)
  on,      (* the Dag it works on, or None                                  *)
  tip,     (* epoch of the current block template                           *)
  faults   (* number of faults so far (bound only)                          *)

dags  == <<open, fulls, dropped>>
lru   == <<cached, older, future>>
ctl   == <<sem, pc, on>>
vars  == <<file, dags, lru, ctl, tip, faults>>

Epoch == 0 .. MaxEpoch + 1
Dag == Epoch \X Copy
EpochOf(d) == d[1]
Request == Sharer \cup {Loader}
\* A Dag is also the name of the background task that generates it.
Actor == Request \cup Dag

\* Where an actor holds the semaphore.
Generating == {"prepare", "extend", "fill", "magic", "return", "throw"}

Absent    == [size |-> "none",  magic |-> FALSE, filled |-> FALSE]
Truncated == [size |-> "short", magic |-> FALSE, filled |-> FALSE]
Extended  == [size |-> "right", magic |-> FALSE, filled |-> FALSE]
Filled    == [size |-> "right", magic |-> FALSE, filled |-> TRUE]
Complete  == [size |-> "right", magic |-> TRUE,  filled |-> TRUE]
FileState == {Absent, Truncated, Extended, Filled, Complete}

Referenced(d) == d \in cached \/ d = future \/ \E a \in Actor : on[a] = d
Spare(e) == {i \in Copy : ~Referenced(<<e, i>>)}
\* The Dag that `new Dag(e)` makes, in the place of one that is garbage.
New(e) == {<<e, i>> : i \in {j \in Spare(e) : \A k \in Spare(e) : j <= k}}

Init ==
  /\ file = [e \in Epoch |-> Absent]
  /\ open = {}
  /\ fulls = [d \in Dag |-> 0]
  /\ dropped = {}
  /\ cached = {}
  /\ older = {}
  /\ future = None
  /\ sem = None
  /\ pc = [a \in Actor |-> "idle"]
  /\ on = [a \in Actor |-> None]
  /\ tip = 0
  /\ faults = 0

Fault == faults < MaxFaults /\ faults' = faults + 1

-----------------------------------------------------------------------------
(* EthashFull.GetDagAsync: one step, inside the cache lock. *)

\* The pool loads the DAG of the current template before it makes jobs; then
\* shares come for those jobs, the oldest of which may be of the epoch before.
Asks(a, e) ==
  /\ pc[a] = "idle"
  /\ \/ a = Loader /\ e = tip
     \/ a \in Sharer /\ pc[Loader] = "loaded" /\ e <= tip /\ e + 1 >= tip

\* A future is made when there is none, or when it is not of a later epoch.
FutureUsedUp(e) == future \notin {d \in Dag : EpochOf(d) > e}

\* GenerateAsync looks at the handle at once, and hands over to a task if it is
\* zero.  (A Dag evicted in between would be generated again: it is not in use
\* then, or ComputesOnOpenDag fails.)
First(d) == IF d \in open THEN "hash" ELSE "queue"

\* Of the Dags `kept`, and d, which may be new to them, d is used last.
Use(kept, d) ==
  /\ cached' = kept \cup {d}
  /\ older' = (older \cap ((kept \ {d}) \X (kept \ {d}))) \cup ((kept \ {d}) \X {d})

Hit(a, e) ==
  /\ Asks(a, e)
  /\ ~FutureUsedUp(e)
  /\ \E d \in cached :
       /\ EpochOf(d) = e
       /\ Use(cached, d)
       /\ on' = [on EXCEPT ![a] = d]
       /\ pc' = [pc EXCEPT ![a] = First(d)]
  /\ UNCHANGED <<file, dags, future, sem, tip, faults>>

\* The replaced future is not disposed of.
HitAndPregenerate(a, e) ==
  /\ Asks(a, e)
  /\ FutureUsedUp(e)
  /\ \E d \in cached, n \in New(e + 1) :
       /\ EpochOf(d) = e
       /\ Use(cached, d)
       /\ future' = n
       /\ open' = open \ {n}
       /\ fulls' = [fulls EXCEPT ![n] = 0]
       /\ dropped' = (dropped \cup {future}) \ {None, n}
       /\ on' = [on EXCEPT ![a] = d, ![n] = n]
       /\ pc' = [pc EXCEPT ![a] = First(d), ![n] = "queue"]
  /\ UNCHANGED <<file, sem, tip, faults>>

\* Mutant: OrderByDescending.
UsedLast(c) == \A d \in cached \ {c} : <<d, c>> \in older
UsedFirst(c) == \A d \in cached \ {c} : <<c, d>> \in older
\* The Dag least recently used makes place for a new one, and is disposed of.
Evicted == {c \in cached : UsedFirst(c) /\ Cardinality(cached) >= NumCaches}
Kept == cached \ Evicted
\* Its handle is still zero, and someone is about to set it.
Pending(d) == \E a \in Actor : on[a] = d /\ pc[a] \in {"queue"} \cup Generating

Miss(e) == \A d \in cached : EpochOf(d) # e
FutureIsFor(e) == future \in {d \in Dag : EpochOf(d) = e}

\* The Dag made in advance is taken, whether or not it is generated by now.
MissUsesFuture(a, e) ==
  /\ Asks(a, e)
  /\ Miss(e)
  /\ FutureIsFor(e)
  /\ Use(Kept, future)
  /\ future' = None
  /\ open' = open \ Evicted
  /\ fulls' = [d \in Dag |-> IF d \in Evicted \cap open THEN fulls[d] - 1 ELSE fulls[d]]
  /\ dropped' = dropped \cup {d \in Evicted : Pending(d)}
  /\ on' = [on EXCEPT ![a] = future]
  /\ pc' = [pc EXCEPT ![a] = First(future)]
  /\ UNCHANGED <<file, sem, tip, faults>>

MissMakesDag(a, e) ==
  /\ Asks(a, e)
  /\ Miss(e)
  /\ ~FutureIsFor(e)
  /\ \E n \in New(e) :
       /\ Use(Kept, n)
       /\ open' = open \ (Evicted \cup {n})
       /\ fulls' = [d \in Dag |-> IF d = n THEN 0
                                  ELSE IF d \in Evicted \cap open THEN fulls[d] - 1
                                  ELSE fulls[d]]
       /\ dropped' = (dropped \cup {d \in Evicted : Pending(d)}) \ {n}
       /\ on' = [on EXCEPT ![a] = n]
  /\ pc' = [pc EXCEPT ![a] = "queue"]
  /\ UNCHANGED <<file, future, sem, tip, faults>>

GetDag(a, e) ==
  \/ Hit(a, e)
  \/ HitAndPregenerate(a, e)
  \/ MissUsesFuture(a, e)
  \/ MissMakesDag(a, e)

-----------------------------------------------------------------------------
(* Dag.GenerateAsync, by a request or by the background task of a Dag. *)

\* Back in the request, or the end of a background task.
Served(a) == IF a \in Sharer THEN "hash" ELSE IF a = Loader THEN "loaded" ELSE "idle"
\* The exception refuses the share, fails the start, or is observed by no one.
Refused(a) == IF a = Loader THEN "down" ELSE "idle"
Leaves(a, state) ==
  /\ pc' = [pc EXCEPT ![a] = state]
  /\ on' = [on EXCEPT ![a] = IF state = "hash" THEN @ ELSE None]

\* Mutant: there is no second look.
AcquireBlindly(a) ==
  /\ pc[a] = "queue"
  /\ sem = None
  /\ sem' = a
  /\ pc' = [pc EXCEPT ![a] = "prepare"]
  /\ UNCHANGED <<file, dags, lru, on, tip, faults>>

\* The handle is looked at again, with the semaphore.
Acquire(a) ==
  /\ pc[a] = "queue"
  /\ sem = None
  /\ sem' = a
  /\ pc' = [pc EXCEPT ![a] = IF on[a] \in open THEN "return" ELSE "prepare"]
  /\ UNCHANGED <<file, dags, lru, on, tip, faults>>

\* ethash_full_new has succeeded: `handle` gets its result.
SetHandle(a) ==
  /\ open' = open \cup {on[a]}
  /\ fulls' = [fulls EXCEPT ![on[a]] = @ + 1]
  /\ pc' = [pc EXCEPT ![a] = "return"]

WithSize(f)  == [size |-> "right", magic |-> f.magic, filled |-> f.filled]
WithData(f)  == [size |-> f.size, magic |-> f.magic, filled |-> TRUE]
WithMagic(f) == [size |-> f.size, magic |-> TRUE, filled |-> f.filled]

FileOf(a) == file[EpochOf(on[a])]
Write(a, content) == file' = [file EXCEPT ![EpochOf(on[a])] = content]

\* Mutants: the size of the magic number is not subtracted; it is not compared.
MemoNever(f) == FALSE
MemoOfSize(f) == f.size = "right"
\* ethash_io_prepare: the size is right and the magic number is there.
MemoMatch(f) == f.size = "right" /\ f.magic

OpenExisting(a) ==
  /\ pc[a] = "prepare"
  /\ MemoMatch(FileOf(a))
  /\ SetHandle(a)
  /\ UNCHANGED <<file, dropped, lru, sem, on, tip, faults>>

\* A file that does not exist is created; one of the wrong size, or without the
\* magic number, is created again ("wb+" truncates it).
Create(a) ==
  /\ pc[a] = "prepare"
  /\ ~MemoMatch(FileOf(a))
  /\ Write(a, Truncated)
  /\ pc' = [pc EXCEPT ![a] = "extend"]
  /\ UNCHANGED <<dags, lru, sem, on, tip, faults>>

\* Mutant: the magic number is written when the file is made.
ExtendWithMagic(a) ==
  /\ pc[a] = "extend"
  /\ Write(a, WithMagic(WithSize(FileOf(a))))
  /\ pc' = [pc EXCEPT ![a] = "fill"]
  /\ UNCHANGED <<dags, lru, sem, on, tip, faults>>

\* One byte is written at its end; then it is mapped.
Extend(a) ==
  /\ pc[a] = "extend"
  /\ Write(a, WithSize(FileOf(a)))
  /\ pc' = [pc EXCEPT ![a] = "fill"]
  /\ UNCHANGED <<dags, lru, sem, on, tip, faults>>

\* ethash_compute_full_data runs to its end.
Fill(a) ==
  /\ pc[a] = "fill"
  /\ Write(a, WithData(FileOf(a)))
  /\ pc' = [pc EXCEPT ![a] = "magic"]
  /\ UNCHANGED <<dags, lru, sem, on, tip, faults>>

WriteMagic(a) ==
  /\ pc[a] = "magic"
  /\ Write(a, WithMagic(FileOf(a)))
  /\ SetHandle(a)
  /\ UNCHANGED <<dropped, lru, sem, on, tip, faults>>

\* ethash_full_new returns NULL: an I/O error, or the callback stops the filling
\* once the pool shuts down.  Closing the file may still write the magic number.
Fail(a) ==
  /\ pc[a] \in {"prepare", "extend", "fill", "magic"}
  /\ Fault
  /\ pc' = [pc EXCEPT ![a] = "throw"]
  /\ \/ UNCHANGED file
     \/ pc[a] = "magic" /\ Write(a, WithMagic(FileOf(a)))
  /\ UNCHANGED <<dags, lru, sem, on, tip>>

\* Mutant: the semaphore is released at the end of the try block.
ReleaseUnlessThrown(a) ==
  /\ pc[a] \in {"return", "throw"}
  /\ sem' = IF pc[a] = "return" THEN None ELSE sem
  /\ Leaves(a, IF pc[a] = "return" THEN Served(a) ELSE Refused(a))
  /\ UNCHANGED <<file, dags, lru, tip, faults>>

\* The finally block of the task, and what its end means to the caller.
Release(a) ==
  /\ pc[a] \in {"return", "throw"}
  /\ sem' = None
  /\ Leaves(a, IF pc[a] = "return" THEN Served(a) ELSE Refused(a))
  /\ UNCHANGED <<file, dags, lru, tip, faults>>

GenerateStep(a) ==
  \/ Acquire(a)
  \/ OpenExisting(a)
  \/ Create(a)
  \/ Extend(a)
  \/ Fill(a)
  \/ WriteMagic(a)
  \/ Release(a)

\* Dag.Compute returns.
EndCompute(s) ==
  /\ pc[s] = "hash"
  /\ Leaves(s, "idle")
  /\ UNCHANGED <<file, dags, lru, sem, tip, faults>>

-----------------------------------------------------------------------------
(* The chain and the machine. *)

\* An epoch takes days: a request outlives few of them (Lag).
Advance ==
  /\ tip < MaxEpoch
  /\ \A a \in Request : on[a] # None => tip < EpochOf(on[a]) + Lag
  /\ tip' = tip + 1
  /\ UNCHANGED <<file, dags, lru, ctl, faults>>

\* What may be left of a file when the machine loses its power: its pages and its
\* size reach the disk in any order, and nothing says when.
Remains(f) ==
  {g \in [size : {"none", "short", "right"}, magic : BOOLEAN, filled : BOOLEAN] :
     /\ g.size \in {"none", f.size} \cup (IF f.size = "right" THEN {"short"} ELSE {})
     /\ g.magic => f.magic /\ g.size = "right"
     /\ g.filled => f.filled /\ g.size = "right"}

\* The process starts: all but the files is new.
Start ==
  /\ open' = {}
  /\ fulls' = [d \in Dag |-> 0]
  /\ dropped' = {}
  /\ cached' = {}
  /\ older' = {}
  /\ future' = None
  /\ sem' = None
  /\ pc' = [a \in Actor |-> "idle"]
  /\ on' = [a \in Actor |-> None]

\* ... after it died.
Crash ==
  /\ Fault
  /\ IF PowerLoss
       THEN /\ file' \in [Epoch -> UNION {Remains(file[e]) : e \in Epoch}]
            /\ \A e \in Epoch : file'[e] \in Remains(file[e])
       ELSE UNCHANGED file
  /\ Start
  /\ UNCHANGED tip

\* ... after the pool could not load its DAG.
Restart ==
  /\ pc[Loader] = "down"
  /\ Start
  /\ UNCHANGED <<file, tip, faults>>

-----------------------------------------------------------------------------
Next ==
  \/ \E a \in Request, e \in Epoch : GetDag(a, e)
  \/ \E a \in Actor : GenerateStep(a)
  \/ \E a \in Actor : Fail(a)
  \/ \E s \in Sharer : EndCompute(s)
  \/ Advance
  \/ Crash
  \/ Restart

Spec == Init /\ [][Next]_vars

\* A share that can go on does, and some background task does when one can.  The
\* semaphore is not a queue, but each Dag is generated only once unless that fails.
Fairness ==
  /\ \A s \in Sharer : WF_vars(GenerateStep(s) \/ EndCompute(s))
  /\ WF_vars(\E d \in Dag : GenerateStep(d))

FairSpec == Spec /\ Fairness

-----------------------------------------------------------------------------
(* Properties. *)

\* Type invariant.
TypeOK ==
  /\ file \in [Epoch -> FileState]
  /\ open \subseteq Dag
  /\ fulls \in [Dag -> Nat]
  /\ dropped \subseteq Dag
  /\ cached \subseteq Dag
  /\ older \subseteq Dag \X Dag
  /\ future \in Dag \cup {None}
  /\ sem \in Actor \cup {None}
  /\ pc \in [Actor -> {"idle", "hash", "loaded", "down"} \cup {"queue"} \cup Generating]
  /\ on \in [Actor -> Dag \cup {None}]
  /\ tip \in 0..MaxEpoch
  /\ faults \in 0..MaxFaults

\* A thread hashes on a DAG that no eviction has disposed of: the Dag that is
\* least recently used is never one that a share still works with, although
\* nothing counts its users (EthashFull.cs:44, Dag.cs:128).
ComputesOnOpenDag == \A s \in Sharer : pc[s] = "hash" => on[s] \in open

\* The data a thread hashes on are complete, whatever became of the process that
\* wrote the file ("after the DAG has been filled then we finalize it by writting
\* the magic number at the beginning", internal.c:436).
ServedIsComplete ==
  \A s \in Sharer : pc[s] = "hash" => file[EpochOf(on[s])].filled

\* A handle is never overwritten by another, and a Dag whose handle is open can
\* be disposed of by the cache, will be taken from `future` or is in use; except
\* for the Dags that were dropped: a future that was replaced, and a Dag evicted
\* while it was being generated.
NoHandleLost ==
  \A d \in Dag :
    /\ fulls[d] = IF d \in open THEN 1 ELSE 0
    /\ d \in open => d \in cached \cup {future} \cup dropped

\* No file is truncated under a mapping that threads may hash on, though several
\* Dags of one epoch may exist and none knows of the others (io.c:97).
Mapped == {EpochOf(d) : d \in open}
NoTruncateWhileMapped ==
  [][\A e \in Mapped : file[e].size = "right" => file'[e].size = "right"]_vars

\* Every share is answered: the semaphore is released on every path.
SharesAnswered == \A s \in Sharer : pc[s] # "idle" ~> pc[s] = "idle"

\* Files, handles, caches and locks implement the promise of DagStore.
NoEpoch == MaxEpoch + 2
Store == INSTANCE DagStore WITH
  Thread <- Sharer,
  complete <- {e \in Epoch : file[e] = Complete},
  using <- [s \in Sharer |-> IF pc[s] = "hash" THEN EpochOf(on[s]) ELSE NoEpoch]
StoreSpec == Store!Spec
=============================================================================
