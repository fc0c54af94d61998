--------------------------- MODULE EthashDag_proofs ---------------------------
(***************************************************************************)
(* Proofs about EthashDag, for a machine that loses no written page        *)
(* (PowerLoss = FALSE) and every value of the other constants.             *)
(***************************************************************************)
EXTENDS EthashDag, FiniteSetTheorems, TLAPS

-----------------------------------------------------------------------------
(* The inductive invariant: only the holder of the semaphore writes, each  *)
(* stage of its work leaves the file in one state, it works on a Dag whose *)
(* handle is zero, and what is open, or hashed on, is complete.  What is   *)
(* open, or about to be opened, is known to someone who disposes of it, or *)
(* was dropped.                                                            *)

Tasked(a) == pc[a] \in {"queue"} \cup Generating
Held == \A a \in Actor : pc[a] \in Generating => sem = a
Working == \A a \in Actor : Tasked(a) \/ pc[a] = "hash" => on[a] \in Dag
Unopened ==
  \A a \in Actor : pc[a] \in {"prepare", "extend", "fill", "magic"} => on[a] \notin open
Counted == \A d \in Dag : fulls[d] = IF d \in open THEN 1 ELSE 0
Staged ==
  \A a \in Actor :
    /\ pc[a] = "extend" => FileOf(a) = Truncated
    /\ pc[a] = "fill" => FileOf(a) = Extended
    /\ pc[a] = "magic" => FileOf(a) = Filled
    /\ pc[a] \in {"return", "hash"} => FileOf(a) = Complete
OpenIsComplete == \A d \in open : file[EpochOf(d)] = Complete
Known == cached \cup {future} \cup dropped
Reached == open \subseteq Known /\ \A a \in Actor : Tasked(a) => on[a] \in Known

DagInv ==
  /\ TypeOK /\ Held /\ Working /\ Unopened
  /\ Counted /\ Staged /\ OpenIsComplete /\ Reached

\* The states of a file are told apart by their fields.
LEMMA FileStates ==
  /\ \A f \in FileState : MemoMatch(f) <=> f = Complete
  /\ Truncated # Extended /\ Extended # Filled
  /\ \A f \in {Absent, Truncated, Extended, Filled} : f # Complete
  /\ WithSize(Truncated) = Extended
  /\ WithData(Extended) = Filled
  /\ WithMagic(Filled) = Complete
<1> USE DEF FileState, MemoMatch, Absent, Truncated, Extended, Filled, Complete
<1>1. \A f \in FileState : MemoMatch(f) <=> f = Complete
  <2> SUFFICES ASSUME NEW f \in FileState PROVE MemoMatch(f) <=> f = Complete
    OBVIOUS
  <2>1. CASE f = Complete  BY <2>1
  <2>2. CASE f \in {Absent, Truncated}
    <3>1. f.size # "right"  BY <2>2
    <3>. QED  BY <3>1
  <2>3. CASE f \in {Extended, Filled}
    <3>1. f.magic = FALSE  BY <2>3
    <3>. QED  BY <3>1
  <2>. QED  BY <2>1, <2>2, <2>3
<1>2. Truncated # Extended
  <2>1. Truncated.size # Extended.size  OBVIOUS
  <2>. QED  BY <2>1
<1>3. Extended # Filled
  <2>1. Extended.filled # Filled.filled  OBVIOUS
  <2>. QED  BY <2>1
<1>4. \A f \in {Absent, Truncated, Extended, Filled} : f # Complete
  <2> SUFFICES ASSUME NEW f \in {Absent, Truncated, Extended, Filled} PROVE f # Complete
    OBVIOUS
  <2>1. f.magic = FALSE  OBVIOUS
  <2>. QED  BY <2>1
<1>5. WithSize(Truncated) = Extended  BY DEF WithSize, WithData, WithMagic
<1>6. WithData(Extended) = Filled  BY DEF WithSize, WithData, WithMagic
<1>7. WithMagic(Filled) = Complete  BY DEF WithSize, WithData, WithMagic
<1>. QED  BY <1>1, <1>2, <1>3, <1>4, <1>5, <1>6, <1>7

LEMMA DagEpoch == \A d \in Dag : EpochOf(d) \in Epoch
BY DEF Dag, EpochOf

\* Dags, requests and None are different names.
LEMMA Names == Sharer \cap Dag = {} /\ Loader \notin Sharer \cup Dag /\ None \notin Dag \cup Actor
BY ConstantsAssumption DEF Dag, Epoch, Actor, Request

LEMMA NewIsDag ==
  ASSUME NEW e \in Epoch, NEW n \in New(e)
  PROVE  n \in Dag /\ EpochOf(n) = e /\ ~Referenced(n)
<1>1. PICK i \in Spare(e) : n = <<e, i>>  BY DEF New
<1>2. i \in Copy /\ ~Referenced(<<e, i>>)  BY DEF Spare
<1>. QED  BY <1>1, <1>2 DEF Dag, EpochOf

-----------------------------------------------------------------------------
(* A request, by itself. *)

\* What the four kinds of request have in common: at most one actor more is
\* given work, on a Dag that the cache or `future` knows, or hashes at once on one
\* that is open.
Starts(x) ==
  /\ on'[x] \in Dag
  /\ \/ pc'[x] = "queue" /\ on'[x] \in cached' \cup {future'}
     \/ pc'[x] = "hash" /\ on'[x] \in open
RequestEffect(a) ==
  /\ file' = file /\ sem' = sem
  /\ pc[a] = "idle"
  /\ \A x \in Request \ {a} : pc'[x] = pc[x] /\ on'[x] = on[x]
  /\ open' \subseteq open
  /\ \A x \in Actor : (pc'[x] = pc[x] /\ on'[x] = on[x]) \/ Starts(x)

LEMMA HitEffect ==
  ASSUME DagInv, NEW a \in Request, NEW e \in Epoch, Hit(a, e)
  PROVE  TypeOK' /\ RequestEffect(a) /\ Counted' /\ Reached'
<1>1. PICK d \in cached : /\ EpochOf(d) = e
                          /\ Use(cached, d)
                          /\ on' = [on EXCEPT ![a] = d]
                          /\ pc' = [pc EXCEPT ![a] = First(d)]
  BY DEF Hit
<1>2. d \in Dag /\ a \in Actor  BY DEF DagInv, TypeOK, Actor
<1>3. cached' = cached /\ older' \subseteq Dag \X Dag
  BY <1>1 DEF Use, DagInv, TypeOK
<1>4. UNCHANGED <<file, open, fulls, dropped, future, sem, tip, faults>>
  BY DEF Hit, dags
<1>5. TypeOK'
  BY <1>1, <1>2, <1>3, <1>4 DEF DagInv, TypeOK, First
<1>6. RequestEffect(a)
  BY <1>1, <1>2, <1>3, <1>4
  DEF Hit, Asks, Actor, DagInv, TypeOK, First, RequestEffect, Starts
<1>7. Counted'
  BY <1>4 DEF DagInv, Counted
<1>8. Reached'
  BY <1>3, <1>4, <1>6 DEF DagInv, Reached, Known, Tasked, RequestEffect, Starts, Generating
<1>. QED  BY <1>5, <1>6, <1>7, <1>8

LEMMA HitAndPregenerateEffect ==
  ASSUME DagInv, NEW a \in Request, NEW e \in Epoch, HitAndPregenerate(a, e)
  PROVE  TypeOK' /\ RequestEffect(a) /\ Counted' /\ Reached'
<1>0. e + 1 \in Epoch
  BY ConstantsAssumption DEF HitAndPregenerate, Asks, Epoch, DagInv, TypeOK
<1>1. PICK d \in cached, n \in New(e + 1) :
          /\ EpochOf(d) = e
          /\ Use(cached, d)
          /\ future' = n
          /\ open' = open \ {n}
          /\ fulls' = [fulls EXCEPT ![n] = 0]
          /\ dropped' = (dropped \cup {future}) \ {None, n}
          /\ on' = [on EXCEPT ![a] = d, ![n] = n]
          /\ pc' = [pc EXCEPT ![a] = First(d), ![n] = "queue"]
  BY DEF HitAndPregenerate
<1>2. d \in Dag /\ a \in Actor /\ n \in Dag /\ n \in Actor /\ n # a
  BY <1>0, NewIsDag, Names DEF DagInv, TypeOK, Actor, Request
<1>3. cached' = cached /\ older' \subseteq Dag \X Dag
  BY <1>1 DEF Use, DagInv, TypeOK
<1>4. UNCHANGED <<file, sem, tip, faults>>
  BY DEF HitAndPregenerate
<1>5. \A x \in Actor : on[x] # n
  BY <1>0, <1>1, NewIsDag DEF Referenced
<1>6. TypeOK'
  BY <1>1, <1>2, <1>3, <1>4 DEF DagInv, TypeOK, First
<1>7. RequestEffect(a)
  BY <1>1, <1>2, <1>3, <1>4, Names
  DEF HitAndPregenerate, Asks, Actor, Request, DagInv, TypeOK, First, RequestEffect, Starts
<1>8. Counted'
  BY <1>1, <1>2 DEF DagInv, TypeOK, Counted
<1>9. Reached'
  <2>1. \A c \in Known \ {n} : c \in Dag => c \in Known'
    BY <1>1, <1>3, Names DEF Known
  <2>2. open' \subseteq Known'
    BY <2>1, <1>1 DEF DagInv, Reached, TypeOK
  <2>3. ASSUME NEW x \in Actor, Tasked(x)' PROVE on'[x] \in Known'
    <3>1. CASE pc'[x] = pc[x] /\ on'[x] = on[x]
      BY <2>1, <2>3, <1>5, <3>1 DEF DagInv, Reached, Working, Tasked
    <3>2. CASE Starts(x)
      BY <2>3, <3>2 DEF Starts, Known, Tasked, Generating
    <3>. QED  BY <1>7, <3>1, <3>2 DEF RequestEffect
  <2>. QED  BY <2>2, <2>3 DEF Reached
<1>. QED  BY <1>6, <1>7, <1>8, <1>9

\* Evicting closes Dags, and drops those on which someone still works.
LEMMA EvictionKeepsReached ==
  ASSUME DagInv, NEW x \in Actor, Tasked(x)
  PROVE  on[x] \in Kept \cup {future} \cup dropped \cup {d \in Evicted : Pending(d)}
<1>1. on[x] \in Known  BY DEF DagInv, Reached
<1>2. on[x] \in Evicted => Pending(on[x])
  BY DEF Pending, Tasked
<1>. QED  BY <1>1, <1>2 DEF Known, Kept

LEMMA MissUsesFutureEffect ==
  ASSUME DagInv, NEW a \in Request, NEW e \in Epoch, MissUsesFuture(a, e)
  PROVE  TypeOK' /\ RequestEffect(a) /\ Counted' /\ Reached'
<1>1. /\ Use(Kept, future)
      /\ future' = None
      /\ open' = open \ Evicted
      /\ fulls' = [d \in Dag |-> IF d \in Evicted \cap open THEN fulls[d] - 1 ELSE fulls[d]]
      /\ dropped' = dropped \cup {d \in Evicted : Pending(d)}
      /\ on' = [on EXCEPT ![a] = future]
      /\ pc' = [pc EXCEPT ![a] = First(future)]
      /\ UNCHANGED <<file, sem, tip, faults>>
  BY DEF MissUsesFuture
<1>2. future \in Dag /\ a \in Actor  BY DEF MissUsesFuture, FutureIsFor, Actor
<1>3. Evicted \subseteq cached /\ Kept \subseteq Dag  BY DEF Evicted, Kept, DagInv, TypeOK
<1>4. cached' = Kept \cup {future} /\ cached' \subseteq Dag /\ older' \subseteq Dag \X Dag
  BY <1>1, <1>2, <1>3 DEF Use, DagInv, TypeOK
<1>5. fulls' \in [Dag -> Nat] /\ Counted'
  BY <1>1 DEF DagInv, TypeOK, Counted
<1>6. TypeOK'
  BY <1>1, <1>2, <1>3, <1>4, <1>5 DEF DagInv, TypeOK, First
<1>7. RequestEffect(a)
  BY <1>1, <1>2, <1>4
  DEF MissUsesFuture, Asks, Actor, DagInv, TypeOK, First, RequestEffect, Starts
<1>8. Reached'
  <2>1. open' \subseteq Known'
    BY <1>1, <1>4 DEF DagInv, Reached, Known, Kept
  <2>2. ASSUME NEW x \in Actor, Tasked(x)' PROVE on'[x] \in Known'
    <3>1. CASE pc'[x] = pc[x] /\ on'[x] = on[x]
      <4>1. Tasked(x)  BY <2>2, <3>1 DEF Tasked
      <4>. QED  BY <4>1, <3>1, <1>1, <1>4, EvictionKeepsReached DEF Known
    <3>2. CASE Starts(x)
      BY <2>2, <3>2 DEF Starts, Known, Tasked, Generating
    <3>. QED  BY <1>7, <3>1, <3>2 DEF RequestEffect
  <2>. QED  BY <2>1, <2>2 DEF Reached
<1>. QED  BY <1>5, <1>6, <1>7, <1>8

LEMMA MissMakesDagEffect ==
  ASSUME DagInv, NEW a \in Request, NEW e \in Epoch, MissMakesDag(a, e)
  PROVE  TypeOK' /\ RequestEffect(a) /\ Counted' /\ Reached'
<1>1. PICK n \in New(e) :
          /\ Use(Kept, n)
          /\ open' = open \ (Evicted \cup {n})
          /\ fulls' = [d \in Dag |-> IF d = n THEN 0
                                     ELSE IF d \in Evicted \cap open THEN fulls[d] - 1
                                     ELSE fulls[d]]
          /\ dropped' = (dropped \cup {d \in Evicted : Pending(d)}) \ {n}
          /\ on' = [on EXCEPT ![a] = n]
  BY DEF MissMakesDag
<1>2. /\ pc' = [pc EXCEPT ![a] = "queue"]
      /\ UNCHANGED <<file, future, sem, tip, faults>>
  BY DEF MissMakesDag
<1>3. n \in Dag /\ a \in Actor  BY NewIsDag DEF Actor
<1>4. Evicted \subseteq cached /\ Kept \subseteq Dag  BY DEF Evicted, Kept, DagInv, TypeOK
<1>5. cached' = Kept \cup {n} /\ cached' \subseteq Dag /\ older' \subseteq Dag \X Dag
  BY <1>1, <1>3, <1>4 DEF Use, DagInv, TypeOK
<1>6. fulls' \in [Dag -> Nat] /\ Counted'
  BY <1>1 DEF DagInv, TypeOK, Counted
<1>7. TypeOK'
  BY <1>1, <1>2, <1>3, <1>4, <1>5, <1>6 DEF DagInv, TypeOK
<1>8. RequestEffect(a)
  BY <1>1, <1>2, <1>3, <1>5
  DEF MissMakesDag, Asks, Actor, DagInv, TypeOK, RequestEffect, Starts
<1>9. Reached'
  <2>1. open' \subseteq Known'
    BY <1>1, <1>2, <1>5 DEF DagInv, Reached, Known, Kept
  <2>2. ASSUME NEW x \in Actor, Tasked(x)' PROVE on'[x] \in Known'
    <3>1. CASE pc'[x] = pc[x] /\ on'[x] = on[x]
      <4>1. Tasked(x)  BY <2>2, <3>1 DEF Tasked
      <4>2. on[x] # n  BY <1>1, NewIsDag DEF Referenced
      <4>. QED  BY <4>1, <4>2, <3>1, <1>1, <1>2, <1>5, EvictionKeepsReached DEF Known
    <3>2. CASE Starts(x)
      BY <2>2, <3>2 DEF Starts, Known, Tasked, Generating
    <3>. QED  BY <1>8, <3>1, <3>2 DEF RequestEffect
  <2>. QED  BY <2>1, <2>2 DEF Reached
<1>. QED  BY <1>6, <1>7, <1>8, <1>9

LEMMA GetDagStep ==
  ASSUME DagInv, NEW a \in Request, NEW e \in Epoch, GetDag(a, e)
  PROVE  DagInv'
<1>1. TypeOK' /\ RequestEffect(a) /\ Counted' /\ Reached'
  BY HitEffect, HitAndPregenerateEffect, MissUsesFutureEffect, MissMakesDagEffect DEF GetDag
<1>2. Held' /\ Working' /\ Unopened'
  BY <1>1 DEF RequestEffect, Starts, DagInv, Held, Working, Unopened, Tasked, Generating
<1>3. Staged' /\ OpenIsComplete'
  BY <1>1 DEF RequestEffect, Starts, DagInv, Staged, OpenIsComplete, FileOf
<1>. QED  BY <1>1, <1>2, <1>3 DEF DagInv

-----------------------------------------------------------------------------
(* A step of GenerateAsync, by itself. *)

\* Whoever holds the semaphore and writes disturbs no file that is complete.
LEMMA WriteEffect ==
  ASSUME DagInv, NEW a \in Actor, pc[a] \in Generating, FileOf(a) # Complete,
         NEW c \in FileState, Write(a, c)
  PROVE  /\ file' \in [Epoch -> FileState]
         /\ on[a] \in Dag
         /\ file'[EpochOf(on[a])] = c
         /\ \A x \in Actor : pc[x] = "hash" => file'[EpochOf(on[x])] = Complete
         /\ \A d \in open : file'[EpochOf(d)] = Complete
         /\ \A x \in Actor \ {a} : pc[x] \notin Generating
<1>1. on[a] \in Dag /\ EpochOf(on[a]) \in Epoch
  BY DagEpoch DEF DagInv, Working, Tasked
<1>2. file' \in [Epoch -> FileState] /\ file'[EpochOf(on[a])] = c
  BY <1>1 DEF Write, DagInv, TypeOK
<1>3. \A k \in Epoch : file[k] = Complete => file'[k] = Complete
  BY <1>1 DEF Write, FileOf, DagInv, TypeOK
<1>4. ASSUME NEW x \in Actor, pc[x] = "hash" PROVE file'[EpochOf(on[x])] = Complete
  <2>1. on[x] \in Dag /\ FileOf(x) = Complete  BY <1>4 DEF DagInv, Working, Staged
  <2>. QED  BY <2>1, <1>3, DagEpoch DEF FileOf
<1>5. ASSUME NEW d \in open PROVE file'[EpochOf(d)] = Complete
  BY <1>3, DagEpoch DEF DagInv, TypeOK, OpenIsComplete
<1>6. \A x \in Actor \ {a} : pc[x] \notin Generating
  BY DEF DagInv, Held
<1>. QED  BY <1>1, <1>2, <1>4, <1>5, <1>6

LEMMA AcquireStep ==
  ASSUME DagInv, NEW a \in Actor, Acquire(a)
  PROVE  DagInv'
<1>1. /\ pc[a] = "queue" /\ sem = None /\ sem' = a
      /\ pc' = [pc EXCEPT ![a] = IF on[a] \in open THEN "return" ELSE "prepare"]
      /\ UNCHANGED <<file, open, fulls, dropped, cached, older, future, on, tip, faults>>
  BY DEF Acquire, dags, lru
<1>2. on[a] \in Dag /\ on[a] \in Known  BY <1>1 DEF DagInv, Working, Reached, Tasked
<1>3. \A x \in Actor : pc[x] \notin Generating
  BY <1>1, Names DEF DagInv, Held
<1>4. TypeOK' /\ Counted'  BY <1>1 DEF DagInv, TypeOK, Generating, Counted
<1>5. Held' /\ Working' /\ Unopened'
  BY <1>1, <1>2, <1>3 DEF DagInv, TypeOK, Held, Working, Unopened, Tasked, Generating
<1>6. Staged' /\ OpenIsComplete'
  BY <1>1, <1>2, <1>3 DEF DagInv, TypeOK, Staged, OpenIsComplete, FileOf, Generating
<1>7. Reached'
  BY <1>1, <1>2 DEF DagInv, TypeOK, Reached, Known, Tasked, Generating
<1>. QED  BY <1>4, <1>5, <1>6, <1>7 DEF DagInv

LEMMA OpenExistingStep ==
  ASSUME DagInv, NEW a \in Actor, OpenExisting(a)
  PROVE  DagInv'
<1>1. /\ pc[a] = "prepare" /\ MemoMatch(FileOf(a))
      /\ open' = open \cup {on[a]}
      /\ fulls' = [fulls EXCEPT ![on[a]] = @ + 1]
      /\ pc' = [pc EXCEPT ![a] = "return"]
      /\ UNCHANGED <<file, dropped, cached, older, future, sem, on, tip, faults>>
  BY DEF OpenExisting, SetHandle, lru
<1>2. on[a] \in Dag /\ on[a] \in Known /\ on[a] \notin open
  BY <1>1 DEF DagInv, Working, Unopened, Reached, Tasked, Generating
<1>3. FileOf(a) = Complete
  BY <1>1, <1>2, DagEpoch, FileStates DEF FileOf, DagInv, TypeOK
<1>4. \A x \in Actor \ {a} : pc[x] \notin Generating
  BY <1>1 DEF DagInv, Held, Generating
<1>5. TypeOK' /\ Counted'  BY <1>1, <1>2 DEF DagInv, TypeOK, Generating, Counted
<1>6. Held' /\ Working' /\ Unopened'
  BY <1>1, <1>2, <1>4 DEF DagInv, TypeOK, Held, Working, Unopened, Tasked, Generating
<1>7. Staged' /\ OpenIsComplete'
  BY <1>1, <1>2, <1>3 DEF DagInv, TypeOK, Staged, OpenIsComplete, FileOf
<1>8. Reached'
  BY <1>1, <1>2 DEF DagInv, TypeOK, Reached, Known, Tasked, Generating
<1>. QED  BY <1>5, <1>6, <1>7, <1>8 DEF DagInv

\* A step from one stage of the writing to the next.
LEMMA StageStep ==
  ASSUME DagInv, NEW a \in Actor, pc[a] \in Generating, FileOf(a) # Complete,
         NEW c, Write(a, c), NEW stage,
         \/ stage = "extend" /\ c = Truncated
         \/ stage = "fill" /\ c = Extended
         \/ stage = "magic" /\ c = Filled,
         pc' = [pc EXCEPT ![a] = stage], on[a] \notin open,
         UNCHANGED <<dags, lru, sem, on, tip, faults>>
  PROVE  DagInv'
<1>1. /\ c \in FileState
      /\ UNCHANGED <<open, fulls, dropped, cached, older, future, sem, on, tip, faults>>
  BY DEF dags, lru, FileState
<1>2. on[a] \in Known /\ sem = a  BY DEF DagInv, Reached, Tasked, Held
<1>3. TypeOK' /\ Counted'  BY <1>1, WriteEffect DEF DagInv, TypeOK, Generating, Counted
<1>4. Held' /\ Working' /\ Unopened'
  BY <1>1, <1>2, WriteEffect DEF DagInv, TypeOK, Held, Working, Unopened, Tasked, Generating
<1>5. Staged'
  BY <1>1, WriteEffect DEF DagInv, TypeOK, Staged, FileOf, Generating
<1>6. OpenIsComplete'
  BY <1>1, WriteEffect DEF OpenIsComplete
<1>7. Reached'
  BY <1>1, <1>2 DEF DagInv, TypeOK, Reached, Known, Tasked, Generating
<1>. QED  BY <1>3, <1>4, <1>5, <1>6, <1>7 DEF DagInv

LEMMA WritingStep ==
  ASSUME DagInv, NEW a \in Actor, Create(a) \/ Extend(a) \/ Fill(a)
  PROVE  DagInv'
<1>1. /\ pc[a] \in {"prepare", "extend", "fill", "magic"}
      /\ pc[a] \in Generating
      /\ UNCHANGED <<dags, lru, sem, on, tip, faults>>
  BY DEF Create, Extend, Fill, Generating
<1>2. on[a] \in Dag /\ on[a] \notin open
  BY <1>1 DEF DagInv, Working, Unopened, Tasked
<1>3. CASE Create(a)
  <2>1. FileOf(a) # Complete
    BY <1>2, <1>3, DagEpoch, FileStates DEF Create, FileOf, DagInv, TypeOK
  <2>2. Write(a, Truncated) /\ pc' = [pc EXCEPT ![a] = "extend"]  BY <1>3 DEF Create
  <2>. QED  BY <1>1, <1>2, <2>1, <2>2, StageStep
<1>4. CASE Extend(a)
  <2>1. FileOf(a) = Truncated  BY <1>4 DEF Extend, DagInv, Staged
  <2>2. Write(a, Extended) /\ pc' = [pc EXCEPT ![a] = "fill"]
    BY <1>4, <2>1, FileStates DEF Extend
  <2>3. FileOf(a) # Complete  BY <2>1, FileStates
  <2>. QED  BY <1>1, <1>2, <2>2, <2>3, StageStep
<1>5. CASE Fill(a)
  <2>1. FileOf(a) = Extended  BY <1>5 DEF Fill, DagInv, Staged
  <2>2. Write(a, Filled) /\ pc' = [pc EXCEPT ![a] = "magic"]
    BY <1>5, <2>1, FileStates DEF Fill
  <2>3. FileOf(a) # Complete  BY <2>1, FileStates
  <2>. QED  BY <1>1, <1>2, <2>2, <2>3, StageStep
<1>. QED  BY <1>3, <1>4, <1>5

LEMMA WriteMagicStep ==
  ASSUME DagInv, NEW a \in Actor, WriteMagic(a)
  PROVE  DagInv'
<1>1. /\ pc[a] = "magic" /\ pc[a] \in Generating
      /\ open' = open \cup {on[a]}
      /\ fulls' = [fulls EXCEPT ![on[a]] = @ + 1]
      /\ pc' = [pc EXCEPT ![a] = "return"]
      /\ UNCHANGED <<dropped, cached, older, future, sem, on, tip, faults>>
  BY DEF WriteMagic, SetHandle, lru, Generating
<1>2. FileOf(a) = Filled  BY <1>1 DEF DagInv, Staged
<1>3. Write(a, Complete)  BY <1>2, FileStates DEF WriteMagic
<1>4. on[a] \in Dag /\ on[a] \in Known /\ on[a] \notin open /\ sem = a
  BY <1>1 DEF DagInv, Working, Unopened, Reached, Tasked, Held
<1>5. FileOf(a) # Complete /\ Complete \in FileState  BY <1>2, FileStates DEF FileState
<1>6. TypeOK' /\ Counted'
  BY <1>1, <1>3, <1>4, <1>5, WriteEffect DEF DagInv, TypeOK, Generating, Counted
<1>7. Held' /\ Working' /\ Unopened'
  BY <1>1, <1>3, <1>4, <1>5, WriteEffect
  DEF DagInv, TypeOK, Held, Working, Unopened, Tasked, Generating
<1>8. Staged'
  BY <1>1, <1>3, <1>5, WriteEffect DEF DagInv, TypeOK, Staged, FileOf, Generating
<1>9. OpenIsComplete'
  BY <1>1, <1>3, <1>5, WriteEffect DEF OpenIsComplete
<1>10. Reached'
  BY <1>1, <1>4 DEF DagInv, TypeOK, Reached, Known, Tasked, Generating
<1>. QED  BY <1>6, <1>7, <1>8, <1>9, <1>10 DEF DagInv

LEMMA FailStep ==
  ASSUME DagInv, NEW a \in Actor, Fail(a)
  PROVE  DagInv'
<1>1. /\ pc[a] \in {"prepare", "extend", "fill", "magic"} /\ pc[a] \in Generating
      /\ faults' \in 0..MaxFaults
      /\ pc' = [pc EXCEPT ![a] = "throw"]
      /\ UNCHANGED <<open, fulls, dropped, cached, older, future, sem, on, tip>>
  BY ConstantsAssumption DEF Fail, Fault, Generating, dags, lru, DagInv, TypeOK
<1>2. on[a] \in Known /\ sem = a  BY <1>1 DEF DagInv, Reached, Tasked, Held
<1>3. /\ file' \in [Epoch -> FileState]
      /\ \A x \in Actor : pc[x] = "hash" => file'[EpochOf(on[x])] = Complete
      /\ \A d \in open : file'[EpochOf(d)] = Complete
  <2>1. CASE UNCHANGED file
    BY <2>1 DEF DagInv, TypeOK, Staged, FileOf, OpenIsComplete
  <2>2. CASE pc[a] = "magic" /\ Write(a, WithMagic(FileOf(a)))
    <3>1. FileOf(a) = Filled  BY <2>2 DEF DagInv, Staged
    <3>2. Write(a, Complete) /\ FileOf(a) # Complete /\ Complete \in FileState
      BY <2>2, <3>1, FileStates DEF FileState
    <3>. QED  BY <1>1, <3>2, WriteEffect
  <2>. QED  BY <2>1, <2>2 DEF Fail
<1>4. \A x \in Actor \ {a} : pc[x] \notin Generating
  BY <1>1 DEF DagInv, Held
<1>5. TypeOK' /\ Counted'  BY <1>1, <1>3 DEF DagInv, TypeOK, Generating, Counted
<1>6. Held' /\ Working' /\ Unopened'
  BY <1>1, <1>2, <1>4 DEF DagInv, TypeOK, Held, Working, Unopened, Tasked, Generating
<1>7. Staged'
  BY <1>1, <1>3, <1>4 DEF DagInv, TypeOK, Staged, FileOf, Generating
<1>8. OpenIsComplete'
  BY <1>1, <1>3 DEF OpenIsComplete
<1>9. Reached'
  BY <1>1, <1>2 DEF DagInv, TypeOK, Reached, Known, Tasked, Generating
<1>. QED  BY <1>5, <1>6, <1>7, <1>8, <1>9 DEF DagInv

\* Leaving GenerateAsync, or the hash, with the semaphore or without.
LEMMA LeaveStep ==
  ASSUME DagInv, NEW a \in Actor, Release(a) \/ (a \in Sharer /\ EndCompute(a))
  PROVE  DagInv'
<1>1. /\ UNCHANGED <<file, open, fulls, dropped, cached, older, future, tip, faults>>
      /\ \/ sem' = None /\ pc[a] \in {"return", "throw"}
         \/ sem' = sem /\ pc[a] = "hash"
  BY DEF Release, EndCompute, dags, lru
<1>2. PICK state \in {"idle", "hash", "loaded", "down"} :
        /\ Leaves(a, state)
        /\ state = "hash" => pc[a] = "return"
  BY DEF Release, EndCompute, Served, Refused
<1>3. /\ pc' = [pc EXCEPT ![a] = state]
      /\ on' = [on EXCEPT ![a] = IF state = "hash" THEN @ ELSE None]
  BY <1>2 DEF Leaves
<1>4. \A x \in Actor \ {a} : pc'[x] \in Generating => sem' = x
  BY <1>1, <1>3 DEF DagInv, TypeOK, Held, Generating
<1>5. TypeOK' /\ Counted'  BY <1>1, <1>3 DEF DagInv, TypeOK, Generating, Counted
<1>6. Held' /\ Working' /\ Unopened'
  BY <1>1, <1>2, <1>3, <1>4 DEF DagInv, TypeOK, Held, Working, Unopened, Tasked, Generating
<1>7. Staged' /\ OpenIsComplete'
  BY <1>1, <1>2, <1>3 DEF DagInv, TypeOK, Staged, OpenIsComplete, FileOf
<1>8. Reached'
  BY <1>1, <1>3 DEF DagInv, TypeOK, Reached, Known, Tasked, Generating
<1>. QED  BY <1>5, <1>6, <1>7, <1>8 DEF DagInv

\* The process starts again on the files that the last one left.
LEMMA StartStep ==
  ASSUME DagInv, Start, UNCHANGED <<file, tip>>, faults' \in 0..MaxFaults
  PROVE  DagInv'
<1>1. TypeOK'
  BY DEF DagInv, TypeOK, Start
<1>2. Held' /\ Working' /\ Unopened' /\ Counted' /\ Staged' /\ OpenIsComplete' /\ Reached'
  BY DEF Start, Held, Working, Unopened, Counted, Staged, OpenIsComplete, Reached, Tasked,
         Generating
<1>. QED  BY <1>1, <1>2 DEF DagInv

LEMMA CrashStarts ==
  ASSUME PowerLoss = FALSE, DagInv, Crash
  PROVE  Start /\ UNCHANGED <<file, tip>> /\ faults' \in 0..MaxFaults
BY ConstantsAssumption DEF Crash, Fault, DagInv, TypeOK

LEMMA StutterStep ==
  ASSUME DagInv, UNCHANGED vars
  PROVE  DagInv'
<1>1. UNCHANGED <<file, open, fulls, dropped, cached, older, future, sem, pc, on,
                  tip, faults>>
  BY DEF vars, dags, lru, ctl
<1>2. TypeOK'  BY <1>1 DEF DagInv, TypeOK
<1>3. Held' /\ Working' /\ Unopened' /\ Counted'
  BY <1>1 DEF DagInv, Held, Working, Unopened, Counted, Tasked
<1>4. Staged' /\ OpenIsComplete' /\ Reached'
  BY <1>1 DEF DagInv, Staged, FileOf, OpenIsComplete, Reached, Known, Tasked
<1>. QED  BY <1>2, <1>3, <1>4 DEF DagInv

LEMMA AdvanceStep ==
  ASSUME DagInv, Advance
  PROVE  DagInv'
<1>1. /\ UNCHANGED <<file, open, fulls, dropped, cached, older, future, sem, pc, on,
                     faults>>
      /\ tip' \in 0..MaxEpoch
  BY ConstantsAssumption DEF Advance, dags, lru, ctl, DagInv, TypeOK
<1>2. TypeOK'  BY <1>1 DEF DagInv, TypeOK
<1>3. Held' /\ Working' /\ Unopened' /\ Counted'
  BY <1>1 DEF DagInv, Held, Working, Unopened, Counted, Tasked
<1>4. Staged' /\ OpenIsComplete' /\ Reached'
  BY <1>1 DEF DagInv, Staged, FileOf, OpenIsComplete, Reached, Known, Tasked
<1>. QED  BY <1>2, <1>3, <1>4 DEF DagInv

LEMMA InitInv ==
  ASSUME Init
  PROVE  DagInv
<1>1. TypeOK
  BY ConstantsAssumption DEF Init, TypeOK, FileState
<1>2. Held /\ Working /\ Unopened /\ Counted /\ Staged /\ OpenIsComplete /\ Reached
  BY DEF Init, Held, Working, Unopened, Counted, Staged, OpenIsComplete, Reached, Tasked,
         Generating
<1>. QED  BY <1>1, <1>2 DEF DagInv

LEMMA NextInv ==
  ASSUME PowerLoss = FALSE, DagInv, [Next]_vars
  PROVE  DagInv'
<1>1. CASE \E a \in Request, e \in Epoch : GetDag(a, e)
  BY <1>1, GetDagStep
<1>2. ASSUME NEW a \in Actor, GenerateStep(a) PROVE DagInv'
  BY <1>2, AcquireStep, OpenExistingStep, WritingStep, WriteMagicStep, LeaveStep
  DEF GenerateStep
<1>3. CASE \E a \in Actor : Fail(a)
  BY <1>3, FailStep
<1>4. CASE \E s \in Sharer : EndCompute(s)
  BY <1>4, LeaveStep DEF Actor, Request
<1>5. CASE Advance
  BY <1>5, AdvanceStep
<1>6. CASE Crash
  BY <1>6, CrashStarts, StartStep
<1>7. CASE Restart
  BY <1>7, StartStep DEF Restart, DagInv, TypeOK
<1>8. CASE UNCHANGED vars
  BY <1>8, StutterStep
<1>. QED  BY <1>1, <1>2, <1>3, <1>4, <1>5, <1>6, <1>7, <1>8 DEF Next

LEMMA Invariance ==
  ASSUME PowerLoss = FALSE
  PROVE  Spec => []DagInv
<1>1. Init => DagInv  BY InitInv
<1>2. DagInv /\ [Next]_vars => DagInv'  BY NextInv
<1>. QED  BY <1>1, <1>2, PTL DEF Spec

\* The variables keep their types, whatever steps interleave (EthashFull.cs:29,
\* Dag.cs:60).
THEOREM TypeCorrect ==
  ASSUME PowerLoss = FALSE
  PROVE  Spec => []TypeOK
<1>1. DagInv => TypeOK  BY DEF DagInv
<1>. QED  BY <1>1, Invariance, PTL

\* Hashes are computed on complete data only, if no written page is lost
\* (Dag.cs:128, internal.c:436).
THEOREM HashedIsComplete ==
  ASSUME PowerLoss = FALSE
  PROVE  Spec => []ServedIsComplete
<1>1. DagInv => ServedIsComplete
  BY DEF DagInv, Staged, FileOf, ServedIsComplete, Actor, Request, Complete
<1>. QED  BY <1>1, Invariance, PTL

\* No handle is overwritten, and none is left behind but those of the Dags that
\* were dropped (Dag.cs:73, EthashFull.cs:42).
THEOREM HandlesAreKept ==
  ASSUME PowerLoss = FALSE
  PROVE  Spec => []NoHandleLost
<1>1. DagInv => NoHandleLost
  BY DEF DagInv, Counted, Reached, Known, NoHandleLost
<1>. QED  BY <1>1, Invariance, PTL

-----------------------------------------------------------------------------
(* What steps do to the files, and the refinement. *)

\* Whoever writes finds its file incomplete.
LEMMA WritesIncomplete ==
  ASSUME DagInv, NEW a \in Actor, pc[a] \in {"prepare", "extend", "fill", "magic"},
         pc[a] = "prepare" => ~MemoMatch(FileOf(a))
  PROVE  on[a] \in Dag /\ EpochOf(on[a]) \in Epoch /\ FileOf(a) # Complete
<1>1. on[a] \in Dag /\ EpochOf(on[a]) \in Epoch
  BY DagEpoch DEF DagInv, Working, Tasked, Generating
<1>2. FileOf(a) \in FileState  BY <1>1 DEF FileOf, DagInv, TypeOK
<1>3. pc[a] = "prepare" => FileOf(a) # Complete
  BY <1>2, FileStates
<1>4. pc[a] \in {"extend", "fill", "magic"} => FileOf(a) \in {Truncated, Extended, Filled}
  BY DEF DagInv, Staged
<1>. QED  BY <1>1, <1>3, <1>4, FileStates

LEMMA WriteKeeps ==
  ASSUME DagInv, NEW a \in Actor, EpochOf(on[a]) \in Epoch, FileOf(a) # Complete,
         NEW c, Write(a, c)
  PROVE  \A e \in Epoch : file[e] = Complete => file'[e] = Complete
BY DEF Write, FileOf, DagInv, TypeOK

\* No step makes a complete file incomplete.
LEMMA CompleteStays ==
  ASSUME PowerLoss = FALSE, DagInv, [Next]_vars
  PROVE  \A e \in Epoch : file[e] = Complete => file'[e] = Complete
<1>1. ASSUME NEW a \in Request, NEW e \in Epoch, GetDag(a, e) PROVE UNCHANGED file
  BY <1>1 DEF GetDag, Hit, HitAndPregenerate, MissUsesFuture, MissMakesDag
<1>2. ASSUME NEW a \in Actor, GenerateStep(a) \/ Fail(a)
      PROVE  \A e \in Epoch : file[e] = Complete => file'[e] = Complete
  <2>1. CASE Acquire(a) \/ OpenExisting(a) \/ Release(a)
    BY <2>1 DEF Acquire, OpenExisting, Release
  <2>2. CASE Create(a) \/ Extend(a) \/ Fill(a) \/ WriteMagic(a)
    <3>1. /\ pc[a] \in {"prepare", "extend", "fill", "magic"}
          /\ pc[a] = "prepare" => ~MemoMatch(FileOf(a))
          /\ \E c : Write(a, c)
      BY <2>2 DEF Create, Extend, Fill, WriteMagic
    <3>. QED  BY <3>1, WritesIncomplete, WriteKeeps
  <2>3. CASE Fail(a)
    <3>1. CASE UNCHANGED file  BY <3>1
    <3>2. CASE pc[a] = "magic" /\ Write(a, WithMagic(FileOf(a)))
      BY <3>2, WritesIncomplete, WriteKeeps
    <3>. QED  BY <2>3, <3>1, <3>2 DEF Fail
  <2>. QED  BY <1>2, <2>1, <2>2, <2>3 DEF GenerateStep
<1>3. CASE \E s \in Sharer : EndCompute(s)  BY <1>3 DEF EndCompute
<1>4. CASE Advance \/ UNCHANGED vars  BY <1>4 DEF Advance, vars
<1>5. CASE Crash \/ Restart  BY <1>5, CrashStarts DEF Restart
<1>. QED  BY <1>1, <1>2, <1>3, <1>4, <1>5 DEF Next

\* No file is truncated while a Dag has it mapped (io.c:97).
THEOREM MappedFilesStay ==
  ASSUME PowerLoss = FALSE
  PROVE  Spec => NoTruncateWhileMapped
<1> DEFINE Step == \A e \in Mapped : file[e].size = "right" => file'[e].size = "right"
<1>1. ASSUME DagInv, [Next]_vars PROVE Step
  <2> SUFFICES ASSUME NEW d \in open PROVE file'[EpochOf(d)].size = "right"
    BY DEF Mapped
  <2>1. EpochOf(d) \in Epoch /\ file[EpochOf(d)] = Complete
    BY <1>1, DagEpoch DEF DagInv, TypeOK, OpenIsComplete
  <2>2. file'[EpochOf(d)] = Complete  BY <1>1, <2>1, CompleteStays
  <2>. QED  BY <2>2 DEF Complete
<1>2. DagInv /\ [Next]_vars => [Step]_vars  BY <1>1
<1>3. NoTruncateWhileMapped <=> [][Step]_vars  BY DEF NoTruncateWhileMapped
<1> HIDE DEF Step
<1>. QED  BY <1>2, <1>3, Invariance, PTL DEF Spec

-----------------------------------------------------------------------------
(* Refinement: each step is one of DagStore, or changes neither what is    *)
(* complete nor what is used.                                              *)

done == {e \in Epoch : file[e] = Complete}
used == [s \in Sharer |-> IF pc[s] = "hash" THEN EpochOf(on[s]) ELSE NoEpoch]
Simulated == Store!Next \/ (done' = done /\ used' = used)

\* A thread begins to use a DAG that is complete.
LEMMA Begins ==
  ASSUME DagInv, file' = file, NEW s \in Sharer, pc[s] # "hash",
         \A x \in Sharer \ {s} : pc'[x] = pc[x] /\ on'[x] = on[x],
         pc'[s] = "hash" => on'[s] \in Dag /\ file[EpochOf(on'[s])] = Complete
  PROVE  Simulated
<1>1. done' = done  BY DEF done
<1>2. CASE pc'[s] = "hash"
  <2>1. EpochOf(on'[s]) \in done  BY <1>2, DagEpoch DEF done
  <2>2. used[s] = NoEpoch /\ used' = [used EXCEPT ![s] = EpochOf(on'[s])]
    BY <1>2 DEF used
  <2>3. Store!Begin(s, EpochOf(on'[s]))
    BY <1>1, <2>1, <2>2 DEF Store!Begin, done, used
  <2>4. \E t \in Sharer, e \in Epoch : Store!Begin(t, e)
    BY <2>1, <2>3 DEF done, Store!Begin
  <2>. QED  BY <2>4 DEF Simulated, Store!Next
<1>3. CASE pc'[s] # "hash"
  BY <1>1, <1>3 DEF used, Simulated
<1>. QED  BY <1>2, <1>3

\* A thread is done with one.
LEMMA Ends ==
  ASSUME DagInv, file' = file, NEW s \in Sharer, pc'[s] # "hash",
         \A x \in Sharer \ {s} : pc'[x] = pc[x] /\ on'[x] = on[x]
  PROVE  Simulated
<1>1. done' = done  BY DEF done
<1>2. used' = [used EXCEPT ![s] = NoEpoch]  BY DEF used
<1>3. Store!End(s)  BY <1>1, <1>2 DEF Store!End, done, used
<1>. QED  BY <1>3 DEF Simulated, Store!Next

\* A DAG becomes complete, or none does.
LEMMA Finishes ==
  ASSUME DagInv, NEW a \in Actor, EpochOf(on[a]) \in Epoch, FileOf(a) # Complete,
         NEW c, Write(a, c),
         \A x \in Sharer : pc[x] = "hash" <=> pc'[x] = "hash", on' = on
  PROVE  Simulated
<1>1. used' = used  BY DEF used
<1>2. file \in [Epoch -> FileState] /\ file' = [file EXCEPT ![EpochOf(on[a])] = c]
  BY DEF Write, DagInv, TypeOK
<1>3. CASE c = Complete
  <2>1. done' = done \cup {EpochOf(on[a])}  BY <1>2, <1>3 DEF done
  <2>2. Store!Finish(EpochOf(on[a]))  BY <1>1, <2>1 DEF Store!Finish, done, used
  <2>3. \E e \in Epoch : Store!Finish(e)  BY <2>2 DEF Store!Finish
  <2>. QED  BY <2>3 DEF Simulated, Store!Next
<1>4. CASE c # Complete
  <2>1. done' = done  BY <1>2, <1>4 DEF done, FileOf
  <2>. QED  BY <1>1, <2>1 DEF Simulated
<1>. QED  BY <1>3, <1>4

LEMMA Restarts ==
  ASSUME Start, file' = file
  PROVE  Simulated
<1>1. done' = done  BY DEF done
<1>2. used' = [s \in Sharer |-> NoEpoch]  BY DEF used, Start, Actor, Request
<1>3. Store!Restart  BY <1>1, <1>2 DEF Store!Restart, done, used
<1>. QED  BY <1>3 DEF Simulated, Store!Next

LEMMA GetDagSimulated ==
  ASSUME DagInv, NEW a \in Request, NEW e \in Epoch, GetDag(a, e)
  PROVE  Simulated
<1>1. RequestEffect(a)
  BY HitEffect, HitAndPregenerateEffect, MissUsesFutureEffect, MissMakesDagEffect DEF GetDag
<1>2. CASE a \in Sharer
  <2>1. pc'[a] = "hash" => on'[a] \in Dag /\ file[EpochOf(on'[a])] = Complete
    BY <1>1, <1>2 DEF RequestEffect, Starts, Actor, Request, DagInv, OpenIsComplete
  <2>. QED  BY <1>1, <1>2, <2>1, Begins DEF RequestEffect, Request
<1>3. CASE a \notin Sharer
  BY <1>1, <1>3 DEF RequestEffect, Request, Simulated, done, used
<1>. QED  BY <1>2, <1>3

LEMMA GenerateSimulated ==
  ASSUME DagInv, NEW a \in Actor, GenerateStep(a) \/ Fail(a)
  PROVE  Simulated
<1>0. pc \in [Actor -> {"idle", "hash", "loaded", "down"} \cup {"queue"} \cup Generating]
      /\ on \in [Actor -> Dag \cup {None}] /\ Sharer \subseteq Actor
  BY DEF DagInv, TypeOK, Actor, Request
<1>1. CASE Acquire(a) \/ OpenExisting(a)
  <2>1. /\ file' = file /\ on' = on /\ pc[a] # "hash"
        /\ \/ pc' = [pc EXCEPT ![a] = IF on[a] \in open THEN "return" ELSE "prepare"]
           \/ pc' = [pc EXCEPT ![a] = "return"]
    BY <1>1 DEF Acquire, OpenExisting, SetHandle
  <2>. QED  BY <1>0, <2>1 DEF Simulated, done, used
<1>2. CASE Create(a) \/ Extend(a) \/ Fill(a) \/ WriteMagic(a)
  <2>1. /\ pc[a] \in {"prepare", "extend", "fill", "magic"}
        /\ pc[a] = "prepare" => ~MemoMatch(FileOf(a))
        /\ \E c : Write(a, c)
        /\ on' = on
        /\ \E k \in {"extend", "fill", "magic", "return"} : pc' = [pc EXCEPT ![a] = k]
    BY <1>2 DEF Create, Extend, Fill, WriteMagic, SetHandle
  <2>2. \A x \in Sharer : pc[x] = "hash" <=> pc'[x] = "hash"
    BY <1>0, <2>1
  <2>. QED  BY <2>1, <2>2, WritesIncomplete, Finishes
<1>3. CASE Fail(a)
  <2>1. /\ pc[a] \in {"prepare", "extend", "fill", "magic"}
        /\ pc' = [pc EXCEPT ![a] = "throw"] /\ on' = on
    BY <1>3 DEF Fail
  <2>2. \A x \in Sharer : pc[x] = "hash" <=> pc'[x] = "hash"
    BY <1>0, <2>1
  <2>3. CASE UNCHANGED file
    BY <2>1, <2>2, <2>3 DEF Simulated, done, used
  <2>4. CASE pc[a] = "magic" /\ Write(a, WithMagic(FileOf(a)))
    BY <2>1, <2>2, <2>4, WritesIncomplete, Finishes
  <2>. QED  BY <1>3, <2>3, <2>4 DEF Fail
<1>4. CASE Release(a)
  <2>1. PICK k : /\ pc' = [pc EXCEPT ![a] = k]
                 /\ on' = [on EXCEPT ![a] = IF k = "hash" THEN @ ELSE None]
                 /\ k = "hash" => a \in Sharer /\ pc[a] = "return"
                 /\ file' = file /\ pc[a] # "hash"
    BY <1>4 DEF Release, Leaves, Served, Refused
  <2>2. CASE a \in Sharer
    <3>1. pc'[a] = "hash" => on'[a] \in Dag /\ file[EpochOf(on'[a])] = Complete
      BY <1>0, <2>1 DEF DagInv, Working, Staged, FileOf, Tasked, Generating
    <3>. QED  BY <1>0, <2>1, <2>2, <3>1, Begins
  <2>3. CASE a \notin Sharer
    BY <1>0, <2>1, <2>3 DEF Simulated, done, used
  <2>. QED  BY <2>2, <2>3
<1>. QED  BY <1>1, <1>2, <1>3, <1>4 DEF GenerateStep

LEMMA StepSimulated ==
  ASSUME PowerLoss = FALSE, DagInv, [Next]_vars
  PROVE  Simulated
<1>1. CASE \E a \in Request, e \in Epoch : GetDag(a, e)
  BY <1>1, GetDagSimulated
<1>2. CASE \E a \in Actor : GenerateStep(a) \/ Fail(a)
  BY <1>2, GenerateSimulated
<1>3. ASSUME NEW s \in Sharer, EndCompute(s) PROVE Simulated
  <2>1. file' = file /\ pc' = [pc EXCEPT ![s] = "idle"] /\ on' = [on EXCEPT ![s] = None]
    BY <1>3 DEF EndCompute, Leaves
  <2>. QED  BY <2>1, Ends DEF DagInv, TypeOK, Actor, Request
<1>4. CASE Advance \/ UNCHANGED vars
  BY <1>4 DEF Advance, vars, ctl, Simulated, done, used
<1>5. CASE Crash \/ Restart
  BY <1>5, CrashStarts, Restarts DEF Restart
<1>. QED  BY <1>1, <1>2, <1>3, <1>4, <1>5 DEF Next

\* The DAG cache and its files keep what DagStore promises (EthashFull.cs:29,
\* internal.c:391).
THEOREM Refinement ==
  ASSUME PowerLoss = FALSE
  PROVE  Spec => StoreSpec
<1>1. Init => Store!Init
  <2> SUFFICES ASSUME Init PROVE Store!Init
    OBVIOUS
  <2>1. done = {}
    BY FileStates DEF Init, done
  <2>2. used = [s \in Sharer |-> NoEpoch]
    BY DEF Init, used, Actor, Request
  <2>. QED  BY <2>1, <2>2 DEF Store!Init, done, used
<1>2. DagInv /\ [Next]_vars => [Store!Next]_<<done, used>>
  BY StepSimulated DEF Simulated
<1>3. StoreSpec <=> Store!Init /\ [][Store!Next]_<<done, used>>
  BY DEF StoreSpec, Store!Spec, done, used
<1>. QED  BY <1>1, <1>2, <1>3, Invariance, PTL DEF Spec

-----------------------------------------------------------------------------
(* The cache keeps the DAG of every request under way, if it is larger by  *)
(* two than the number of epochs that may begin meanwhile: what is used    *)
(* after a request asked is of an epoch from the one before the template's *)
(* then, w - 1, up to the template's now; with the epoch that is missing,  *)
(* these are Lag + 2 at most, and the cache holds one Dag of each.         *)

Distinct == \A c, d \in cached : EpochOf(c) = EpochOf(d) => c = d
Begun == \A d \in cached : EpochOf(d) <= tip
Since(a, w) ==
  /\ w \in EpochOf(on[a]) .. (EpochOf(on[a]) + 1)
  /\ w <= tip /\ tip <= w + Lag
  /\ \A d \in cached : <<on[a], d>> \in older => w <= EpochOf(d) + 1
InUse == \A a \in Request : on[a] # None => on[a] \in cached /\ \E w \in Nat : Since(a, w)
Opened == \A a \in Request : pc[a] \in {"return", "hash"} => on[a] \in open
CacheInv == Distinct /\ Begun /\ InUse /\ Opened

\* A miss evicts no Dag that someone works with.
LEMMA EvictionSparesUsed ==
  ASSUME Lag + 2 <= NumCaches, DagInv, CacheInv,
         NEW a \in Request, NEW e \in Epoch, Asks(a, e), Miss(e),
         NEW b \in Request, on[b] # None
  PROVE  on[b] \in Kept
<1>1. on[b] \in cached  BY DEF CacheInv, InUse
<1>2. PICK w \in Nat : Since(b, w)  BY DEF CacheInv, InUse
<1> SUFFICES ASSUME on[b] \in Evicted PROVE FALSE
  BY <1>1 DEF Kept
<1> DEFINE window == (w - 1) .. tip
           epochOf == [d \in cached |-> EpochOf(d)]
<1>0. /\ tip \in Nat /\ Lag \in Nat /\ NumCaches \in Nat /\ Epoch \subseteq Nat
      /\ \A d \in cached : d \in Dag /\ EpochOf(d) \in Nat
  BY ConstantsAssumption, DagEpoch DEF DagInv, TypeOK, Epoch
<1>3. /\ UsedFirst(on[b]) /\ Cardinality(cached) >= NumCaches
  BY DEF Evicted
<1>4. \A d \in cached : EpochOf(d) \in window
  <2> SUFFICES ASSUME NEW d \in cached PROVE w <= EpochOf(d) + 1 /\ EpochOf(d) <= tip
    BY <1>0
  <2>1. CASE d = on[b]  BY <1>0, <1>2, <2>1 DEF Since, CacheInv, Begun
  <2>2. CASE d # on[b]  BY <1>2, <1>3, <2>2 DEF UsedFirst, Since, CacheInv, Begun
  <2>. QED  BY <2>1, <2>2
<1>5. e \in window
  <2>1. e <= tip /\ e + 1 >= tip  BY <1>0 DEF Asks
  <2>. QED  BY <1>0, <1>2, <2>1 DEF Since
<1>6. IsFiniteSet(window) /\ Cardinality(window) <= Lag + 2
  BY <1>0, <1>2, FS_Interval DEF Since
<1>7. IsFiniteSet(window \ {e}) /\ Cardinality(window \ {e}) = Cardinality(window) - 1
  BY <1>5, <1>6, FS_RemoveElement
<1>8. epochOf \in Injection(cached, window \ {e})
  BY <1>4 DEF Injection, IsInjective, CacheInv, Distinct, Miss
<1>9. Cardinality(cached) <= Cardinality(window \ {e})
  BY <1>7, <1>8, FS_Injection
<1>10. Cardinality(window) \in Nat /\ Cardinality(cached) \in Nat
  BY <1>6, <1>7, <1>8, FS_CardinalityType, FS_Injection
<1> HIDE DEF window, epochOf
<1>. QED  BY <1>0, <1>3, <1>6, <1>7, <1>9, <1>10

\* What a request on d leaves true of the order of use.
LEMMA UseKeepsOrder ==
  ASSUME DagInv, CacheInv, NEW a \in Request, NEW e \in Epoch, Asks(a, e),
         NEW d \in Dag, EpochOf(d) = e, NEW kept \in SUBSET cached, Use(kept, d),
         \A c \in kept : EpochOf(c) = e => c = d,
         \A x \in Request \ {a} : on[x] # None => on[x] \in kept,
         \A x \in Request \ {a} : on'[x] = on[x],
         on'[a] = d, tip' = tip
  PROVE  Distinct' /\ Begun' /\ InUse'
<1>0. /\ tip \in Nat /\ Lag \in Nat /\ e \in Nat
      /\ e <= tip /\ tip <= e + 1
  BY ConstantsAssumption DEF Asks, DagInv, TypeOK, Epoch
<1>1. /\ cached' = kept \cup {d}
      /\ older' = (older \cap ((kept \ {d}) \X (kept \ {d}))) \cup ((kept \ {d}) \X {d})
  BY DEF Use
<1>2. Distinct'  BY <1>1 DEF CacheInv, Distinct
<1>3. Begun'  BY <1>0, <1>1 DEF CacheInv, Begun
<1>4. Since(a, tip)'
  <2>1. \A c : <<d, c>> \notin older'  BY <1>1
  <2>. QED  BY <1>0, <2>1 DEF Since
<1>5. ASSUME NEW x \in Request \ {a}, on[x] # None
      PROVE  on'[x] \in cached' /\ \E w \in Nat : Since(x, w)'
  <2>1. PICK w \in Nat : Since(x, w)  BY <1>5 DEF CacheInv, InUse
  <2>2. ASSUME NEW c \in cached', <<on[x], c>> \in older' PROVE w <= EpochOf(c) + 1
    <3>1. CASE c = d  BY <1>0, <2>1, <3>1 DEF Since
    <3>2. CASE c # d
      <4>1. c \in cached /\ <<on[x], c>> \in older  BY <1>1, <2>2, <3>2
      <4>. QED  BY <2>1, <4>1 DEF Since
    <3>. QED  BY <3>1, <3>2
  <2>3. Since(x, w)'  BY <2>1, <2>2 DEF Since
  <2>. QED  BY <1>1, <1>5, <2>3
<1>6. InUse'
  BY <1>0, <1>1, <1>4, <1>5 DEF InUse
<1>. QED  BY <1>2, <1>3, <1>6

LEMMA HitKeepsCache ==
  ASSUME DagInv, CacheInv, NEW a \in Request, NEW e \in Epoch,
         Hit(a, e) \/ HitAndPregenerate(a, e)
  PROVE  CacheInv'
<1>0. Asks(a, e) /\ tip' = tip /\ RequestEffect(a)
  BY HitEffect, HitAndPregenerateEffect DEF Hit, HitAndPregenerate
<1>1. PICK d \in cached : /\ EpochOf(d) = e
                          /\ Use(cached, d)
                          /\ on'[a] = d
                          /\ \A c \in open : Referenced(c) => c \in open'
  <2>1. CASE Hit(a, e)
    BY <2>1 DEF Hit, dags, DagInv, TypeOK, Actor
  <2>2. CASE HitAndPregenerate(a, e)
    <3>0. e + 1 \in Epoch
      BY <2>2, ConstantsAssumption DEF HitAndPregenerate, Asks, Epoch, DagInv, TypeOK
    <3>1. PICK d \in cached, n \in New(e + 1) :
            /\ EpochOf(d) = e /\ Use(cached, d) /\ open' = open \ {n}
            /\ on' = [on EXCEPT ![a] = d, ![n] = n]
      BY <2>2 DEF HitAndPregenerate
    <3>2. n \in Dag /\ ~Referenced(n)  BY <3>0, NewIsDag
    <3>3. a # n  BY <3>2, Names DEF Request
    <3>4. on'[a] = d  BY <3>1, <3>3 DEF DagInv, TypeOK, Actor
    <3>. QED  BY <3>1, <3>2, <3>4
  <2>. QED  BY <1>0, <2>1, <2>2
<1>2. \A x \in Request \ {a} : on'[x] = on[x] /\ pc'[x] = pc[x]
  BY <1>0 DEF RequestEffect
<1>3. \A x \in Request : on[x] # None => on[x] \in cached
  BY DEF CacheInv, InUse
<1>4. d \in Dag /\ \A c \in cached : EpochOf(c) = e => c = d
  BY <1>1 DEF DagInv, TypeOK, CacheInv, Distinct
<1>5. Distinct' /\ Begun' /\ InUse'
  BY <1>0, <1>1, <1>2, <1>3, <1>4, UseKeepsOrder
<1>6. Opened'
  <2> SUFFICES ASSUME NEW x \in Request, pc'[x] \in {"return", "hash"} PROVE on'[x] \in open'
    BY DEF Opened
  <2>1. CASE x = a
    <3>1. pc'[x] = "hash" /\ on'[x] \in open
      BY <1>0, <2>1 DEF RequestEffect, Starts, Actor
    <3>. QED  BY <1>1, <2>1, <3>1 DEF Referenced
  <2>2. CASE x # a
    <3>1. on'[x] \in open /\ on'[x] = on[x]  BY <1>2, <2>2 DEF CacheInv, Opened
    <3>. QED  BY <1>1, <3>1 DEF Referenced, Actor
  <2>. QED  BY <2>1, <2>2
<1>. QED  BY <1>5, <1>6 DEF CacheInv

LEMMA MissKeepsCache ==
  ASSUME Lag + 2 <= NumCaches, DagInv, CacheInv, NEW a \in Request, NEW e \in Epoch,
         MissUsesFuture(a, e) \/ MissMakesDag(a, e)
  PROVE  CacheInv'
<1>0. Asks(a, e) /\ Miss(e) /\ tip' = tip /\ RequestEffect(a)
  BY MissUsesFutureEffect, MissMakesDagEffect DEF MissUsesFuture, MissMakesDag
<1>1. PICK d \in Dag : /\ EpochOf(d) = e
                       /\ Use(Kept, d)
                       /\ on'[a] = d
                       /\ pc'[a] = "hash" => d \in open'
                       /\ \A x \in Request : on[x] \in open /\ on[x] \in Kept => on[x] \in open'
  <2>1. CASE MissUsesFuture(a, e)
    <3>1. /\ future \in Dag /\ EpochOf(future) = e /\ Use(Kept, future)
          /\ open' = open \ Evicted
          /\ on' = [on EXCEPT ![a] = future]
          /\ pc' = [pc EXCEPT ![a] = First(future)]
      BY <2>1 DEF MissUsesFuture, FutureIsFor
    <3>2. future \notin Evicted  BY <1>0, <3>1 DEF Miss, Evicted
    <3>3. on'[a] = future /\ pc'[a] = First(future)
      BY <3>1 DEF DagInv, TypeOK, Actor
    <3>. QED  BY <3>1, <3>2, <3>3 DEF First, Kept
  <2>2. CASE MissMakesDag(a, e)
    <3>1. PICK n \in New(e) : /\ Use(Kept, n) /\ open' = open \ (Evicted \cup {n})
                              /\ on' = [on EXCEPT ![a] = n]
      BY <2>2 DEF MissMakesDag
    <3>2. n \in Dag /\ EpochOf(n) = e /\ ~Referenced(n)  BY NewIsDag
    <3>3. on'[a] = n /\ pc'[a] = "queue"
      BY <2>2, <3>1 DEF MissMakesDag, DagInv, TypeOK, Actor
    <3>4. \A x \in Request : on[x] # n  BY <3>2 DEF Referenced, Actor
    <3>. QED  BY <3>1, <3>2, <3>3, <3>4 DEF Kept
  <2>. QED  BY <2>1, <2>2
<1>2. \A x \in Request \ {a} : on'[x] = on[x] /\ pc'[x] = pc[x]
  BY <1>0 DEF RequestEffect
<1>3. \A x \in Request : on[x] # None => on[x] \in Kept
  BY <1>0, EvictionSparesUsed
<1>4. Kept \in SUBSET cached /\ \A c \in Kept : EpochOf(c) = e => c = d
  BY <1>0 DEF Kept, Miss
<1>5. Distinct' /\ Begun' /\ InUse'
  BY <1>0, <1>1, <1>2, <1>3, <1>4, UseKeepsOrder
<1>6. Opened'
  <2> SUFFICES ASSUME NEW x \in Request, pc'[x] \in {"return", "hash"} PROVE on'[x] \in open'
    BY DEF Opened
  <2>1. CASE x = a
    BY <1>0, <1>1, <2>1 DEF RequestEffect, Starts, Actor, Asks
  <2>2. CASE x # a
    <3>1. on[x] \in open /\ on'[x] = on[x]  BY <1>2, <2>2 DEF CacheInv, Opened
    <3>2. on[x] # None  BY <3>1, Names DEF DagInv, TypeOK
    <3>. QED  BY <1>1, <1>3, <3>1, <3>2
  <2>. QED  BY <2>1, <2>2
<1>. QED  BY <1>5, <1>6 DEF CacheInv

\* A step that leaves the cache alone, takes no Dag into use and closes none.
LEMMA OtherKeepsCache ==
  ASSUME CacheInv, UNCHANGED <<cached, older, tip>>, open \subseteq open',
         \A x \in Request : on'[x] \in {None, on[x]},
         \A x \in Request :
           pc'[x] \in {"return", "hash"} =>
             on'[x] \in open' \/ (on'[x] = on[x] /\ pc[x] \in {"return", "hash"})
  PROVE  CacheInv'
<1>1. Distinct' /\ Begun'  BY DEF CacheInv, Distinct, Begun
<1>2. InUse'
  <2> SUFFICES ASSUME NEW x \in Request, on'[x] # None
               PROVE  on'[x] \in cached' /\ \E w \in Nat : Since(x, w)'
    BY DEF InUse
  <2>1. on'[x] = on[x]  OBVIOUS
  <2>2. on[x] \in cached  BY <2>1 DEF CacheInv, InUse
  <2>3. PICK w \in Nat : Since(x, w)  BY <2>1 DEF CacheInv, InUse
  <2>4. Since(x, w)'  BY <2>1, <2>3 DEF Since
  <2>. QED  BY <2>1, <2>2, <2>4
<1>3. Opened'  BY DEF CacheInv, Opened
<1>. QED  BY <1>1, <1>2, <1>3 DEF CacheInv

LEMMA GenerateKeepsCache ==
  ASSUME DagInv, CacheInv, NEW a \in Actor,
         GenerateStep(a) \/ Fail(a) \/ (a \in Sharer /\ EndCompute(a))
  PROVE  CacheInv'
<1>0. /\ UNCHANGED <<cached, older, tip>>
      /\ pc \in [Actor -> {"idle", "hash", "loaded", "down"} \cup {"queue"} \cup Generating]
      /\ on \in [Actor -> Dag \cup {None}] /\ Request \subseteq Actor
  BY DEF GenerateStep, Acquire, OpenExisting, Create, Extend, Fill, WriteMagic, Release, Fail,
         EndCompute, lru, DagInv, TypeOK, Actor
<1>1. PICK k : pc' = [pc EXCEPT ![a] = k]
  BY DEF GenerateStep, Acquire, OpenExisting, Create, Extend, Fill, WriteMagic, Release, Fail,
         EndCompute, SetHandle, Leaves
<1>2. CASE Acquire(a)
  <2>1. /\ pc' = [pc EXCEPT ![a] = IF on[a] \in open THEN "return" ELSE "prepare"]
        /\ UNCHANGED <<open, on>>
    BY <1>2 DEF Acquire, dags
  <2>. QED  BY <1>0, <2>1, OtherKeepsCache
<1>3. CASE OpenExisting(a) \/ WriteMagic(a)
  <2>1. open' = open \cup {on[a]} /\ on' = on
    BY <1>3 DEF OpenExisting, WriteMagic, SetHandle
  <2>. QED  BY <1>0, <1>1, <2>1, OtherKeepsCache
<1>4. CASE Create(a) \/ Extend(a) \/ Fill(a) \/ Fail(a)
  <2>1. UNCHANGED <<open, on>> /\ pc'[a] \notin {"return", "hash"}
    BY <1>0, <1>4 DEF Create, Extend, Fill, Fail, dags
  <2>. QED  BY <1>0, <1>1, <2>1, OtherKeepsCache
<1>5. CASE Release(a) \/ EndCompute(a)
  <2>1. PICK state : /\ Leaves(a, state)
                     /\ open' = open
                     /\ state \in {"idle", "loaded", "down"} \/ (state = "hash" /\ pc[a] = "return")
    BY <1>5 DEF Release, EndCompute, Served, Refused, dags
  <2>2. /\ pc' = [pc EXCEPT ![a] = state]
        /\ on' = [on EXCEPT ![a] = IF state = "hash" THEN @ ELSE None]
    BY <2>1 DEF Leaves
  <2>. QED  BY <1>0, <2>1, <2>2, OtherKeepsCache
<1>. QED  BY <1>2, <1>3, <1>4, <1>5 DEF GenerateStep

LEMMA AdvanceKeepsCache ==
  ASSUME DagInv, CacheInv, Advance
  PROVE  CacheInv'
<1>1. /\ UNCHANGED <<open, cached, older, pc, on>> /\ tip' = tip + 1
      /\ tip \in Nat /\ Lag \in Nat
      /\ \A d \in Dag : EpochOf(d) \in Nat
  BY ConstantsAssumption, DagEpoch DEF Advance, dags, lru, ctl, DagInv, TypeOK, Epoch
<1>2. Distinct' /\ Opened'  BY <1>1 DEF CacheInv, Distinct, Opened
<1>3. Begun'  BY <1>1 DEF CacheInv, Begun, DagInv, TypeOK
<1>4. InUse'
  <2> SUFFICES ASSUME NEW x \in Request, on[x] # None
               PROVE  on[x] \in cached /\ \E w \in Nat : Since(x, w)'
    BY <1>1 DEF InUse
  <2>1. on[x] \in cached /\ tip < EpochOf(on[x]) + Lag
    BY DEF CacheInv, InUse, Advance
  <2>2. PICK w \in Nat : Since(x, w)  BY DEF CacheInv, InUse
  <2>3. EpochOf(on[x]) \in Nat  BY <1>1, <2>1 DEF DagInv, TypeOK
  <2>4. Since(x, w)'  BY <1>1, <2>1, <2>2, <2>3 DEF Since
  <2>. QED  BY <2>1, <2>4
<1>. QED  BY <1>2, <1>3, <1>4 DEF CacheInv

LEMMA NextKeepsCache ==
  ASSUME PowerLoss = FALSE, Lag + 2 <= NumCaches, DagInv, CacheInv, [Next]_vars
  PROVE  CacheInv'
<1>1. CASE \E a \in Request, e \in Epoch : GetDag(a, e)
  BY <1>1, HitKeepsCache, MissKeepsCache DEF GetDag
<1>2. CASE \E a \in Actor : GenerateStep(a) \/ Fail(a)
  BY <1>2, GenerateKeepsCache
<1>3. CASE \E s \in Sharer : EndCompute(s)
  BY <1>3, GenerateKeepsCache DEF Actor, Request
<1>4. CASE Advance
  BY <1>4, AdvanceKeepsCache
<1>5. CASE Crash \/ Restart
  <2>1. Start  BY <1>5 DEF Crash, Restart
  <2>. QED  BY <2>1 DEF Start, CacheInv, Distinct, Begun, InUse, Opened, Actor
<1>6. CASE UNCHANGED vars
  BY <1>6, OtherKeepsCache DEF vars, dags, lru, ctl
<1>. QED  BY <1>1, <1>2, <1>3, <1>4, <1>5, <1>6 DEF Next

\* If the cache is large enough, no thread hashes on a Dag that was disposed of
\* (EthashFull.cs:44, Dag.cs:128).
THEOREM UsedDagsStayOpen ==
  ASSUME PowerLoss = FALSE, Lag + 2 <= NumCaches
  PROVE  Spec => []ComputesOnOpenDag
<1>1. Init => CacheInv
  BY DEF Init, CacheInv, Distinct, Begun, InUse, Opened, Actor
<1>2. DagInv /\ CacheInv /\ [Next]_vars => CacheInv'
  BY NextKeepsCache
<1>3. CacheInv => ComputesOnOpenDag
  BY DEF CacheInv, Opened, ComputesOnOpenDag, Request
<1>. QED  BY <1>1, <1>2, <1>3, Invariance, PTL DEF Spec
=============================================================================
