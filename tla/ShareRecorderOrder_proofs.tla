----------------------- MODULE ShareRecorderOrder_proofs -----------------------
(***************************************************************************)
(* Proofs about the order in which ShareRecorder persists shares, and about *)
(* how often it counts them: what is said of the windows, of the lines of   *)
(* the recovery file and of the rows of the table together.                 *)
(***************************************************************************)
EXTENDS ShareRecorder_proofs

Window == Seq(Share) \ {<<>>}

\* Every share of the window v was published before those of w.
Older(v, w) == \A r \in Range(v), s \in Range(w) : r < s

\* What is kept was published; the windows that wait, and after them the one that
\* is being filled, are in the order of publication; the import holds what it read.
OrderOK ==
  /\ \A s \in Share : Kept(s) => s <= published
  /\ \A i, j \in DOMAIN queue : i < j => Older(queue[i], queue[j])
  /\ \A i \in DOMAIN queue : Older(queue[i], buffer)
  /\ \A s \in Range(held) : Persisted(s)
  /\ InOrder

-----------------------------------------------------------------------------
(* Sequences, element by element. *)

LEMMA AppendElements ==
  ASSUME NEW S, NEW seq \in Seq(S), NEW e \in S
  PROVE  /\ Len(seq) \in Nat /\ DOMAIN seq = 1..Len(seq)
         /\ DOMAIN Append(seq, e) = 1..Len(seq) + 1
         /\ \A i \in 1..Len(seq) : Append(seq, e)[i] = seq[i]
         /\ Append(seq, e)[Len(seq) + 1] = e
<1>1. /\ Append(seq, e) \in Seq(S)
      /\ Len(Append(seq, e)) = Len(seq) + 1
      /\ \A i \in 1..Len(seq) : Append(seq, e)[i] = seq[i]
      /\ Append(seq, e)[Len(seq) + 1] = e
  BY AppendProperties
<1>2. Len(seq) \in Nat /\ DOMAIN seq = 1..Len(seq)
  BY LenProperties, Zenon
<1>3. DOMAIN Append(seq, e) = 1..Len(Append(seq, e))
  BY <1>1, LenProperties, Zenon
<1> QED
  BY <1>1, <1>2, <1>3

LEMMA TailElements ==
  ASSUME NEW S, NEW seq \in Seq(S), seq # <<>>
  PROVE  /\ Tail(seq) \in Seq(S) /\ 1 \in DOMAIN seq /\ Head(seq) = seq[1]
         /\ DOMAIN seq \subseteq Nat /\ DOMAIN Tail(seq) \subseteq Nat \ {0}
         /\ \A i \in DOMAIN Tail(seq) : i + 1 \in DOMAIN seq /\ Tail(seq)[i] = seq[i + 1]
<1>1. /\ Tail(seq) \in Seq(S) /\ Len(Tail(seq)) = Len(seq) - 1
      /\ \A i \in 1..Len(Tail(seq)) : Tail(seq)[i] = seq[i + 1]
  BY HeadTailProperties, Zenon
<1>2. Len(seq) \in Nat \ {0} /\ Head(seq) = seq[1]
  BY EmptySeq, LenProperties
<1>3. DOMAIN seq = 1..Len(seq) /\ DOMAIN Tail(seq) = 1..Len(Tail(seq))
  BY <1>1, LenProperties, Zenon
<1> QED
  BY <1>1, <1>2, <1>3

\* A write brings no lines but those it was given.
LEMMA WrittenBrings ==
  ASSUME file \in Seq(Line), NEW lines \in Seq(Line), lines # <<>>
  PROVE  Range(Written(lines)) \subseteq Range(file) \cup Range(lines)
<1>1. Range(lines) = {Head(lines)} \cup Range(Tail(lines))
  BY HeadTailRange
<1>2. Range(file \o Tail(lines)) = Range(file) \cup Range(Tail(lines))
  <2>1. Tail(lines) \in Seq(Line)
    BY HeadTailProperties
  <2> QED
    BY <2>1, RangeConcatenation, Zenon
<1>3. Range(file \o lines) = Range(file) \cup Range(lines)
  BY RangeConcatenation, Zenon
<1> QED
  BY <1>1, <1>2, <1>3 DEF Written

\* The lines of a write that was broken off.
PartOf(n, torn) == SubSeq(batch, 1, n) \o IF torn THEN <<Torn>> ELSE <<>>

LEMMA PartElements ==
  ASSUME batch \in Seq(Share), NEW n \in 0..Len(batch) - 1, NEW torn \in BOOLEAN
  PROVE  /\ PartOf(n, torn) \in Seq(Line)
         /\ Len(PartOf(n, torn)) \in {n, n + 1} /\ n \in Nat /\ 1..n \subseteq DOMAIN batch
         /\ \A i \in 1..n : PartOf(n, torn)[i] = batch[i]
         /\ \A i \in DOMAIN PartOf(n, torn) : i \in 1..n \/ (i = n + 1 /\ PartOf(n, torn)[i] = Torn)
<1> DEFINE end == IF torn THEN <<Torn>> ELSE <<>>
           whole == SubSeq(batch, 1, n)
<1>1. Len(batch) \in Nat /\ DOMAIN batch = 1..Len(batch) /\ n \in Nat /\ 1..n \subseteq 1..Len(batch)
  <2>1. Len(batch) \in Nat /\ DOMAIN batch = 1..Len(batch)
    BY LenProperties, Zenon
  <2> QED
    BY <2>1
<1>2. \A i \in 1..n : batch[i] \in Line
  BY <1>1, ElementOfSeq DEF Line
<1>3. /\ whole \in Seq(Line) /\ Len(whole) = n
      /\ \A i \in 1..n : whole[i] = batch[i]
  <2>1. /\ whole \in Seq(Line) /\ Len(whole) = IF 1 <= n THEN n - 1 + 1 ELSE 0
        /\ \A i \in 1..n - 1 + 1 : whole[i] = batch[1 + i - 1]
    BY <1>1, <1>2, SubSeqProperties
  <2> HIDE DEF whole
  <2> QED
    BY <1>1, <2>1
<1>4. end \in Seq(Line) /\ Len(end) \in {0, 1} /\ (Len(end) = 1 => end[1] = Torn)
  <2>1. Torn \in Line
    BY DEF Line
  <2>2. <<>> \in Seq(Line) /\ Len(<<>>) = 0
    BY EmptySeq
  <2>3. <<Torn>> \in Seq(Line) /\ Len(<<Torn>>) = 1 /\ <<Torn>>[1] = Torn
    BY <2>1
  <2> QED
    BY <2>2, <2>3
<1>5. PartOf(n, torn) = whole \o end
  BY DEF PartOf
<1> HIDE DEF whole, end
<1>6. /\ whole \o end \in Seq(Line)
      /\ Len(whole \o end) = Len(whole) + Len(end)
      /\ \A i \in 1..Len(whole) + Len(end) :
           (whole \o end)[i] = IF i <= Len(whole) THEN whole[i] ELSE end[i - Len(whole)]
  BY <1>3, <1>4, ConcatProperties
<1>7. DOMAIN PartOf(n, torn) = 1..Len(PartOf(n, torn))
  BY <1>5, <1>6, LenProperties, Zenon
<1> QED
  BY <1>1, <1>3, <1>4, <1>5, <1>6, <1>7

LEMMA PartBrings ==
  ASSUME file \in Seq(Line), batch \in Seq(Share),
         NEW n \in 0..Len(batch) - 1, NEW torn \in BOOLEAN
  PROVE  Range(WrittenInPart(n, torn)) \subseteq Range(file) \cup Range(batch) \cup {Torn}
<1>1. WrittenInPart(n, torn) = IF PartOf(n, torn) = <<>> THEN file ELSE Written(PartOf(n, torn))
  BY DEF WrittenInPart, PartOf
<1>2. PartOf(n, torn) \in Seq(Line)
  BY PartElements
<1>3. Range(PartOf(n, torn)) \subseteq Range(batch) \cup {Torn}
  BY PartElements DEF Range
<1> QED
  BY <1>1, <1>2, <1>3, WrittenBrings

-----------------------------------------------------------------------------
(* The order of publication. *)

LEMMA PublishOrder ==
  ASSUME IInv, OrderOK, Publish
  PROVE  OrderOK'
<1> DEFINE window == Append(buffer, published + 1)
<1>1. /\ queue \in Seq(Window) /\ buffer \in Seq(Share) /\ published \in Nat
      /\ published + 1 \in Share
  BY ConstantsAssumption DEF IInv, TypeOK, Publish, Share, Window
<1>2. window \in Window /\ Range(window) = Range(buffer) \cup {published + 1}
  BY <1>1, AppendRange, AppendProperties DEF Window
<1>3. /\ published' = published + 1
      /\ UNCHANGED <<batch, table, file, held, doubtful>>
      /\ \/ buffer' = <<>> /\ queue' = Append(queue, window)
         \/ buffer' = window /\ queue' = queue
  BY DEF Publish, reading
<1> HIDE DEF window
<1>4. Range(<<>>) = {}
  BY DEF Range
<1>5. Range(Append(queue, window)) = Range(queue) \cup {window}
  BY <1>1, <1>2, AppendRange
<1>6. Waiting' = Waiting \cup {published + 1}
  BY <1>2, <1>3, <1>4, <1>5 DEF Waiting
<1>7. \A s \in Share : Persisted(s)' <=> Persisted(s)
  BY <1>3 DEF Persisted
<1>8. Range(buffer) \subseteq Share /\ Range(batch) \subseteq Share
  BY <1>1, RangeOfSeq DEF IInv, TypeOK
<1>9. \A i \in DOMAIN queue : queue[i] \in Seq(Share)
  BY <1>1, LenProperties, ElementOfSeq DEF Window
<1>10. \A i \in DOMAIN queue : Range(queue[i]) \subseteq Waiting /\ Range(queue[i]) \subseteq Share
  BY <1>9, RangeOfSeq DEF Waiting, Range
<1>11. \A s \in Share : (s \in Waiting \cup Range(batch)) => s < published + 1
  BY <1>1 DEF OrderOK, Kept, InMemory, Share
<1>12. \A i \in DOMAIN queue : Older(queue[i], window)
  BY <1>2, <1>10, <1>11 DEF OrderOK, Older
<1>13. /\ \A i, j \in DOMAIN queue' : i < j => Older(queue'[i], queue'[j])
       /\ \A i \in DOMAIN queue' : Older(queue'[i], buffer')
  <2>1. CASE buffer' = <<>> /\ queue' = Append(queue, window)
    <3>1. /\ Len(queue) \in Nat /\ DOMAIN queue = 1..Len(queue)
          /\ DOMAIN queue' = 1..Len(queue) + 1
          /\ \A i \in 1..Len(queue) : queue'[i] = queue[i]
          /\ queue'[Len(queue) + 1] = window
      BY <1>1, <1>2, <2>1, AppendElements
    <3>2. \A i \in DOMAIN queue' : Older(queue'[i], buffer')
      BY <1>4, <2>1 DEF Older
    <3>3. \A i, j \in DOMAIN queue' : i < j => i \in DOMAIN queue /\ (j \in DOMAIN queue \/ j = Len(queue) + 1)
      BY <3>1
    <3> QED
      BY <1>12, <3>1, <3>2, <3>3 DEF OrderOK
  <2>2. CASE buffer' = window /\ queue' = queue
    BY <1>12, <2>2 DEF OrderOK
  <2> QED
    BY <1>3, <2>1, <2>2
<1>14. \A s \in Share : Kept(s)' => s <= published'
  BY <1>1, <1>3, <1>6, <1>7 DEF OrderOK, Kept, InMemory, Share
<1>15. InOrder'
  <2>1. \A s \in Share : Persisted(s) => s < published + 1
    BY <1>1 DEF OrderOK, Kept, Share
  <2> QED
    BY <1>3, <1>6, <1>7, <1>8, <1>11, <2>1 DEF OrderOK, InOrder
<1>16. \A s \in Range(held') : Persisted(s)'
  BY <1>3 DEF OrderOK, Persisted
<1> QED
  BY <1>13, <1>14, <1>15, <1>16 DEF OrderOK

LEMMA WindowOrder ==
  ASSUME IInv, OrderOK, WindowCloses \/ Take
  PROVE  OrderOK'
<1>1. queue \in Seq(Window) /\ buffer \in Seq(Share)
  BY DEF IInv, TypeOK, Window
<1>2. Range(<<>>) = {}
  BY DEF Range
<1>3. UNCHANGED <<published, table, file, held, doubtful>>
  BY DEF WindowCloses, Take, reading
<1>4. \A s \in Share : Persisted(s)' <=> Persisted(s)
  BY <1>3 DEF Persisted
<1>5. \A s \in Range(held') : Persisted(s)'
  BY <1>3 DEF OrderOK, Persisted
<1>6. CASE WindowCloses
  <2>1. /\ buffer \in Window /\ buffer' = <<>> /\ batch' = batch
        /\ queue' = Append(queue, buffer)
    BY <1>1, <1>6 DEF WindowCloses, Window
  <2>2. Range(queue') = Range(queue) \cup {buffer}
    BY <1>1, <2>1, AppendRange
  <2>3. Waiting' = Waiting
    BY <1>2, <2>1, <2>2 DEF Waiting
  <2>4. /\ Len(queue) \in Nat /\ DOMAIN queue = 1..Len(queue)
        /\ DOMAIN queue' = 1..Len(queue) + 1
        /\ \A i \in 1..Len(queue) : queue'[i] = queue[i]
        /\ queue'[Len(queue) + 1] = buffer
    BY <1>1, <2>1, AppendElements
  <2>5. \A i, j \in DOMAIN queue' : i < j => i \in DOMAIN queue /\ (j \in DOMAIN queue \/ j = Len(queue) + 1)
    BY <2>4
  <2>6. \A i, j \in DOMAIN queue' : i < j => Older(queue'[i], queue'[j])
    BY <2>4, <2>5 DEF OrderOK
  <2>7. \A i \in DOMAIN queue' : Older(queue'[i], buffer')
    BY <1>2, <2>1 DEF Older
  <2>8. InOrder'
    BY <1>3, <1>4, <2>1, <2>3 DEF OrderOK, InOrder, Persisted
  <2>9. \A s \in Share : Kept(s)' => s <= published'
    BY <1>3, <1>4, <2>1, <2>3 DEF OrderOK, Kept, InMemory
  <2> QED
    BY <1>5, <2>6, <2>7, <2>8, <2>9 DEF OrderOK
<1>7. CASE Take
  <2>1. /\ queue # <<>> /\ batch = <<>> /\ buffer' = buffer
        /\ batch' = Head(queue) /\ queue' = Tail(queue)
    BY <1>7 DEF Take, IInv, ProgressOK
  <2>2. Range(queue) = {Head(queue)} \cup Range(Tail(queue))
    BY <1>1, <2>1, HeadTailRange
  <2>3. Waiting = Range(batch') \cup Waiting'
    BY <2>1, <2>2 DEF Waiting
  <2>4. /\ 1 \in DOMAIN queue /\ batch' = queue[1]
        /\ DOMAIN queue \subseteq Nat /\ DOMAIN queue' \subseteq Nat \ {0}
        /\ \A i \in DOMAIN queue' : i + 1 \in DOMAIN queue /\ queue'[i] = queue[i + 1]
    BY <1>1, <2>1, TailElements
  <2>5. \A i, j \in DOMAIN queue' : i < j => Older(queue'[i], queue'[j])
    <3>1. \A i, j \in DOMAIN queue' : i < j => i + 1 < j + 1
      BY <2>4
    <3> QED
      BY <2>4, <3>1 DEF OrderOK
  <2>6. \A i \in DOMAIN queue' : Older(queue'[i], buffer')
    BY <2>1, <2>4 DEF OrderOK
  <2>7. \A i \in DOMAIN queue' : Older(batch', queue'[i])
    <3>1. \A i \in DOMAIN queue' : 1 < i + 1
      BY <2>4
    <3> QED
      BY <2>4, <3>1 DEF OrderOK
  <2>8. Older(batch', buffer')
    BY <2>1, <2>4 DEF OrderOK
  <2>9. \A s \in Waiting', r \in Range(batch') : r < s
    <3>1. \A w \in Range(queue') : \E i \in DOMAIN queue' : w = queue'[i]
      BY DEF Range
    <3> QED
      BY <2>7, <2>8, <3>1 DEF Waiting, Older
  <2>10. InOrder'
    BY <1>3, <1>4, <2>3, <2>9 DEF OrderOK, InOrder
  <2>11. \A s \in Share : Kept(s)' => s <= published'
    BY <1>3, <1>4, <2>3 DEF OrderOK, Kept, InMemory
  <2> QED
    BY <1>5, <2>5, <2>6, <2>10, <2>11 DEF OrderOK
<1> QED
  BY <1>6, <1>7

\* One window against the database or into the file: what waits is left alone, and
\* what is persisted anew is of the window, which is done or was committed in doubt.
LEMMA BatchOrder ==
  ASSUME IInv, OrderOK, UNCHANGED <<published, buffer, queue, held>>,
         \A s \in Share : Persisted(s)' => Persisted(s) \/ s \in Range(batch),
         \A s \in Range(held) : Persisted(s)',
         doubtful \subseteq doubtful',
         \/ batch' = <<>>
         \/ batch' = batch /\ \A s \in Share \ doubtful' : Persisted(s)' => Persisted(s)
  PROVE  OrderOK'
<1>1. Range(<<>>) = {}
  BY DEF Range
<1>2. Waiting' = Waiting
  BY DEF Waiting
<1>3. Range(batch') \subseteq Range(batch)
  BY <1>1
<1>4. \A s \in Share : Kept(s)' => Kept(s)
  BY <1>2, <1>3 DEF Kept, InMemory
<1>5. \A s \in Share : Kept(s)' => s <= published'
  BY <1>4 DEF OrderOK
<1>6. /\ \A s \in Waiting', r \in Range(batch') : r < s
      /\ \A s \in Waiting', r \in Share : Persisted(r)' => r < s
  BY <1>2, <1>3 DEF OrderOK, InOrder
<1>7. \A s \in Range(batch'), r \in Share \ doubtful' : Persisted(r)' => r < s
  <2>1. CASE batch' = <<>>
    BY <1>1, <2>1
  <2>2. CASE batch' = batch /\ \A s \in Share \ doubtful' : Persisted(s)' => Persisted(s)
    BY <2>2 DEF OrderOK, InOrder
  <2> QED
    BY <2>1, <2>2
<1>8. InOrder'
  BY <1>6, <1>7 DEF InOrder
<1>9. \A s \in Range(held') : Persisted(s)'
  OBVIOUS
<1> QED
  BY <1>5, <1>8, <1>9 DEF OrderOK

\* What is inserted are the shares, and nothing else.
LEMMA InsertBrings ==
  ASSUME table \in [Share -> Nat], NEW shares \in Seq(Share), Insert(shares), file' = file
  PROVE  \A s \in Share : Persisted(s)' <=> Persisted(s) \/ s \in Range(shares)
BY DEF Insert, Persisted

LEMMA TryOrder ==
  ASSUME IInv, OrderOK,
         Commit \/ CannotCommit \/ CommitReplyLost \/ UnexpectedError \/ WriteFile \/ WriteFails
  PROVE  OrderOK'
<1>1. /\ file \in Seq(Line) /\ batch \in Seq(Share) /\ table \in [Share -> Nat]
      /\ Range(batch) \subseteq Share
  BY RangeOfSeq DEF IInv, TypeOK, Line
<1>2. UNCHANGED <<published, buffer, queue, held>>
  BY DEF Commit, CannotCommit, CommitReplyLost, UnexpectedError, WriteFile, WriteFails, reading, memory
<1>3. CASE Commit
  <2>1. Insert(batch) /\ file' = file /\ batch' = <<>> /\ doubtful' = doubtful
    BY <1>3 DEF Commit, BatchDone
  <2>2. \A s \in Share : Persisted(s)' <=> Persisted(s) \/ s \in Range(batch)
    BY <1>1, <2>1, InsertBrings
  <2>3. \A s \in Range(held) : Persisted(s)'
    BY <2>2, RangeOfSeq DEF OrderOK, IInv, TypeOK
  <2> QED
    BY <1>2, <2>1, <2>2, <2>3, BatchOrder
<1>4. CASE CommitReplyLost
  <2>1. Insert(batch) /\ file' = file /\ batch' = batch /\ doubtful' = doubtful \cup Range(batch)
    BY <1>4 DEF CommitReplyLost, memory
  <2>2. \A s \in Share : Persisted(s)' <=> Persisted(s) \/ s \in Range(batch)
    BY <1>1, <2>1, InsertBrings
  <2>3. \A s \in Range(held) : Persisted(s)'
    BY <2>2, RangeOfSeq DEF OrderOK, IInv, TypeOK
  <2>4. \A s \in Share \ doubtful' : Persisted(s)' => Persisted(s)
    BY <2>1, <2>2
  <2> QED
    BY <1>2, <2>1, <2>2, <2>3, <2>4, BatchOrder
<1>5. CASE CannotCommit \/ UnexpectedError
  <2>1. UNCHANGED <<table, file, doubtful>> /\ (batch' = <<>> \/ batch' = batch)
    BY <1>5 DEF CannotCommit, UnexpectedError, BatchDone, memory
  <2>2. \A s : Persisted(s)' <=> Persisted(s)
    BY <2>1 DEF Persisted
  <2>3. \A s \in Range(held) : Persisted(s)'
    BY <2>2 DEF OrderOK
  <2> QED
    BY <1>2, <2>1, <2>2, <2>3, BatchOrder
<1>6. CASE WriteFile \/ WriteFails
  <2>1. UNCHANGED <<table, doubtful>> /\ batch' = <<>> /\ pc = "file"
    BY <1>6 DEF WriteFile, WriteFails, BatchDone
  <2>2. batch \in Seq(Line) /\ batch # <<>>
    BY <1>1, <2>1, SeqMonotonic DEF Line, IInv, ProgressOK
  <2>3. /\ Range(file) \subseteq Range(file')
        /\ Range(file') \subseteq Range(file) \cup Range(batch) \cup {Torn}
    <3>1. CASE WriteFile
      BY <1>1, <2>2, <3>1, WrittenLines, WrittenBrings DEF WriteFile
    <3>2. CASE WriteFails
      BY <1>1, <3>2, WrittenInPartLines, PartBrings DEF WriteFails
    <3> QED
      BY <1>6, <3>1, <3>2
  <2>4. \A s \in Share : Persisted(s)' => Persisted(s) \/ s \in Range(batch)
    BY <2>1, <2>3 DEF Persisted, Share, Torn
  <2>5. \A s \in Range(held) : Persisted(s)'
    BY <2>1, <2>3 DEF OrderOK, Persisted
  <2> QED
    BY <1>2, <2>1, <2>4, <2>5, BatchOrder
<1> QED
  BY <1>3, <1>4, <1>5, <1>6

\* Steps with nothing in memory before and after them.
LEMMA OfflineOrder ==
  ASSUME IInv, IInv', OrderOK, mode # "pool",
         StartPool \/ StartImport \/ ReadLine \/ Import \/ ImportFails \/ ImportReplyLost
         \/ FinishImport \/ RemoveFile \/ ProcessEnds
  PROVE  OrderOK'
<1>1. /\ file \in Seq(Line) /\ held \in Seq(Share) /\ table \in [Share -> Nat]
      /\ Range(held) \subseteq Share
  BY RangeOfSeq DEF IInv, TypeOK, Line
<1>2. /\ batch = <<>> /\ batch' = <<>> /\ queue' = <<>> /\ buffer' = <<>>
  <2>1. CASE StartPool
    BY <2>1 DEF StartPool, memory, IInv, TypeOK
  <2>2. CASE mode' # "pool"
    BY <2>2 DEF IInv, TypeOK
  <2>3. mode' = "pool" => StartPool
    BY DEF StartImport, ReadLine, Import, ImportFails, ImportReplyLost, FinishImport,
           RemoveFile, ProcessEnds, KeepHeld, InsertNow
  <2> QED
    BY <2>1, <2>2, <2>3
<1>3. Range(<<>>) = {} /\ DOMAIN <<>> = {}
  BY DEF Range
<1>4. Waiting' = {} /\ Range(batch') = {} /\ DOMAIN queue' = {}
  BY <1>2, <1>3 DEF Waiting
<1>5. \A s \in Share : Persisted(s)' => Persisted(s)
  <2>1. CASE StartPool \/ StartImport \/ ReadLine \/ ImportFails \/ FinishImport
    <3>1. UNCHANGED <<table, file>>
      BY <2>1 DEF StartPool, StartImport, ReadLine, ImportFails, FinishImport
    <3> QED
      BY <3>1 DEF Persisted
  <2>2. CASE Import \/ ImportReplyLost
    <3>1. Insert(held) /\ file' = file
      BY <2>2 DEF Import, ImportReplyLost
    <3> QED
      BY <1>1, <3>1, InsertBrings DEF OrderOK
  <2>3. CASE RemoveFile
    BY <1>3, <2>3 DEF RemoveFile, Persisted
  <2>4. CASE ProcessEnds
    <3>1. table' = table /\ Range(file') \subseteq Range(file) \cup {Torn}
      BY <1>1, <1>2, <1>3, <2>4, PartBrings DEF ProcessEnds, IInv, TypeOK
    <3> QED
      BY <3>1 DEF Persisted, Share, Torn
  <2> QED
    BY <2>1, <2>2, <2>3, <2>4
<1>6. published' = published
  BY DEF StartPool, StartImport, ReadLine, Import, ImportFails, ImportReplyLost,
         FinishImport, RemoveFile, ProcessEnds
<1>7. \A s \in Share : Kept(s)' => s <= published'
  BY <1>4, <1>5, <1>6 DEF OrderOK, Kept, InMemory
<1>8. \A s \in Range(held') : Persisted(s)'
  <2>1. CASE mode' = "import" /\ ReadLine
    <3>1. Range(held') \subseteq Range(held) \cup {file[line]} /\ line \in DOMAIN file
          /\ file[line] \in Share \cup {Torn} /\ UNCHANGED <<table, file>>
      <4>1. Len(file) \in Nat /\ DOMAIN file = 1..Len(file)
        BY <1>1, LenProperties, Zenon
      <4>2. line \in 1..Len(file)
        BY <2>1, <4>1 DEF ReadLine, IInv, TypeOK
      <4>3. file[line] \in Share \cup {Torn}
        BY <1>1, <4>2, ElementOfSeq, Zenon DEF Line
      <4>4. CASE file[line] = Torn
        BY <2>1, <4>1, <4>2, <4>3, <4>4 DEF ReadLine
      <4>5. CASE file[line] # Torn
        <5>1. held' = Append(held, file[line]) /\ file[line] \in Share
          BY <2>1, <4>3, <4>5 DEF ReadLine
        <5>2. Range(held') = Range(held) \cup {file[line]}
          BY <1>1, <5>1, AppendRange
        <5> QED
          BY <2>1, <4>1, <4>2, <4>3, <5>2 DEF ReadLine
      <4> QED
        BY <4>4, <4>5
    <3>2. file[line] \in Range(file)
      BY <3>1 DEF Range
    <3> QED
      BY <3>1, <3>2 DEF OrderOK, Persisted
  <2>2. CASE mode' = "import" /\ (ImportFails \/ ImportReplyLost)
    <3>1. held' = held /\ file' = file
      BY <2>2 DEF ImportFails, ImportReplyLost, KeepHeld
    <3>2. table' = table \/ Insert(held)
      BY <2>2 DEF ImportFails, ImportReplyLost
    <3>3. \A s \in Share : table[s] > 0 => table'[s] > 0
      BY <1>1, <3>2, InsertAdds
    <3> QED
      BY <1>1, <3>1, <3>3 DEF OrderOK, Persisted
  <2>3. CASE mode' # "import" \/ Import \/ StartImport
    <3>1. held' = <<>>
      BY <2>3 DEF IInv, ProgressOK, Import, StartImport, reading
    <3> QED
      BY <1>3, <3>1
  <2>4. mode' = "import" => ReadLine \/ ImportFails \/ ImportReplyLost \/ Import \/ StartImport
    BY DEF StartPool, FinishImport, RemoveFile, ProcessEnds
  <2> QED
    BY <2>1, <2>2, <2>3, <2>4
<1> QED
  BY <1>4, <1>7, <1>8 DEF OrderOK, InOrder

\* The pool ends: its memory is gone, and the file has at most some of the window.
LEMMA PoolEndsOrder ==
  ASSUME IInv, IInv', OrderOK, mode = "pool", ProcessEnds
  PROVE  OrderOK'
<1>1. /\ file \in Seq(Line) /\ batch \in Seq(Share)
      /\ batch' = <<>> /\ queue' = <<>> /\ buffer' = <<>> /\ held' = <<>>
      /\ published' = published /\ table' = table
  BY DEF IInv, TypeOK, Line, ProcessEnds, Forget
<1>2. Range(<<>>) = {} /\ DOMAIN <<>> = {}
  BY DEF Range
<1>3. Waiting' = {} /\ Range(batch') = {} /\ DOMAIN queue' = {}
  BY <1>1, <1>2 DEF Waiting
<1>4. Range(file') \subseteq Range(file) \cup Range(batch) \cup {Torn}
  BY <1>1, PartBrings DEF ProcessEnds
<1>5. \A s \in Share : Kept(s)' => Kept(s)
  BY <1>1, <1>3, <1>4 DEF Kept, InMemory, Persisted, Share, Torn
<1> QED
  BY <1>1, <1>2, <1>3, <1>5 DEF OrderOK, InOrder

LEMMA StillOrder ==
  ASSUME OrderOK,
         UNCHANGED <<published, buffer, queue, batch, held, table, file, doubtful>>
  PROVE  OrderOK'
BY DEF OrderOK, InOrder, Older, Kept, InMemory, Persisted, Waiting

LEMMA NextOrder == IInv /\ IInv' /\ OrderOK /\ [Next]_vars => OrderOK'
<1>1. SUFFICES ASSUME IInv, IInv', OrderOK, [Next]_vars PROVE OrderOK'
  OBVIOUS
<1>2. CASE Publish
  BY <1>1, <1>2, PublishOrder
<1>3. CASE WindowCloses \/ Take
  BY <1>1, <1>3, WindowOrder
<1>4. CASE Commit \/ CannotCommit \/ CommitReplyLost \/ UnexpectedError \/ WriteFile \/ WriteFails
  BY <1>1, <1>4, TryOrder
<1>5. CASE StartPool \/ StartImport \/ ReadLine \/ Import \/ ImportFails \/ ImportReplyLost
           \/ FinishImport \/ RemoveFile \/ ProcessEnds
  <2>1. CASE mode # "pool"
    BY <1>1, <1>5, <2>1, OfflineOrder
  <2>2. CASE mode = "pool"
    <3>1. ProcessEnds
      BY <1>5, <2>2 DEF StartPool, StartImport, ReadLine, Import, ImportFails,
                        ImportReplyLost, FinishImport, RemoveFile, InsertNow
    <3> QED
      BY <1>1, <2>2, <3>1, PoolEndsOrder
  <2> QED
    BY <2>1, <2>2
<1>6. CASE MinutePasses \/ DatabaseFails \/ DatabaseReturns \/ UNCHANGED vars
  <2>1. UNCHANGED <<published, buffer, queue, batch, held, table, file, doubtful>>
    BY <1>6 DEF MinutePasses, DatabaseFails, DatabaseReturns, vars, memory, reading
  <2> QED
    BY <1>1, <2>1, StillOrder
<1> QED
  BY <1>1, <1>2, <1>3, <1>4, <1>5, <1>6 DEF Next, Persist

LEMMA InitOrder == Init => OrderOK
<1>1. SUFFICES ASSUME Init PROVE OrderOK
  OBVIOUS
<1>2. Range(<<>>) = {} /\ DOMAIN <<>> = {}
  BY DEF Range
<1>3. Waiting = {} /\ Range(batch) = {} /\ Range(held) = {} /\ DOMAIN queue = {}
  BY <1>1, <1>2 DEF Init, Waiting
<1>4. \A s \in Share : ~Persisted(s)
  BY <1>1, <1>2 DEF Init, Persisted
<1> QED
  BY <1>3, <1>4 DEF OrderOK, InOrder, Kept, InMemory

LEMMA OrderInvariance == Spec => []OrderOK
<1>1. Init => OrderOK
  BY InitOrder
<1>2. IInv /\ IInv' /\ OrderOK /\ [Next]_vars => OrderOK'
  BY NextOrder
<1> QED
  BY <1>1, <1>2, Invariance, PTL DEF Spec

\* Windows reach the database or the file in the order of publication: what waits
\* is younger than the window under way and than all that is persisted, and the
\* window under way is younger than what is persisted, unless the program does not
\* know that it committed it (the Concat of ShareRecorder.ExecuteAsync).
THEOREM PersistedInOrder == Spec => []InOrder
<1>1. OrderOK => InOrder
  BY DEF OrderOK
<1> QED
  BY <1>1, OrderInvariance, PTL

-----------------------------------------------------------------------------
(* Rows and lines. *)

Increasing(w) == \A i, j \in DOMAIN w : i < j => w[i] < w[j]

\* No share is twice in a window.
WindowsOK ==
  /\ \A w \in Range(queue) : Increasing(w)
  /\ Increasing(buffer)
  /\ Increasing(batch)

\* No share has two of the lines, unless it is in doubt.
Once(lines) == \A i, j \in DOMAIN lines : lines[i] = lines[j] /\ lines[i] \in Share \ doubtful => i = j

\* What the import will insert: it holds it, or the line is yet to be read.
Pending(s) == s \in Range(held) \/ \E i \in DOMAIN file : line <= i /\ file[i] = s

\* The file has a share once; what the import holds comes from the lines it has
\* read; and what it has not inserted has fewer rows than there were imports.
LinesOK ==
  /\ Once(file)
  /\ mode = "import" =>
       /\ \A s \in Range(held) : \E i \in DOMAIN file : i < line /\ file[i] = s
       /\ \A s \in Share \ doubtful : Pending(s) => table[s] < imports

LEMMA EmptySequence == Range(<<>>) = {} /\ Increasing(<<>>) /\ Once(<<>>)
BY DEF Range, Increasing, Once

LEMMA PublishWindows ==
  ASSUME IInv, OrderOK, WindowsOK, Publish
  PROVE  WindowsOK'
<1> DEFINE window == Append(buffer, published + 1)
<1>1. /\ queue \in Seq(Window) /\ buffer \in Seq(Share) /\ published + 1 \in Share
      /\ published \in Nat /\ batch' = batch
      /\ \/ buffer' = <<>> /\ queue' = Append(queue, window)
         \/ buffer' = window /\ queue' = queue
  BY ConstantsAssumption DEF IInv, TypeOK, Publish, Share, Window
<1>2. /\ Len(buffer) \in Nat /\ DOMAIN buffer = 1..Len(buffer)
      /\ DOMAIN window = 1..Len(buffer) + 1
      /\ \A i \in 1..Len(buffer) : window[i] = buffer[i]
      /\ window[Len(buffer) + 1] = published + 1
  BY <1>1, AppendElements
<1>3. window \in Window
  BY <1>1, AppendProperties DEF Window
<1>4. \A i \in DOMAIN buffer : buffer[i] \in Share /\ buffer[i] < published + 1
  <2>1. \A i \in DOMAIN buffer : buffer[i] \in Share /\ buffer[i] \in Range(buffer)
    BY <1>1, <1>2, ElementOfSeq DEF Range
  <2> QED
    BY <1>1, <2>1 DEF OrderOK, Kept, InMemory, Waiting, Share
<1> HIDE DEF window
<1>5. Increasing(window)
  <2>1. \A i, j \in DOMAIN window : i < j =>
          i \in DOMAIN buffer /\ (j \in DOMAIN buffer \/ j = Len(buffer) + 1)
    BY <1>2
  <2> QED
    BY <1>2, <1>4, <2>1 DEF WindowsOK, Increasing
<1>6. Range(Append(queue, window)) = Range(queue) \cup {window}
  BY <1>1, <1>3, AppendRange
<1> QED
  BY <1>1, <1>5, <1>6, EmptySequence DEF WindowsOK

LEMMA NextWindows == IInv /\ IInv' /\ OrderOK /\ WindowsOK /\ [Next]_vars => WindowsOK'
<1>1. SUFFICES ASSUME IInv, IInv', OrderOK, WindowsOK, [Next]_vars PROVE WindowsOK'
  OBVIOUS
<1>2. queue \in Seq(Window) /\ buffer \in Seq(Share)
  BY <1>1 DEF IInv, TypeOK, Window
<1>3. CASE Publish
  BY <1>1, <1>3, PublishWindows
<1>4. CASE WindowCloses
  <2>1. /\ buffer \in Window /\ buffer' = <<>> /\ batch' = batch /\ queue' = Append(queue, buffer)
    BY <1>2, <1>4 DEF WindowCloses, Window
  <2>2. Range(queue') = Range(queue) \cup {buffer}
    BY <1>2, <2>1, AppendRange
  <2> QED
    BY <1>1, <2>1, <2>2, EmptySequence DEF WindowsOK
<1>5. CASE Take
  <2>1. /\ queue # <<>> /\ buffer' = buffer /\ batch' = Head(queue) /\ queue' = Tail(queue)
    BY <1>5 DEF Take
  <2>2. Range(queue) = {Head(queue)} \cup Range(Tail(queue))
    BY <1>2, <2>1, HeadTailRange
  <2> QED
    BY <1>1, <2>1, <2>2 DEF WindowsOK
<1>6. CASE mode' # "pool"
  BY <1>1, <1>6, EmptySequence DEF IInv, TypeOK, WindowsOK
<1>7. CASE /\ mode' = "pool"
           /\ Commit \/ CannotCommit \/ CommitReplyLost \/ UnexpectedError \/ WriteFile \/ WriteFails
              \/ MinutePasses \/ StartPool \/ StartImport \/ ReadLine \/ Import \/ ImportFails
              \/ ImportReplyLost \/ FinishImport \/ RemoveFile \/ ProcessEnds
              \/ DatabaseFails \/ DatabaseReturns \/ UNCHANGED vars
  <2>1. UNCHANGED <<buffer, queue>> /\ (batch' = batch \/ batch' = <<>>)
    BY <1>7 DEF Commit, CannotCommit, CommitReplyLost, UnexpectedError, WriteFile, WriteFails,
                MinutePasses, StartPool, StartImport, ReadLine, Import, ImportFails, KeepHeld,
                ImportReplyLost, FinishImport, RemoveFile, ProcessEnds, InsertNow,
                DatabaseFails, DatabaseReturns, BatchDone, memory, vars
  <2> QED
    BY <1>1, <2>1, EmptySequence DEF WindowsOK
<1> QED
  BY <1>1, <1>3, <1>4, <1>5, <1>6, <1>7 DEF Next, Persist

-----------------------------------------------------------------------------
(* A write leaves every share its one line. *)

LEMMA OnceTail ==
  ASSUME NEW lines \in Seq(Line), lines # <<>>, Once(lines)
  PROVE  Once(Tail(lines)) /\ Range(Tail(lines)) \subseteq Range(lines)
<1>1. /\ DOMAIN Tail(lines) \subseteq Nat \ {0}
      /\ \A i \in DOMAIN Tail(lines) : i + 1 \in DOMAIN lines /\ Tail(lines)[i] = lines[i + 1]
  BY TailElements
<1>2. Once(Tail(lines))
  <2>1. SUFFICES ASSUME NEW i \in DOMAIN Tail(lines), NEW j \in DOMAIN Tail(lines),
                        Tail(lines)[i] = Tail(lines)[j], Tail(lines)[i] \in Share \ doubtful
                 PROVE  i = j
    BY DEF Once
  <2>2. i + 1 = j + 1
    BY <1>1, <2>1 DEF Once
  <2> QED
    BY <1>1, <2>2
<1> QED
  BY <1>2, HeadTailRange

LEMMA OnceConcat ==
  ASSUME NEW front \in Seq(Line), NEW back \in Seq(Line), Once(front), Once(back),
         \A s \in Share \ doubtful : ~(s \in Range(front) /\ s \in Range(back))
  PROVE  Once(front \o back)
<1>1. /\ front \o back \in Seq(Line)
      /\ Len(front \o back) = Len(front) + Len(back)
      /\ \A i \in 1..Len(front) + Len(back) :
           (front \o back)[i] = IF i <= Len(front) THEN front[i] ELSE back[i - Len(front)]
  BY ConcatProperties
<1>2. Len(front) \in Nat /\ DOMAIN front = 1..Len(front)
  BY LenProperties, Zenon
<1>3. Len(back) \in Nat /\ DOMAIN back = 1..Len(back)
  BY LenProperties, Zenon
<1>4. DOMAIN (front \o back) = 1..Len(front \o back)
  BY <1>1, LenProperties, Zenon
<1>5. \A i \in DOMAIN (front \o back) :
        \/ i \in DOMAIN front /\ (front \o back)[i] = front[i] /\ front[i] \in Range(front)
        \/ /\ i - Len(front) \in DOMAIN back /\ (front \o back)[i] = back[i - Len(front)]
           /\ back[i - Len(front)] \in Range(back)
  <2>1. \A i \in DOMAIN (front \o back) :
          \/ i \in DOMAIN front /\ (front \o back)[i] = front[i]
          \/ i - Len(front) \in DOMAIN back /\ (front \o back)[i] = back[i - Len(front)]
    BY <1>1, <1>2, <1>3, <1>4
  <2> QED
    BY <2>1 DEF Range
<1>6. SUFFICES ASSUME NEW i \in DOMAIN (front \o back), NEW j \in DOMAIN (front \o back),
                      (front \o back)[i] = (front \o back)[j],
                      (front \o back)[i] \in Share \ doubtful
               PROVE  i = j
  BY DEF Once
<1>7. CASE i \in DOMAIN front /\ j \in DOMAIN front /\ front[i] = front[j] /\ front[i] \in Share \ doubtful
  BY <1>7 DEF Once
<1>8. CASE /\ i - Len(front) \in DOMAIN back /\ j - Len(front) \in DOMAIN back
           /\ back[i - Len(front)] = back[j - Len(front)] /\ back[i - Len(front)] \in Share \ doubtful
  <2>1. i - Len(front) = j - Len(front)
    BY <1>8 DEF Once
  <2> QED
    BY <1>1, <1>2, <1>4, <2>1
<1> QED
  BY <1>5, <1>6, <1>7, <1>8

LEMMA OnceWritten ==
  ASSUME file \in Seq(Line), Once(file), NEW lines \in Seq(Line), Once(lines), lines # <<>>,
         \A s \in Share \ doubtful : ~(s \in Range(file) /\ s \in Range(lines))
  PROVE  Once(Written(lines))
<1>1. Tail(lines) \in Seq(Line) /\ Once(Tail(lines)) /\ Range(Tail(lines)) \subseteq Range(lines)
  BY OnceTail, HeadTailProperties
<1>2. Once(file \o Tail(lines))
  BY <1>1, OnceConcat
<1>3. Once(file \o lines)
  BY OnceConcat
<1> QED
  BY <1>2, <1>3 DEF Written

LEMMA OnceIncreasing ==
  ASSUME NEW w \in Seq(Share), Increasing(w)
  PROVE  Once(w)
<1>1. DOMAIN w = 1..Len(w) /\ Len(w) \in Nat
  BY LenProperties, Zenon
<1>2. \A i \in DOMAIN w : w[i] \in Share
  BY <1>1, ElementOfSeq
<1>3. \A s \in Share : s \in Nat /\ ~(s < s)
  BY DEF Share
<1>4. \A i, j \in DOMAIN w : i < j \/ j < i \/ i = j
  BY <1>1
<1> QED
  BY <1>2, <1>3, <1>4 DEF Increasing, Once

LEMMA OncePart ==
  ASSUME batch \in Seq(Share), Once(batch), NEW n \in 0..Len(batch) - 1, NEW torn \in BOOLEAN
  PROVE  Once(PartOf(n, torn)) /\ Range(PartOf(n, torn)) \subseteq Range(batch) \cup {Torn}
<1>1. /\ n \in Nat /\ 1..n \subseteq DOMAIN batch
      /\ \A i \in 1..n : PartOf(n, torn)[i] = batch[i]
      /\ \A i \in DOMAIN PartOf(n, torn) : i \in 1..n \/ (i = n + 1 /\ PartOf(n, torn)[i] = Torn)
  BY PartElements
<1>2. Torn \notin Share
  BY DEF Torn, Share
<1> QED
  BY <1>1, <1>2 DEF Once, Range

-----------------------------------------------------------------------------
(* The steps that persist a window, and those of the import. *)

\* A window that is not in doubt has neither rows nor lines.
LEMMA BatchIsNew ==
  ASSUME IInv, OrderOK, NEW s \in Share \ doubtful, s \in Range(batch)
  PROVE  table[s] = 0 /\ s \notin Range(file)
<1>1. ~Persisted(s)
  BY DEF OrderOK, InOrder, Share
<1>2. table[s] \in Nat
  BY DEF IInv, TypeOK
<1> QED
  BY <1>1, <1>2 DEF Persisted

LEMMA CommitCounts ==
  ASSUME IInv, OrderOK, LinesOK, CountedOnce, Commit \/ CommitReplyLost
  PROVE  LinesOK' /\ CountedOnce'
<1>1. /\ Insert(batch) /\ mode' = "pool" /\ UNCHANGED <<file, imports>>
      /\ doubtful \subseteq doubtful' /\ (CommitReplyLost => doubtful' = doubtful \cup Range(batch))
      /\ table \in [Share -> Nat]
  BY DEF Commit, CommitReplyLost, IInv, TypeOK
<1>2. LinesOK'
  BY <1>1 DEF LinesOK, Once
<1>3. SUFFICES ASSUME NEW s \in Share \ doubtful'
               PROVE  \/ table'[s] <= imports
                      \/ table'[s] = 1 /\ s \notin Range(file)
                      \/ table'[s] = 0
  BY <1>1, <1>2 DEF CountedOnce
<1>4. CASE s \in Range(batch)
  <2>1. table[s] = 0 /\ s \notin Range(file)
    BY <1>1, <1>3, <1>4, BatchIsNew
  <2> QED
    BY <1>1, <1>3, <1>4, <2>1 DEF Insert
<1>5. CASE s \notin Range(batch)
  <2>1. table'[s] = table[s]
    BY <1>1, <1>3, <1>5 DEF Insert
  <2> QED
    BY <1>1, <1>3, <2>1 DEF CountedOnce
<1> QED
  BY <1>4, <1>5

LEMMA WriteCounts ==
  ASSUME IInv, OrderOK, WindowsOK, LinesOK, CountedOnce,
         mode' # "import", UNCHANGED <<table, imports, doubtful>>,
         \/ file' = file
         \/ batch # <<>> /\ file' = Written(batch)
         \/ \E n \in 0..Len(batch) - 1, torn \in BOOLEAN : file' = WrittenInPart(n, torn)
  PROVE  LinesOK' /\ CountedOnce'
<1>1. file \in Seq(Line) /\ batch \in Seq(Share) /\ batch \in Seq(Line)
  BY SeqMonotonic DEF IInv, TypeOK, Line
<1>2. Once(batch) /\ Once(file)
  BY <1>1, OnceIncreasing DEF WindowsOK, LinesOK
<1>3. \A s \in Share \ doubtful : ~(s \in Range(file) /\ s \in Range(batch))
  BY BatchIsNew
<1>4. Once(file') /\ Range(file') \subseteq Range(file) \cup Range(batch) \cup {Torn}
  <2>1. CASE file' = file
    BY <1>2, <2>1
  <2>2. CASE batch # <<>> /\ file' = Written(batch)
    BY <1>1, <1>2, <1>3, <2>2, OnceWritten, WrittenBrings
  <2>3. ASSUME NEW n \in 0..Len(batch) - 1, NEW torn \in BOOLEAN, file' = WrittenInPart(n, torn)
        PROVE  Once(file') /\ Range(file') \subseteq Range(file) \cup Range(batch) \cup {Torn}
    <3>1. file' = IF PartOf(n, torn) = <<>> THEN file ELSE Written(PartOf(n, torn))
      BY <2>3 DEF WrittenInPart, PartOf
    <3>2. /\ PartOf(n, torn) \in Seq(Line) /\ Once(PartOf(n, torn))
          /\ Range(PartOf(n, torn)) \subseteq Range(batch) \cup {Torn}
      BY <1>1, <1>2, PartElements, OncePart
    <3>3. \A s \in Share \ doubtful : ~(s \in Range(file) /\ s \in Range(PartOf(n, torn)))
      BY <1>3, <3>2 DEF Share, Torn
    <3>4. PartOf(n, torn) # <<>> => Once(Written(PartOf(n, torn)))
      BY <1>1, <1>2, <3>2, <3>3, OnceWritten
    <3>5. Range(WrittenInPart(n, torn)) \subseteq Range(file) \cup Range(batch) \cup {Torn}
      BY <1>1, PartBrings
    <3> QED
      BY <1>2, <2>3, <3>1, <3>4, <3>5
  <2> QED
    BY <2>1, <2>2, <2>3
<1>5. LinesOK'
  BY <1>4 DEF LinesOK, Once
<1>6. \A s \in Share \ doubtful : s \in Range(file') => s \in Range(file) \/ table[s] = 0
  BY <1>4, BatchIsNew DEF Share, Torn
<1>7. CountedOnce'
  BY <1>6 DEF CountedOnce
<1> QED
  BY <1>5, <1>7

LEMMA StartImportCounts ==
  ASSUME IInv, LinesOK, CountedOnce, StartImport
  PROVE  LinesOK' /\ CountedOnce'
<1>1. /\ imports' = imports + 1 /\ held' = <<>> /\ UNCHANGED <<table, file, doubtful>>
      /\ imports \in Nat /\ table \in [Share -> Nat]
  BY DEF StartImport, IInv, TypeOK, ProgressOK, reading
<1>2. \A s \in Share : Pending(s)' => s \in Range(file)
  BY <1>1, EmptySequence DEF Pending, Range
<1>3. \A s \in Share \ doubtful : s \in Range(file) => table[s] <= imports
  BY <1>1 DEF CountedOnce
<1>4. \A s \in Share \ doubtful' : Pending(s)' => table'[s] < imports'
  BY <1>1, <1>2, <1>3
<1>5. CountedOnce'
  BY <1>1 DEF CountedOnce
<1> QED
  BY <1>1, <1>4, <1>5, EmptySequence DEF LinesOK, Once

LEMMA ReadCounts ==
  ASSUME IInv, LinesOK, CountedOnce, ReadLine
  PROVE  LinesOK' /\ CountedOnce'
<1>1. /\ UNCHANGED <<table, file, doubtful, imports, mode>> /\ line' = line + 1
      /\ file \in Seq(Line) /\ held \in Seq(Share) /\ line \in Nat /\ mode = "import"
      /\ held' = IF file[line] = Torn THEN held ELSE Append(held, file[line])
  BY DEF ReadLine, IInv, TypeOK, Line
<1>2. DOMAIN file \subseteq Nat /\ line \in DOMAIN file /\ file[line] \in Line
  <2>1. Len(file) \in Nat /\ DOMAIN file = 1..Len(file)
    BY <1>1, LenProperties, Zenon
  <2>2. line \in 1..Len(file)
    BY <2>1 DEF ReadLine, IInv, TypeOK
  <2> QED
    BY <1>1, <2>1, <2>2, ElementOfSeq
<1>3. Range(held') \subseteq Range(held) \cup {file[line]}
  <2>1. CASE file[line] = Torn
    BY <1>1, <2>1
  <2>2. CASE file[line] # Torn
    <3>1. file[line] \in Share /\ held' = Append(held, file[line])
      BY <1>1, <1>2, <2>2 DEF Line
    <3> QED
      BY <1>1, <3>1, AppendRange
  <2> QED
    BY <2>1, <2>2
<1>4. \A s \in Range(held') : \E i \in DOMAIN file : i < line + 1 /\ file[i] = s
  <2>1. \A i \in DOMAIN file : i < line => i < line + 1
    BY <1>1, <1>2
  <2>2. line < line + 1
    BY <1>1
  <2> QED
    BY <1>1, <1>2, <1>3, <2>1, <2>2 DEF LinesOK
<1>5. \A i \in DOMAIN file : line + 1 <= i => line <= i
  BY <1>1, <1>2
<1>6. \A s \in Share : Pending(s)' => Pending(s)
  <2>1. line <= line
    BY <1>1
  <2> QED
    BY <1>1, <1>2, <1>3, <1>5, <2>1 DEF Pending
<1>7. CountedOnce'
  BY <1>1 DEF CountedOnce
<1> QED
  BY <1>1, <1>4, <1>6, <1>7 DEF LinesOK, Once

LEMMA ImportCounts ==
  ASSUME IInv, LinesOK, CountedOnce, Import
  PROVE  LinesOK' /\ CountedOnce'
<1>1. /\ UNCHANGED <<file, doubtful, imports, mode, line>> /\ held' = <<>> /\ Insert(held)
      /\ file \in Seq(Line) /\ line \in Nat /\ mode = "import" /\ imports \in Nat
      /\ table \in [Share -> Nat]
  BY DEF Import, InsertNow, IInv, TypeOK, Line
<1>2. DOMAIN file \subseteq Nat
  BY <1>1, LenProperties
<1>3. \A s \in Share : table'[s] = table[s] + IF s \in Range(held) THEN 1 ELSE 0
  BY <1>1 DEF Insert
<1>4. CountedOnce'
  <2>1. \A s \in Share \ doubtful : s \in Range(held) => table[s] < imports
    BY <1>1 DEF LinesOK, Pending
  <2> QED
    BY <1>1, <1>3, <2>1 DEF CountedOnce
<1>5. \A s \in Share \ doubtful : Pending(s)' => Pending(s) /\ s \notin Range(held)
  <2>1. SUFFICES ASSUME NEW s \in Share \ doubtful,
                        NEW i \in DOMAIN file, line <= i, file[i] = s
                 PROVE  s \notin Range(held)
    BY <1>1, EmptySequence DEF Pending
  <2>2. ASSUME NEW j \in DOMAIN file, j < line, file[j] = s
        PROVE  FALSE
    <3>1. i = j
      BY <2>1, <2>2 DEF LinesOK, Once
    <3> QED
      BY <1>1, <1>2, <2>1, <2>2, <3>1
  <2> QED
    BY <1>1, <2>2 DEF LinesOK
<1>6. \A s \in Share \ doubtful : Pending(s)' => table'[s] < imports
  BY <1>1, <1>3, <1>5 DEF LinesOK
<1> QED
  BY <1>1, <1>4, <1>6, EmptySequence DEF LinesOK, Once

LEMMA ImportEndsCounts ==
  ASSUME IInv, LinesOK, CountedOnce,
         ImportFails \/ ImportReplyLost \/ FinishImport \/ RemoveFile
  PROVE  LinesOK' /\ CountedOnce'
<1>1. imports' = imports /\ table \in [Share -> Nat] /\ doubtful \subseteq doubtful'
  BY DEF ImportFails, ImportReplyLost, FinishImport, RemoveFile, IInv, TypeOK
<1>2. \A s \in Share \ doubtful' : table'[s] = table[s]
  <2>1. CASE ImportReplyLost
    BY <1>1, <2>1 DEF ImportReplyLost, Insert
  <2>2. CASE ImportFails \/ FinishImport \/ RemoveFile
    BY <2>2 DEF ImportFails, FinishImport, RemoveFile
  <2> QED
    BY <2>1, <2>2
<1>3. file' = file \/ file' = <<>>
  BY DEF ImportFails, ImportReplyLost, FinishImport, RemoveFile
<1>4. CountedOnce'
  <2>1. Range(file') \subseteq Range(file)
    BY <1>3, EmptySequence
  <2> QED
    BY <1>1, <1>2, <2>1 DEF CountedOnce
<1>5. Once(file)'
  BY <1>1, <1>3 DEF LinesOK, Once
<1>6. CASE mode' = "import"
  <2>1. mode = "import" /\ held' = held /\ line' = line /\ file' = file
    BY <1>6 DEF ImportFails, ImportReplyLost, FinishImport, RemoveFile, KeepHeld, InsertNow
  <2>2. \A s \in Share : Pending(s)' => Pending(s)
    BY <2>1 DEF Pending
  <2>3. \A s \in Share \ doubtful' : Pending(s)' => table'[s] < imports'
    BY <1>1, <1>2, <2>1, <2>2 DEF LinesOK
  <2> QED
    BY <1>4, <1>5, <2>1, <2>3 DEF LinesOK
<1>7. CASE mode' # "import"
  BY <1>4, <1>5, <1>7 DEF LinesOK
<1> QED
  BY <1>6, <1>7

LEMMA NextCounts ==
  IInv /\ OrderOK /\ WindowsOK /\ LinesOK /\ CountedOnce /\ [Next]_vars => LinesOK' /\ CountedOnce'
<1>1. SUFFICES ASSUME IInv, OrderOK, WindowsOK, LinesOK, CountedOnce, [Next]_vars
               PROVE  LinesOK' /\ CountedOnce'
  OBVIOUS
<1>2. CASE Commit \/ CommitReplyLost
  BY <1>1, <1>2, CommitCounts
<1>3. CASE WriteFile \/ WriteFails \/ ProcessEnds
  <2>1. mode' # "import" /\ UNCHANGED <<table, imports, doubtful>>
    BY <1>3 DEF WriteFile, WriteFails, ProcessEnds
  <2>2. \/ file' = file
        \/ batch # <<>> /\ file' = Written(batch)
        \/ \E n \in 0..Len(batch) - 1, torn \in BOOLEAN : file' = WrittenInPart(n, torn)
    BY <1>1, <1>3 DEF WriteFile, WriteFails, ProcessEnds, IInv, ProgressOK
  <2> QED
    BY <1>1, <2>1, <2>2, WriteCounts
<1>4. CASE StartImport
  BY <1>1, <1>4, StartImportCounts
<1>5. CASE ReadLine
  BY <1>1, <1>5, ReadCounts
<1>6. CASE Import
  BY <1>1, <1>6, ImportCounts
<1>7. CASE ImportFails \/ ImportReplyLost \/ FinishImport \/ RemoveFile
  BY <1>1, <1>7, ImportEndsCounts
<1>8. CASE Publish \/ WindowCloses \/ Take \/ CannotCommit \/ UnexpectedError \/ MinutePasses
           \/ StartPool \/ DatabaseFails \/ DatabaseReturns \/ UNCHANGED vars
  <2>1. /\ UNCHANGED <<table, file, doubtful, imports, line, held>>
        /\ mode' = mode \/ mode' # "import"
    BY <1>8 DEF Publish, WindowCloses, Take, CannotCommit, UnexpectedError, MinutePasses,
                StartPool, DatabaseFails, DatabaseReturns, vars, reading
  <2> QED
    BY <1>1, <2>1 DEF LinesOK, Once, Pending, CountedOnce
<1> QED
  BY <1>1, <1>2, <1>3, <1>4, <1>5, <1>6, <1>7, <1>8 DEF Next, Persist

LEMMA InitCounts == Init => WindowsOK /\ LinesOK /\ CountedOnce
<1>1. SUFFICES ASSUME Init PROVE WindowsOK /\ LinesOK /\ CountedOnce
  OBVIOUS
<1> QED
  BY <1>1, EmptySequence DEF Init, WindowsOK, LinesOK, CountedOnce

\* A share whose every commit was acknowledged has one row, or at most one for
\* each import: no retry, broken off write, failed import or restart adds a row.
THEOREM SharesAreCountedOnce == Spec => []CountedOnce
<1>1. Init => WindowsOK /\ LinesOK /\ CountedOnce
  BY InitCounts
<1>2. IInv /\ IInv' /\ OrderOK /\ WindowsOK /\ [Next]_vars => WindowsOK'
  BY NextWindows
<1>3. IInv /\ OrderOK /\ WindowsOK /\ LinesOK /\ CountedOnce /\ [Next]_vars => LinesOK' /\ CountedOnce'
  BY NextCounts
<1> QED
  BY <1>1, <1>2, <1>3, Invariance, OrderInvariance, PTL DEF Spec
=============================================================================
