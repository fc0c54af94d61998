-------------------------- MODULE ShareRecorder_proofs --------------------------
(***************************************************************************)
(* Proofs about ShareRecorder, for every number of shares, size of windows *)
(* and import chunks, number of retries, faults and imports.               *)
(***************************************************************************)
EXTENDS ShareRecorder, SequenceTheorems, TLAPS

Line == Share \cup {Torn}

\* A window under way has shares; the import keeps count of unreadable lines.
ProgressOK ==
  /\ pc \in {"try", "file"} => batch # <<>>
  /\ pc = "take" => batch = <<>>
  /\ mode # "import" => line = 1 /\ held = <<>> /\ failed = FALSE
  /\ mode = "import" =>
       /\ line <= Len(file) + 1
       /\ failed = FALSE => \A i \in 1..line - 1 : file[i] # Torn

\* The inductive invariant.
IInv == TypeOK /\ ProgressOK /\ ImportSkipsNothing

-----------------------------------------------------------------------------
(* Lines of the file. *)

LEMMA WrittenLines ==
  ASSUME file \in Seq(Line), NEW lines \in Seq(Line), lines # <<>>
  PROVE  /\ Written(lines) \in Seq(Line)
         /\ Range(file) \subseteq Range(Written(lines))
<1>1. Tail(lines) \in Seq(Line)
  BY HeadTailProperties
<1>2. /\ file \o Tail(lines) \in Seq(Line)
      /\ file \o lines \in Seq(Line)
  BY <1>1, ConcatProperties
<1>3. /\ Range(file) \subseteq Range(file \o Tail(lines))
      /\ Range(file) \subseteq Range(file \o lines)
  <2>1. Range(file \o Tail(lines)) = Range(file) \cup Range(Tail(lines))
    BY <1>1, RangeConcatenation, Zenon
  <2>2. Range(file \o lines) = Range(file) \cup Range(lines)
    BY RangeConcatenation, Zenon
  <2> QED
    BY <2>1, <2>2
<1> QED
  BY <1>2, <1>3 DEF Written

LEMMA WrittenInPartLines ==
  ASSUME file \in Seq(Line), batch \in Seq(Share),
         NEW n \in 0..Len(batch) - 1, NEW torn \in BOOLEAN
  PROVE  /\ WrittenInPart(n, torn) \in Seq(Line)
         /\ Range(file) \subseteq Range(WrittenInPart(n, torn))
<1> DEFINE lines == SubSeq(batch, 1, n) \o IF torn THEN <<Torn>> ELSE <<>>
<1>1. Len(batch) \in Nat /\ \A i \in 1..n : batch[i] \in Line
  <2>1. Len(batch) \in Nat
    BY LenProperties
  <2>2. \A i \in 1..n : i \in 1..Len(batch)
    BY <2>1
  <2> QED
    BY <2>1, <2>2, ElementOfSeq DEF Line
<1>2. SubSeq(batch, 1, n) \in Seq(Line)
  BY <1>1, SubSeqProperties
<1>3. (IF torn THEN <<Torn>> ELSE <<>>) \in Seq(Line)
  <2>1. <<Torn>> \in Seq(Line)
    <3>1. Torn \in Line
      BY DEF Line
    <3> QED
      BY <3>1
  <2>2. <<>> \in Seq(Line)
    BY EmptySeq
  <2> QED
    BY <2>1, <2>2
<1>4. lines \in Seq(Line)
  BY <1>2, <1>3, ConcatProperties
<1>5. WrittenInPart(n, torn) = IF lines = <<>> THEN file ELSE Written(lines)
  BY DEF WrittenInPart
<1> HIDE DEF lines
<1> QED
  BY <1>4, <1>5, WrittenLines

LEMMA InsertAdds ==
  ASSUME table \in [Share -> Nat], NEW shares \in Seq(Share), Insert(shares)
  PROVE  /\ table' \in [Share -> Nat]
         /\ \A s \in Share : table[s] > 0 => table'[s] > 0
         /\ \A s \in Range(shares) : table'[s] > 0
<1>1. Range(shares) \subseteq Share
  BY RangeOfSeq
<1> QED
  BY <1>1 DEF Insert

-----------------------------------------------------------------------------
(* The invariant in the pool's steps: nothing is being imported. *)

LEMMA WindowInv ==
  ASSUME IInv, Publish \/ WindowCloses \/ Take \/ MinutePasses
  PROVE  IInv'
<1> DEFINE Window == Seq(Share) \ {<<>>}
<1>1. mode = "pool" /\ mode' = "pool" /\ UNCHANGED <<table, file, db>>
  BY DEF Publish, WindowCloses, Take, MinutePasses, reading, policy
<1>2. ProgressOK' /\ ImportSkipsNothing'
  <2>1. CASE Take
    <3>1. Head(queue) # <<>>
      <4>1. Head(queue) \in Window
        BY <2>1, HeadTailProperties DEF IInv, TypeOK, Take
      <4> QED
        BY <4>1
    <3> QED
      BY <1>1, <2>1, <3>1 DEF IInv, Take, ProgressOK, ImportSkipsNothing, reading
  <2>2. CASE Publish \/ WindowCloses \/ MinutePasses
    <3>1. UNCHANGED <<batch, pc, line, held, failed>>
      BY <2>2 DEF Publish, WindowCloses, MinutePasses, memory, reading
    <3> QED
      BY <1>1, <3>1 DEF IInv, ProgressOK, ImportSkipsNothing
  <2> QED
    BY <2>1, <2>2
<1>3. TypeOK'
  <2>1. CASE Publish
    <3> DEFINE window == Append(buffer, published + 1)
    <3>1. published + 1 \in Share /\ published' \in 0..MaxShares
      BY <2>1, ConstantsAssumption DEF IInv, TypeOK, Publish, Share
    <3>2. /\ window \in Window
          /\ Len(window) = Len(buffer) + 1
          /\ Len(buffer) \in Nat
      <4>1. buffer \in Seq(Share)
        BY DEF IInv, TypeOK
      <4>2. window \in Seq(Share) /\ window # <<>> /\ Len(window) = Len(buffer) + 1
        BY <3>1, <4>1, AppendProperties, Zenon
      <4>3. Len(buffer) \in Nat
        BY <4>1, LenProperties, Zenon
      <4> QED
        BY <4>2, <4>3
    <3>3. Len(window) <= BufferSize
      BY <3>2, ConstantsAssumption DEF IInv, TypeOK
    <3>4. CASE Len(window) = BufferSize
      <4>1. buffer' = <<>> /\ queue' = Append(queue, window)
        BY <2>1, <3>4 DEF Publish
      <4>2. queue' \in Seq(Window)
        BY <3>2, <4>1, AppendProperties DEF IInv, TypeOK
      <4>3. buffer' \in Seq(Share) /\ Len(buffer') < BufferSize
        BY <4>1, EmptySeq, ConstantsAssumption
      <4> HIDE DEF window
      <4> QED
        BY <1>1, <2>1, <3>1, <4>2, <4>3 DEF IInv, TypeOK, Publish, policy, reading
    <3>5. CASE Len(window) # BufferSize
      <4>1. buffer' = window /\ queue' = queue
        BY <2>1, <3>5 DEF Publish
      <4>2. Len(buffer') < BufferSize
        BY <3>2, <3>3, <3>5, <4>1, ConstantsAssumption
      <4> HIDE DEF window
      <4> QED
        BY <1>1, <2>1, <3>1, <3>2, <4>1, <4>2 DEF IInv, TypeOK, Publish, policy, reading
    <3> QED
      BY <3>4, <3>5
  <2>2. CASE WindowCloses
    <3>1. buffer \in Window
      BY <2>2 DEF IInv, TypeOK, WindowCloses
    <3>2. queue' \in Seq(Window)
      BY <2>2, <3>1, AppendProperties DEF IInv, TypeOK, WindowCloses
    <3>3. buffer' \in Seq(Share) /\ Len(buffer') < BufferSize
      BY <2>2, EmptySeq, ConstantsAssumption DEF WindowCloses
    <3> QED
      BY <1>1, <2>2, <3>2, <3>3 DEF IInv, TypeOK, WindowCloses, policy, reading
  <2>3. CASE Take
    <3>1. Head(queue) \in Window /\ Tail(queue) \in Seq(Window)
      BY <2>3, HeadTailProperties DEF IInv, TypeOK, Take
    <3>2. batch' \in Seq(Share) /\ queue' \in Seq(Window) /\ pc' \in {"try", "file"}
      BY <2>3, <3>1 DEF Take
    <3> QED
      BY <1>1, <2>3, <3>2 DEF IInv, TypeOK, Take, policy, reading
  <2>4. CASE MinutePasses
    BY <1>1, <2>4 DEF IInv, TypeOK, MinutePasses, memory, reading
  <2> QED
    BY <2>1, <2>2, <2>3, <2>4
<1> QED
  BY <1>2, <1>3 DEF IInv

\* What a failed try leaves of the policies.
LEMMA TryFailedTypes ==
  ASSUME IInv, TryFailed, pc = "try"
  PROVE  tries' \in 0..Retries /\ failures' \in 0..Allowed /\ rested' \in BOOLEAN
         /\ pc' \in {"try", "file"}
<1>1. tries \in 0..Retries /\ failures \in 0..Allowed /\ rested \in BOOLEAN
  BY DEF IInv, TypeOK
<1>2. CASE tries < Retries
  BY <1>1, <1>2, ConstantsAssumption DEF TryFailed
<1>3. CASE ~(tries < Retries)
  <2>1. tries' = 0 /\ pc' = "file" /\ rested' = FALSE
        /\ failures' = IF failures < Allowed THEN failures + 1 ELSE failures
    BY <1>3 DEF TryFailed
  <2>2. tries' \in 0..Retries /\ failures' \in 0..Allowed
    BY <1>1, <2>1, ConstantsAssumption
  <2>3. rested' \in BOOLEAN /\ pc' \in {"try", "file"}
    BY <2>1, Zenon
  <2> QED
    BY <2>2, <2>3
<1> QED
  BY <1>2, <1>3

LEMMA TryInv ==
  ASSUME IInv, Commit \/ CannotCommit \/ CommitReplyLost \/ UnexpectedError
  PROVE  IInv'
<1>1. /\ mode = "pool" /\ mode' = "pool" /\ pc = "try"
      /\ UNCHANGED <<published, buffer, queue, db, file, reading, imports>>
  BY DEF Commit, CannotCommit, CommitReplyLost, UnexpectedError, memory
<1>2. batch \in Seq(Share) /\ Range(batch) \subseteq Share
  BY RangeOfSeq DEF IInv, TypeOK
<1>3. CASE Commit
  <2>1. table' \in [Share -> Nat]
    BY <1>2, <1>3, InsertAdds DEF IInv, TypeOK, Commit
  <2>2. batch' = <<>> /\ batch' \in Seq(Share) /\ pc' = "take" /\ tries' = 0
        /\ failures' \in 0..Allowed /\ rested' = FALSE /\ tries' \in 0..Retries
    BY <1>3, EmptySeq, ConstantsAssumption DEF Commit, BatchDone
  <2> QED
    BY <1>1, <1>3, <2>1, <2>2 DEF IInv, TypeOK, ProgressOK, ImportSkipsNothing, Commit, reading
<1>4. CASE CannotCommit
  BY <1>1, <1>4, TryFailedTypes DEF IInv, TypeOK, ProgressOK, ImportSkipsNothing, CannotCommit, reading, memory
<1>5. CASE CommitReplyLost
  <2>1. table' \in [Share -> Nat]
    BY <1>2, <1>5, InsertAdds DEF IInv, TypeOK, CommitReplyLost
  <2>2. doubtful' \subseteq Share /\ faults' \in 0..MaxFaults
    BY <1>2, <1>5, ConstantsAssumption DEF IInv, TypeOK, CommitReplyLost, Fault
  <2>3. TryFailed /\ batch' = batch
    BY <1>5 DEF CommitReplyLost, memory
  <2> QED
    BY <1>1, <2>1, <2>2, <2>3, TryFailedTypes DEF IInv, TypeOK, ProgressOK, ImportSkipsNothing, reading
<1>6. CASE UnexpectedError
  <2>1. batch' = <<>> /\ batch' \in Seq(Share) /\ pc' = "take" /\ rested' = FALSE /\ tries' \in 0..Retries
    BY <1>6, EmptySeq, ConstantsAssumption DEF UnexpectedError, BatchDone
  <2>2. faults' \in 0..MaxFaults
    BY <1>6, ConstantsAssumption DEF IInv, TypeOK, UnexpectedError, Fault
  <2> QED
    BY <1>1, <1>6, <2>1, <2>2 DEF IInv, TypeOK, ProgressOK, ImportSkipsNothing, UnexpectedError, reading
<1> QED
  BY <1>3, <1>4, <1>5, <1>6

LEMMA FileInv ==
  ASSUME IInv, WriteFile \/ WriteFails
  PROVE  IInv'
<1>1. /\ mode = "pool" /\ mode' = "pool" /\ pc = "file" /\ BatchDone
      /\ UNCHANGED <<published, buffer, queue, failures, rested, db, table, reading, imports, doubtful>>
  BY DEF WriteFile, WriteFails
<1>2. file \in Seq(Line) /\ batch \in Seq(Share)
  BY DEF IInv, TypeOK, Line
<1>3. batch \in Seq(Line) /\ batch # <<>>
  BY <1>1, <1>2, SeqMonotonic DEF Line, IInv, ProgressOK
<1>4. file' \in Seq(Line)
  <2>1. CASE WriteFile
    BY <1>2, <1>3, <2>1, WrittenLines DEF WriteFile
  <2>2. CASE WriteFails
    BY <1>2, <2>2, WrittenInPartLines DEF WriteFails
  <2> QED
    BY <2>1, <2>2
<1>5. faults' \in 0..MaxFaults
  <2>1. faults \in 0..MaxFaults
    BY DEF IInv, TypeOK
  <2>2. faults' = faults \/ Fault
    BY DEF WriteFile, WriteFails
  <2> QED
    BY <2>1, <2>2, ConstantsAssumption DEF Fault
<1>6. batch' = <<>> /\ batch' \in Seq(Share) /\ pc' = "take" /\ tries' \in 0..Retries
  BY <1>1, EmptySeq, ConstantsAssumption DEF BatchDone
<1> QED
  BY <1>1, <1>4, <1>5, <1>6 DEF IInv, TypeOK, ProgressOK, ImportSkipsNothing, reading, Line

-----------------------------------------------------------------------------
(* The invariant in the steps of the import, and when the program starts or ends. *)

LEMMA Forgotten ==
  ASSUME Forget, mode' # "import"
  PROVE  /\ buffer' \in Seq(Share) /\ Len(buffer') < BufferSize
         /\ queue' \in Seq(Seq(Share) \ {<<>>}) /\ batch' \in Seq(Share)
         /\ pc' = "take" /\ tries' \in 0..Retries /\ failures' \in 0..Allowed
         /\ rested' \in BOOLEAN /\ line' \in Nat \ {0} /\ held' \in Seq(Share) /\ failed' \in BOOLEAN
         /\ buffer' = <<>> /\ queue' = <<>> /\ batch' = <<>>
         /\ ProgressOK'
<1>1. /\ buffer' \in Seq(Share) /\ Len(buffer') < BufferSize
      /\ queue' \in Seq(Seq(Share) \ {<<>>}) /\ batch' \in Seq(Share) /\ held' \in Seq(Share)
  BY EmptySeq, ConstantsAssumption DEF Forget
<1>2. tries' \in 0..Retries /\ failures' \in 0..Allowed
  BY ConstantsAssumption DEF Forget
<1>3. rested' \in BOOLEAN /\ failed' \in BOOLEAN
  BY Zenon DEF Forget
<1>4. line' = 1 /\ line' \in Nat \ {0} /\ pc' = "take"
  BY DEF Forget
<1>5. ProgressOK'
  BY <1>4 DEF Forget, ProgressOK
<1> QED
  BY <1>1, <1>2, <1>3, <1>4, <1>5 DEF Forget

LEMMA OffInv ==
  ASSUME Forget, mode' = "off", published' \in 0..MaxShares, db' \in {"up", "down"},
         table' \in [Share -> Nat], file' \in Seq(Share \cup {Torn}),
         imports' \in 0..MaxImports, doubtful' \subseteq Share, faults' \in 0..MaxFaults
  PROVE  IInv'
<1>1. mode' # "import" /\ mode' \in {"pool", "import", "imported", "off"}
  OBVIOUS
<1>2. ImportSkipsNothing'
  BY DEF ImportSkipsNothing
<1>3. TypeOK'
  BY <1>1, Forgotten, Zenon DEF TypeOK
<1> QED
  BY <1>1, <1>2, <1>3, Forgotten DEF IInv

LEMMA ProcessInv ==
  ASSUME IInv, StartPool \/ ProcessEnds \/ StartImport \/ RemoveFile
               \/ DatabaseFails \/ DatabaseReturns
  PROVE  IInv'
<1>1. CASE StartPool
  BY <1>1 DEF IInv, TypeOK, ProgressOK, ImportSkipsNothing, StartPool, memory, policy, reading
<1>2. CASE ProcessEnds
  <2>1. file' \in Seq(Line)
    BY <1>2, WrittenInPartLines DEF IInv, TypeOK, ProcessEnds, Line
  <2>2. Forget /\ mode' = "off" /\ UNCHANGED <<published, db, table, imports, doubtful, faults>>
    BY <1>2 DEF ProcessEnds
  <2> QED
    BY <2>1, <2>2, OffInv DEF IInv, TypeOK, Line
<1>3. CASE StartImport
  <2>1. mode = "off" /\ mode' = "import" /\ pc' = "read" /\ imports' = imports + 1
        /\ imports < MaxImports /\ UNCHANGED <<published, memory, policy, db, table, file, reading, doubtful, faults>>
    BY <1>3 DEF StartImport
  <2>2. imports' \in 0..MaxImports
    BY <2>1, ConstantsAssumption DEF IInv, TypeOK
  <2>3. line = 1 /\ Len(file) \in Nat
    BY <2>1, LenProperties DEF IInv, TypeOK, ProgressOK
  <2>4. ProgressOK' /\ ImportSkipsNothing'
    BY <2>1, <2>3 DEF ProgressOK, ImportSkipsNothing, reading
  <2>5. UNCHANGED <<buffer, queue, batch, tries, failures, rested, line, held, failed>>
    BY <2>1 DEF memory, policy, reading
  <2>6. TypeOK'
    BY <2>1, <2>2, <2>5 DEF IInv, TypeOK
  <2> QED
    BY <2>4, <2>6 DEF IInv
<1>4. CASE RemoveFile
  <2>1. file' \in Seq(Share \cup {Torn})
    BY <1>4, EmptySeq DEF RemoveFile
  <2> QED
    BY <1>4, <2>1 DEF IInv, TypeOK, ProgressOK, ImportSkipsNothing, RemoveFile, memory, policy, reading
<1>5. CASE DatabaseFails \/ DatabaseReturns
  BY <1>5 DEF IInv, TypeOK, ProgressOK, ImportSkipsNothing, DatabaseFails, DatabaseReturns, memory, policy, reading
<1> QED
  BY <1>1, <1>2, <1>3, <1>4, <1>5

LEMMA ReadInv ==
  ASSUME IInv, ReadLine
  PROVE  IInv'
<1>1. /\ mode = "import" /\ mode' = "import" /\ line' = line + 1
      /\ UNCHANGED <<published, memory, policy, db, table, file, imports, doubtful, faults>>
  BY DEF ReadLine
<1>2. line \in 1..Len(file) /\ Len(file) \in Nat /\ file[line] \in Share \cup {Torn}
  <2>1. Len(file) \in Nat
    BY LenProperties DEF IInv, TypeOK
  <2>2. line \in 1..Len(file)
    BY <2>1 DEF IInv, TypeOK, ReadLine
  <2> QED
    BY <2>1, <2>2, ElementOfSeq DEF IInv, TypeOK
<1>3. /\ held' \in Seq(Share)
      /\ Range(held) \subseteq Range(held')
      /\ file[line] # Torn => file[line] \in Range(held')
  <2>1. CASE file[line] = Torn
    BY <2>1 DEF IInv, TypeOK, ReadLine
  <2>2. CASE file[line] # Torn
    <3>1. file[line] \in Share /\ held' = Append(held, file[line]) /\ held \in Seq(Share)
      BY <1>2, <2>2 DEF IInv, TypeOK, ReadLine
    <3>2. /\ held' \in Seq(Share)
          /\ Len(held') = Len(held) + 1
          /\ \A i \in 1..Len(held) : held'[i] = held[i]
          /\ held'[Len(held) + 1] = file[line]
      BY <3>1, AppendProperties, Zenon
    <3>3. Range(held) = {held[i] : i \in 1..Len(held)} /\ Len(held) \in Nat
      BY <3>1, RangeEquality, LenProperties, Zenon
    <3>4. Range(held') = {held'[i] : i \in 1..Len(held')}
      BY <3>2, RangeEquality, Zenon
    <3> QED
      BY <3>2, <3>3, <3>4
  <2> QED
    BY <2>1, <2>2
<1>4. pc' \in {"read", "insert"} /\ failed' \in BOOLEAN /\ (failed' = FALSE => failed = FALSE /\ file[line] # Torn)
  <2>1. failed' = (failed \/ file[line] = Torn) /\ failed \in BOOLEAN
    BY DEF IInv, TypeOK, ReadLine
  <2>2. pc' \in {"read", "insert"}
    BY DEF ReadLine
  <2> QED
    BY <2>1, <2>2, Zenon
<1>5. \A i \in 1..line' - 1 : i \in 1..line - 1 \/ i = line
  BY <1>1, <1>2
<1>6. ProgressOK'
  BY <1>1, <1>2, <1>4, <1>5 DEF IInv, ProgressOK
<1>7. ImportSkipsNothing'
  BY <1>1, <1>3, <1>5 DEF IInv, ImportSkipsNothing
<1>8. TypeOK'
  BY <1>1, <1>2, <1>3, <1>4 DEF IInv, TypeOK, memory, policy
<1> QED
  BY <1>6, <1>7, <1>8 DEF IInv

\* A failed insertion loses nothing that was read, whatever it did to the table.
LEMMA KeepHeldInv ==
  ASSUME IInv, InsertNow, KeepHeld, table' \in [Share -> Nat],
         \A s \in Share : table[s] > 0 => table'[s] > 0,
         doubtful' \subseteq Share, faults' \in 0..MaxFaults,
         UNCHANGED <<published, db, file, imports>>
  PROVE  IInv'
<1>1. CASE Exhausted
  <2>1. mode' = "off" /\ Forget
    BY <1>1 DEF KeepHeld
  <2> QED
    BY <2>1, OffInv DEF IInv, TypeOK
<1>2. CASE ~Exhausted
  <2>1. failed' = TRUE /\ pc' = "read" /\ UNCHANGED <<mode, memory, policy, line, held>>
    BY <1>2 DEF KeepHeld
  <2>2. mode = "import"
    BY DEF InsertNow
  <2>3. \A i \in 1..line - 1 : file[i] \in Share \cup {Torn}
    <3>1. \A i \in 1..line - 1 : i \in 1..Len(file)
      BY <2>2, LenProperties DEF IInv, TypeOK, ProgressOK
    <3> QED
      BY <3>1, ElementOfSeq DEF IInv, TypeOK
  <2>4. ImportSkipsNothing' /\ ProgressOK'
    BY <2>1, <2>2, <2>3 DEF IInv, ImportSkipsNothing, ProgressOK
  <2> QED
    BY <2>1, <2>2, <2>4 DEF IInv, TypeOK, memory, policy
<1> QED
  BY <1>1, <1>2

LEMMA ImportInv ==
  ASSUME IInv, Import \/ ImportFails \/ ImportReplyLost \/ FinishImport
  PROVE  IInv'
<1>1. held \in Seq(Share) /\ Range(held) \subseteq Share
  BY RangeOfSeq DEF IInv, TypeOK
<1>2. CASE Import
  <2>1. /\ mode = "import" /\ held' = <<>> /\ pc' = "read"
        /\ UNCHANGED <<mode, published, memory, policy, db, file, line, failed, imports, doubtful, faults>>
    BY <1>2 DEF Import, InsertNow
  <2>2. /\ table' \in [Share -> Nat]
        /\ \A s \in Share : table[s] > 0 => table'[s] > 0
        /\ \A s \in Range(held) : table'[s] > 0
    BY <1>1, <1>2, InsertAdds DEF IInv, TypeOK, Import
  <2>3. \A i \in 1..line - 1 : file[i] \in Share \cup {Torn}
    <3>1. \A i \in 1..line - 1 : i \in 1..Len(file)
      BY <2>1, LenProperties DEF IInv, TypeOK, ProgressOK
    <3> QED
      BY <3>1, ElementOfSeq DEF IInv, TypeOK
  <2>4. ImportSkipsNothing'
    BY <2>1, <2>2, <2>3 DEF IInv, ImportSkipsNothing
  <2>5. held' \in Seq(Share)
    BY <2>1, EmptySeq
  <2> QED
    BY <2>1, <2>2, <2>4, <2>5 DEF IInv, TypeOK, ProgressOK, memory, policy
<1>3. CASE ImportFails
  BY <1>3, KeepHeldInv DEF IInv, TypeOK, ImportFails
<1>4. CASE ImportReplyLost
  <2>1. /\ table' \in [Share -> Nat]
        /\ \A s \in Share : table[s] > 0 => table'[s] > 0
    BY <1>1, <1>4, InsertAdds DEF IInv, TypeOK, ImportReplyLost
  <2>2. doubtful' \subseteq Share /\ faults' \in 0..MaxFaults
    BY <1>1, <1>4, ConstantsAssumption DEF IInv, TypeOK, ImportReplyLost, Fault
  <2> QED
    BY <1>4, <2>1, <2>2, KeepHeldInv DEF ImportReplyLost
<1>5. CASE FinishImport
  <2>1. /\ mode = "import" /\ Exhausted /\ held = <<>> /\ Forget
        /\ mode' = IF failed THEN "off" ELSE "imported"
        /\ UNCHANGED <<published, db, table, file, imports, doubtful, faults>>
    BY <1>5 DEF FinishImport
  <2>2. ImportSkipsNothing'
    <3>1. CASE failed
      BY <2>1, <3>1 DEF ImportSkipsNothing
    <3>2. CASE failed = FALSE
      <4>1. DOMAIN file = 1..line - 1
        BY <2>1, LenProperties DEF IInv, TypeOK, ProgressOK, Exhausted
      <4>2. Range(held) = {}
        BY <2>1 DEF Range
      <4>3. \A i \in DOMAIN file : file[i] # Torn /\ table[file[i]] > 0
        BY <2>1, <3>2, <4>1, <4>2 DEF IInv, ProgressOK, ImportSkipsNothing
      <4> QED
        BY <2>1, <3>2, <4>3 DEF ImportSkipsNothing
    <3> QED
      BY <3>1, <3>2, Zenon DEF IInv, TypeOK
  <2>3. mode' \in {"off", "imported"}
    BY <2>1
  <2> QED
    BY <2>1, <2>2, <2>3, Forgotten DEF IInv, TypeOK
<1> QED
  BY <1>2, <1>3, <1>4, <1>5

-----------------------------------------------------------------------------
LEMMA InitInv == Init => IInv
<1>1. SUFFICES ASSUME Init PROVE IInv
  OBVIOUS
<1>2. \A S : <<>> \in Seq(S)
  BY EmptySeq
<1>3. ProgressOK /\ ImportSkipsNothing
  BY <1>1 DEF Init, ProgressOK, ImportSkipsNothing
<1>4. TypeOK
  <2>1. /\ buffer \in Seq(Share) /\ Len(buffer) < BufferSize
        /\ queue \in Seq(Seq(Share) \ {<<>>}) /\ batch \in Seq(Share)
        /\ file \in Seq(Share \cup {Torn}) /\ held \in Seq(Share)
    BY <1>1, <1>2, ConstantsAssumption DEF Init
  <2>2. /\ published \in 0..MaxShares /\ tries \in 0..Retries /\ failures \in 0..Allowed
        /\ imports \in 0..MaxImports /\ faults \in 0..MaxFaults
        /\ line \in Nat \ {0} /\ table \in [Share -> Nat] /\ doubtful \subseteq Share
    BY <1>1, ConstantsAssumption DEF Init
  <2>3. rested \in BOOLEAN /\ failed \in BOOLEAN
    BY <1>1, Zenon DEF Init
  <2> QED
    BY <1>1, <2>1, <2>2, <2>3 DEF Init, TypeOK
<1> QED
  BY <1>3, <1>4 DEF IInv

LEMMA NextInv == IInv /\ [Next]_vars => IInv'
<1>1. SUFFICES ASSUME IInv, [Next]_vars PROVE IInv'
  OBVIOUS
<1>2. CASE Publish \/ WindowCloses \/ Take \/ MinutePasses
  BY <1>1, <1>2, WindowInv
<1>3. CASE Commit \/ CannotCommit \/ CommitReplyLost \/ UnexpectedError
  BY <1>1, <1>3, TryInv
<1>4. CASE WriteFile \/ WriteFails
  BY <1>1, <1>4, FileInv
<1>5. CASE StartPool \/ ProcessEnds \/ StartImport \/ RemoveFile \/ DatabaseFails \/ DatabaseReturns
  BY <1>1, <1>5, ProcessInv
<1>6. CASE ReadLine
  BY <1>1, <1>6, ReadInv
<1>7. CASE Import \/ ImportFails \/ ImportReplyLost \/ FinishImport
  BY <1>1, <1>7, ImportInv
<1>8. CASE UNCHANGED vars
  BY <1>1, <1>8 DEF IInv, TypeOK, ProgressOK, ImportSkipsNothing, vars, memory, policy, reading
<1> QED
  BY <1>1, <1>2, <1>3, <1>4, <1>5, <1>6, <1>7, <1>8 DEF Next, Persist

LEMMA Invariance == Spec => []IInv
  BY InitInv, NextInv, PTL DEF Spec

\* The types hold, windows stay below their size, and a program that does not run
\* holds nothing: in every reachable state, for every value of the constants.
THEOREM TypeCorrect == Spec => []TypeOK
<1>1. IInv => TypeOK
  BY DEF IInv
<1> QED
  BY <1>1, Invariance, PTL

\* No failed insertion makes the import skip a share it has read, and a file that
\* it reports as imported is in the table as a whole (RecoverSharesAsync).
THEOREM ImportIsComplete == Spec => []ImportSkipsNothing
<1>1. IInv => ImportSkipsNothing
  BY DEF IInv
<1> QED
  BY <1>1, Invariance, PTL

-----------------------------------------------------------------------------
(* What is kept. *)

LEMMA AppendRange ==
  ASSUME NEW S, NEW seq \in Seq(S), NEW e \in S
  PROVE  Range(Append(seq, e)) = Range(seq) \cup {e}
<1>1. /\ Append(seq, e) \in Seq(S)
      /\ Len(Append(seq, e)) = Len(seq) + 1
      /\ \A i \in 1..Len(seq) : Append(seq, e)[i] = seq[i]
      /\ Append(seq, e)[Len(seq) + 1] = e
  BY AppendProperties
<1>2. Len(seq) \in Nat
  BY LenProperties, Zenon
<1>3. /\ Range(seq) = {seq[i] : i \in 1..Len(seq)}
      /\ Range(Append(seq, e)) = {Append(seq, e)[i] : i \in 1..Len(Append(seq, e))}
  BY <1>1, RangeEquality, Zenon
<1>4. 1..Len(seq) + 1 = 1..Len(seq) \cup {Len(seq) + 1}
  BY <1>2
<1> QED
  BY <1>1, <1>3, <1>4

LEMMA HeadTailRange ==
  ASSUME NEW S, NEW seq \in Seq(S), seq # <<>>
  PROVE  Range(seq) = {Head(seq)} \cup Range(Tail(seq))
<1>1. /\ Tail(seq) \in Seq(S)
      /\ Len(Tail(seq)) = Len(seq) - 1
      /\ \A i \in 1..Len(Tail(seq)) : Tail(seq)[i] = seq[i + 1]
  BY HeadTailProperties, Zenon
<1>2. Len(seq) \in Nat \ {0} /\ Head(seq) = seq[1]
  BY EmptySeq, LenProperties
<1>3. /\ Range(seq) = {seq[i] : i \in 1..Len(seq)}
      /\ Range(Tail(seq)) = {Tail(seq)[i] : i \in 1..Len(Tail(seq))}
  BY <1>1, RangeEquality, Zenon
<1>4. \A i \in 1..Len(seq) : i = 1 \/ (i - 1 \in 1..Len(Tail(seq)) /\ seq[i] = Tail(seq)[i - 1])
  BY <1>1, <1>2
<1>5. \A i \in 1..Len(Tail(seq)) : i + 1 \in 1..Len(seq) /\ Tail(seq)[i] = seq[i + 1]
  BY <1>1, <1>2
<1>6. Head(seq) \in Range(seq) /\ Range(Tail(seq)) \subseteq Range(seq)
  BY <1>2, <1>3, <1>5
<1>7. \A r \in Range(seq) : r = Head(seq) \/ r \in Range(Tail(seq))
  BY <1>2, <1>3, <1>4
<1> QED
  BY <1>6, <1>7

\* A write keeps all of its lines but the one that follows a torn line.
LEMMA WrittenKeeps ==
  ASSUME file \in Seq(Line), NEW lines \in Seq(Line), lines # <<>>, NEW s \in Range(lines)
  PROVE  \/ s \in Range(Written(lines))
         \/ file # <<>> /\ Last(file) = Torn /\ s = Head(lines)
<1>1. Range(lines) = {Head(lines)} \cup Range(Tail(lines))
  BY HeadTailRange
<1>2. Range(file \o Tail(lines)) = Range(file) \cup Range(Tail(lines))
  <2>1. Tail(lines) \in Seq(Line)
    BY HeadTailProperties
  <2> QED
    BY <2>1, RangeConcatenation, Zenon
<1>3. Range(file \o lines) = Range(file) \cup Range(lines)
  BY RangeConcatenation, Zenon
<1> QED
  BY <1>1, <1>2, <1>3 DEF Written

\* One share in one step.
LostRightly(s) ==
  \/ mode = "pool" /\ mode' = "off"
  \/ faults' > faults /\ s \in Range(batch)
  \/ file # <<>> /\ Last(file) = Torn /\ s = Head(batch)

LEMMA KeptIfGrown ==
  ASSUME NEW s \in Share, Kept(s), InMemory(s) => InMemory(s)',
         table[s] > 0 => table'[s] > 0, Range(file) \subseteq Range(file')
  PROVE  Kept(s)'
BY DEF Kept, Persisted

LEMMA QueueKeeps ==
  ASSUME IInv, Publish \/ WindowCloses \/ Take, NEW s \in Share, InMemory(s)
  PROVE  InMemory(s)'
<1> DEFINE Window == Seq(Share) \ {<<>>}
<1>1. queue \in Seq(Window) /\ buffer \in Seq(Share)
  BY DEF IInv, TypeOK
<1>2. CASE Publish
  <2> DEFINE window == Append(buffer, published + 1)
  <2>1. published + 1 \in Share
    BY <1>2, ConstantsAssumption DEF IInv, TypeOK, Publish, Share
  <2>2. window \in Window /\ Range(window) = Range(buffer) \cup {published + 1}
    BY <1>1, <2>1, AppendRange, AppendProperties
  <2>3. Range(Append(queue, window)) = Range(queue) \cup {window}
    <3>1. window \in Window
      BY <2>2
    <3> HIDE DEF window
    <3> QED
      BY <1>1, <3>1, AppendRange
  <2>4. batch' = batch /\ ((buffer' = window /\ queue' = queue) \/ queue' = Append(queue, window))
    BY <1>2 DEF Publish
  <2> HIDE DEF window
  <2> QED
    BY <2>2, <2>3, <2>4 DEF InMemory, Waiting
<1>3. CASE WindowCloses
  <2>1. buffer \in Window /\ batch' = batch /\ queue' = Append(queue, buffer)
    BY <1>1, <1>3 DEF WindowCloses
  <2>2. Range(queue') = Range(queue) \cup {buffer}
    BY <1>1, <2>1, AppendRange
  <2> QED
    BY <2>1, <2>2 DEF InMemory, Waiting
<1>4. CASE Take
  <2>1. batch = <<>> /\ buffer' = buffer /\ batch' = Head(queue) /\ queue' = Tail(queue) /\ queue # <<>>
    BY <1>4 DEF Take, IInv, ProgressOK
  <2>2. Range(queue) = {Head(queue)} \cup Range(Tail(queue))
    BY <1>1, <2>1, HeadTailRange
  <2>3. Range(batch) = {}
    BY <2>1 DEF Range
  <2> QED
    BY <2>1, <2>2, <2>3 DEF InMemory, Waiting
<1> QED
  BY <1>2, <1>3, <1>4

LEMMA StepKeeps ==
  ASSUME IInv, Next, NEW s \in Share, Kept(s)
  PROVE  Kept(s)' \/ LostRightly(s)
<1>1. /\ file \in Seq(Line) /\ batch \in Seq(Share) /\ held \in Seq(Share)
      /\ table \in [Share -> Nat]
  BY DEF IInv, TypeOK, Line
<1>2. CASE Publish \/ WindowCloses \/ Take
  <2>1. UNCHANGED <<table, file>>
    BY <1>2 DEF Publish, WindowCloses, Take
  <2> QED
    BY <1>2, <2>1, QueueKeeps, KeptIfGrown
<1>3. CASE MinutePasses \/ StartPool \/ StartImport \/ ReadLine \/ DatabaseFails
           \/ DatabaseReturns \/ CannotCommit
  <2>1. UNCHANGED <<buffer, queue, batch, table, file>>
    BY <1>3 DEF MinutePasses, StartPool, StartImport, ReadLine, DatabaseFails,
                DatabaseReturns, CannotCommit, memory
  <2> QED
    BY <2>1, KeptIfGrown DEF InMemory, Waiting
<1>4. CASE Commit
  <2>1. UNCHANGED <<buffer, queue, file>> /\ Insert(batch)
    BY <1>4 DEF Commit
  <2>2. /\ table[s] > 0 => table'[s] > 0
        /\ s \in Range(batch) => table'[s] > 0
    BY <1>1, <2>1, InsertAdds
  <2> QED
    BY <2>1, <2>2 DEF Kept, Persisted, InMemory, Waiting
<1>5. CASE CommitReplyLost
  <2>1. UNCHANGED <<buffer, queue, batch, file>> /\ Insert(batch)
    BY <1>5 DEF CommitReplyLost, memory
  <2>2. table[s] > 0 => table'[s] > 0
    BY <1>1, <2>1, InsertAdds
  <2> QED
    BY <2>1, <2>2, KeptIfGrown DEF InMemory, Waiting
<1>6. CASE UnexpectedError
  <2>1. UNCHANGED <<buffer, queue, table, file>> /\ faults' > faults
    BY <1>6 DEF UnexpectedError, Fault, IInv, TypeOK
  <2> QED
    BY <2>1 DEF Kept, Persisted, InMemory, Waiting, LostRightly
<1>7. CASE WriteFile
  <2>1. UNCHANGED <<buffer, queue, table>> /\ file' = Written(batch) /\ batch # <<>>
    BY <1>7 DEF WriteFile, IInv, ProgressOK
  <2>2. batch \in Seq(Line)
    BY <1>1, SeqMonotonic DEF Line
  <2>3. Range(file) \subseteq Range(file')
    BY <1>1, <2>1, <2>2, WrittenLines
  <2>4. s \in Range(batch) => s \in Range(file') \/ LostRightly(s)
    BY <1>1, <2>1, <2>2, WrittenKeeps DEF LostRightly
  <2> QED
    BY <2>1, <2>3, <2>4 DEF Kept, Persisted, InMemory, Waiting
<1>8. CASE WriteFails
  <2>1. UNCHANGED <<buffer, queue, table>> /\ faults' > faults
    BY <1>8 DEF WriteFails, Fault, IInv, TypeOK
  <2>2. Range(file) \subseteq Range(file')
    BY <1>1, <1>8, WrittenInPartLines DEF WriteFails
  <2> QED
    BY <2>1, <2>2 DEF Kept, Persisted, InMemory, Waiting, LostRightly
<1>9. CASE ProcessEnds \/ Import \/ ImportFails \/ ImportReplyLost \/ FinishImport \/ RemoveFile
  <2>1. CASE mode = "pool"
    BY <1>9, <2>1 DEF ProcessEnds, Import, ImportFails, ImportReplyLost, FinishImport,
                      RemoveFile, InsertNow, LostRightly
  <2>2. CASE mode # "pool"
    <3>1. ~InMemory(s)
      BY <2>2 DEF IInv, TypeOK, InMemory, Waiting, Range
    <3>2. CASE RemoveFile
      <4>1. Range(file) = {file[i] : i \in DOMAIN file}
        BY DEF Range
      <4>2. table[s] > 0 /\ table' = table
        BY <3>1, <3>2, <4>1 DEF Kept, Persisted, IInv, ImportSkipsNothing, RemoveFile
      <4> QED
        BY <4>2 DEF Kept, Persisted
    <3>3. CASE ProcessEnds
      <4>1. table' = table /\ Range(file) \subseteq Range(file')
        BY <1>1, <3>3, WrittenInPartLines DEF ProcessEnds
      <4> QED
        BY <3>1, <4>1, KeptIfGrown
    <3>4. CASE Import \/ ImportFails \/ ImportReplyLost \/ FinishImport
      <4>1. file' = file
        BY <3>4 DEF Import, ImportFails, ImportReplyLost, FinishImport
      <4>2. table' = table \/ Insert(held)
        BY <3>4 DEF Import, ImportFails, ImportReplyLost, FinishImport
      <4>3. table[s] > 0 => table'[s] > 0
        BY <1>1, <4>2, InsertAdds
      <4> QED
        BY <3>1, <4>1, <4>3, KeptIfGrown
    <3> QED
      BY <1>9, <3>2, <3>3, <3>4
  <2> QED
    BY <2>1, <2>2
<1> QED
  BY <1>2, <1>3, <1>4, <1>5, <1>6, <1>7, <1>8, <1>9 DEF Next, Persist

LEMMA StutterKeeps ==
  ASSUME NEW s \in Share, Kept(s), UNCHANGED vars
  PROVE  Kept(s)'
BY DEF Kept, Persisted, InMemory, Waiting, vars, memory

\* A share is lost only when the process ends with it in memory, by a fault that
\* hits its own window, or behind a torn line of the file: never by an outage.
THEOREM LossesAreNamed == Spec => LossesAreLocal
<1>1. IInv /\ [Next]_vars =>
        [\A s \in Share : Kept(s) /\ ~Kept(s)' =>
           \/ mode = "pool" /\ mode' = "off"
           \/ faults' > faults /\ s \in Range(batch)
           \/ file # <<>> /\ Last(file) = Torn /\ s = Head(batch)]_vars
  <2>1. SUFFICES ASSUME IInv, [Next]_vars, NEW s \in Share, Kept(s), ~Kept(s)'
                 PROVE  LostRightly(s)
    BY DEF LostRightly
  <2>2. CASE Next
    BY <2>1, <2>2, StepKeeps
  <2>3. CASE UNCHANGED vars
    BY <2>1, <2>3, StutterKeeps
  <2> QED
    BY <2>1, <2>2, <2>3
<1> QED
  BY <1>1, Invariance, PTL DEF Spec, LossesAreLocal
=============================================================================
