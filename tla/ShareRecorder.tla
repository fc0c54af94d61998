----------------------------- MODULE ShareRecorder -----------------------------
(***************************************************************************)
(* How published shares reach the table: the background service            *)
(* ShareRecorder with its windows, retries, circuit breaker and recovery   *)
(* file, and the import of that file by a run of the program with -rs.     *)
(*                                                                         *)
(* Windows of shares wait in a queue and are persisted one at a time.  A   *)
(* window is tried in a transaction, again on an error of the database,    *)
(* and goes to the recovery file when all tries failed, or at once while   *)
(* the circuit breaker is open.  The database goes down and comes back at  *)
(* any time; the process ends, in order or not, at any time, and what it   *)
(* has in memory is gone.                                                  *)
(*                                                                         *)
(* A share is its place in the order of publication.  A share that found a *)
(* block brings its row of the blocks table with it, in the same           *)
(* transaction.                                                            *)
(***************************************************************************)
EXTENDS Integers, SequencesExt

CONSTANTS
  BufferSize,   (* shares per window, 250                                   *)
  Retries,      (* tries after the first, 3                                 *)
  Allowed,      (* failed windows that open the breaker, 2                  *)
  ImportSize,   (* shares the import inserts at a time, 100                 *)
  Found,        (* the shares that found a block                            *)
  MaxShares,    (* bound: shares ever published                             *)
  MaxFaults,    (* bound: faults other than an outage of the database       *)
  MaxImports    (* bound: imports started                                   *)

Share == 1..MaxShares
Torn == 0       \* a line of the file that was written in part only

ASSUME ConstantsAssumption ==
  /\ BufferSize \in Nat \ {0}
  /\ Retries \in Nat
  /\ Allowed \in Nat \ {0}
  /\ ImportSize \in Nat \ {0}
  /\ MaxShares \in Nat
  /\ Found \subseteq Share
  /\ MaxFaults \in Nat
  /\ MaxImports \in Nat

VARIABLES
  mode,       (* "pool", "import", "imported" (without a failure), "off"    *)
  published,  (* shares published so far                                    *)
  buffer,     (* the window being filled                                    *)
  queue,      (* windows that wait                                          *)
  batch,      (* the window being persisted                                 *)
  pc,         (* "take", "try", "file" of the pool; "read", "insert" of the import *)
  tries,      (* failed tries of the batch                                  *)
  failures,   (* windows that failed in a row; the breaker is closed below Allowed *)
  rested,     (* the breaker opened a minute ago, the next window is a trial *)
  db,         (* the database: "up", "down"                                 *)
  table,      (* how many rows of the shares table a share has              *)
  file,       (* the lines of the recovery file                             *)
  line,       (* the line the import reads next                             *)
  held,       (* shares the import has read and not inserted                *)
  failed,     (* failCount > 0                                              *)
  imports,    (* imports started so far                                     *)
  doubtful,   (* history: shares committed without the program knowing      *)
  faults      (* number of faults so far (bound only)                       *)

memory  == <<buffer, queue, batch>>
policy  == <<tries, failures, rested>>
reading == <<line, held, failed>>
vars == <<mode, published, memory, pc, policy, db, table, file, reading,
          imports, doubtful, faults>>

Waiting == Range(buffer) \cup UNION {Range(w) : w \in Range(queue)}
InMemory(s) == s \in Waiting \cup Range(batch)
Persisted(s) == table[s] > 0 \/ s \in Range(file)
Kept(s) == InMemory(s) \/ Persisted(s)

Fault == faults < MaxFaults /\ faults' = faults + 1

-----------------------------------------------------------------------------
(* Publication and windows. *)

\* Mutant: a window is handed on one share too late.
PublishLate ==
  /\ mode = "pool" /\ published < MaxShares
  /\ published' = published + 1
  /\ IF Len(buffer) = BufferSize
       THEN buffer' = <<published + 1>> /\ queue' = Append(queue, buffer)
       ELSE buffer' = Append(buffer, published + 1) /\ UNCHANGED queue
  /\ UNCHANGED <<mode, batch, pc, policy, db, table, file, reading, imports, doubtful, faults>>
\* A share comes over the message bus; the window it fills is handed on.
Publish ==
  /\ mode = "pool" /\ published < MaxShares
  /\ published' = published + 1
  /\ LET window == Append(buffer, published + 1) IN
       IF Len(window) = BufferSize
         THEN buffer' = <<>> /\ queue' = Append(queue, window)
         ELSE buffer' = window /\ UNCHANGED queue
  /\ UNCHANGED <<mode, batch, pc, policy, db, table, file, reading, imports, doubtful, faults>>

\* The five seconds of a window are over.
WindowCloses ==
  /\ mode = "pool" /\ buffer # <<>>
  /\ queue' = Append(queue, buffer)
  /\ buffer' = <<>>
  /\ UNCHANGED <<mode, published, batch, pc, policy, db, table, file, reading, imports, doubtful, faults>>

BreakerOpen == failures = Allowed /\ ~rested

\* Mutant: windows are merged, not concatenated: any one may come next.
TakeAny ==
  /\ mode = "pool" /\ pc = "take"
  /\ \E i \in DOMAIN queue : batch' = queue[i] /\ queue' = RemoveAt(queue, i)
  /\ pc' = IF BreakerOpen THEN "file" ELSE "try"
  /\ UNCHANGED <<mode, published, buffer, policy, db, table, file, reading, imports, doubtful, faults>>
\* The next window, when the one before it is done.
Take ==
  /\ mode = "pool" /\ pc = "take" /\ queue # <<>>
  /\ batch' = Head(queue) /\ queue' = Tail(queue)
  /\ pc' = IF BreakerOpen THEN "file" ELSE "try"
  /\ UNCHANGED <<mode, published, buffer, policy, db, table, file, reading, imports, doubtful, faults>>

MinutePasses ==
  /\ mode = "pool" /\ BreakerOpen
  /\ rested' = TRUE
  /\ UNCHANGED <<mode, published, memory, pc, tries, failures, db, table, file, reading, imports, doubtful, faults>>

-----------------------------------------------------------------------------
(* One window against the database. *)

Insert(shares) ==
  table' = [s \in Share |-> table[s] + IF s \in Range(shares) THEN 1 ELSE 0]

\* No share is given a BlockType, so the type of every row of blocks is null.
Null == "null"
BlockType == Null

\* The unique constraint on pool, height and type is checked when the transaction
\* commits; rows of which a column is null never conflict.
Conflict(shares) ==
  BlockType # Null /\ \E s \in Range(shares) \cap Found : table[s] > 0

BatchDone == batch' = <<>> /\ pc' = "take" /\ tries' = 0

\* Mutant: retried until it works.
RetryForever == UNCHANGED <<pc, policy>>
\* Tried again or, at last, one failure for the breaker and a case for the file.
TryFailed ==
  IF tries < Retries
    THEN tries' = tries + 1 /\ UNCHANGED <<pc, failures, rested>>
    ELSE /\ tries' = 0
         /\ pc' = "file"
         /\ failures' = IF failures < Allowed THEN failures + 1 ELSE failures
         /\ rested' = FALSE

\* The transaction inserts the window's shares and blocks and is acknowledged.
Commit ==
  /\ mode = "pool" /\ pc = "try" /\ db = "up" /\ ~Conflict(batch)
  /\ Insert(batch)
  /\ BatchDone
  /\ failures' = 0 /\ rested' = FALSE
  /\ UNCHANGED <<mode, published, buffer, queue, db, file, reading, imports, doubtful, faults>>

CannotCommit ==
  /\ mode = "pool" /\ pc = "try" /\ (db = "down" \/ Conflict(batch))
  /\ TryFailed
  /\ UNCHANGED <<mode, published, memory, db, table, file, reading, imports, doubtful, faults>>

\* The database committed, and the connection broke before it said so.
CommitReplyLost ==
  /\ mode = "pool" /\ pc = "try" /\ db = "up" /\ ~Conflict(batch) /\ Fault
  /\ Insert(batch)
  /\ doubtful' = doubtful \cup Range(batch)
  /\ TryFailed
  /\ UNCHANGED <<mode, published, memory, db, file, reading, imports>>

\* Mutant: without Guard, the error ends the observable and all that waits.
ErrorEndsPipeline ==
  /\ mode = "pool" /\ pc = "try" /\ Fault
  /\ BatchDone
  /\ rested' = FALSE
  /\ buffer' = <<>> /\ queue' = <<>>
  /\ UNCHANGED <<mode, published, failures, db, table, file, reading, imports, doubtful>>
\* An exception the policies do not handle: Guard logs it, the window is gone.
UnexpectedError ==
  /\ mode = "pool" /\ pc = "try" /\ Fault
  /\ BatchDone
  /\ rested' = FALSE
  /\ UNCHANGED <<mode, published, buffer, queue, failures, db, table, file, reading, imports, doubtful>>

-----------------------------------------------------------------------------
(* The recovery file. *)

\* What follows a torn line becomes a part of it.
Written(lines) ==
  IF file # <<>> /\ Last(file) = Torn THEN file \o Tail(lines) ELSE file \o lines

\* Some lines of the batch, and perhaps the beginning of one more.
WrittenInPart(n, torn) ==
  LET lines == SubSeq(batch, 1, n) \o IF torn THEN <<Torn>> ELSE <<>>
  IN  IF lines = <<>> THEN file ELSE Written(lines)

\* Mutant: the window is written and stays the next to be persisted.
WriteAndTryAgain ==
  /\ mode = "pool" /\ pc = "file"
  /\ file' = Written(batch)
  /\ pc' = "try"
  /\ UNCHANGED <<mode, published, memory, policy, db, table, reading, imports, doubtful, faults>>
WriteFile ==
  /\ mode = "pool" /\ pc = "file"
  /\ file' = Written(batch)
  /\ BatchDone
  /\ UNCHANGED <<mode, published, buffer, queue, failures, rested, db, table, reading, imports, doubtful, faults>>

WriteFails ==
  /\ mode = "pool" /\ pc = "file" /\ Fault
  /\ \E n \in 0..Len(batch) - 1, torn \in BOOLEAN : file' = WrittenInPart(n, torn)
  /\ BatchDone
  /\ UNCHANGED <<mode, published, buffer, queue, failures, rested, db, table, reading, imports, doubtful>>

-----------------------------------------------------------------------------
(* The program starts and ends. *)

Forget ==
  /\ buffer' = <<>> /\ queue' = <<>> /\ batch' = <<>>
  /\ pc' = "take"
  /\ tries' = 0 /\ failures' = 0 /\ rested' = FALSE
  /\ line' = 1 /\ held' = <<>> /\ failed' = FALSE

StartPool ==
  /\ mode = "off"
  /\ mode' = "pool"
  /\ UNCHANGED <<published, memory, pc, policy, db, table, file, reading, imports, doubtful, faults>>

\* Shutdown, or a crash, of the pool or of the import.
ProcessEnds ==
  /\ mode \in {"pool", "import"}
  /\ mode' = "off"
  /\ Forget
  /\ \/ UNCHANGED file
     \/ /\ pc = "file"
        /\ \E n \in 0..Len(batch) - 1, torn \in BOOLEAN : file' = WrittenInPart(n, torn)
  /\ UNCHANGED <<published, db, table, imports, doubtful, faults>>

StartImport ==
  /\ mode = "off" /\ file # <<>> /\ imports < MaxImports
  /\ mode' = "import" /\ pc' = "read"
  /\ imports' = imports + 1
  /\ UNCHANGED <<published, memory, policy, db, table, file, reading, doubtful, faults>>

-----------------------------------------------------------------------------
(* The import reads line by line and inserts whenever it holds ImportSize   *)
(* shares, and once more at the end.                                        *)

ReadLine ==
  /\ mode = "import" /\ pc = "read" /\ line <= Len(file)
  /\ held' = IF file[line] = Torn THEN held ELSE Append(held, file[line])
  /\ failed' = (failed \/ file[line] = Torn)
  /\ line' = line + 1
  /\ pc' = IF Len(held') = ImportSize THEN "insert" ELSE "read"
  /\ UNCHANGED <<mode, published, memory, policy, db, table, file, imports, doubtful, faults>>

Exhausted == pc = "read" /\ line > Len(file)
InsertNow == mode = "import" /\ (pc = "insert" \/ (Exhausted /\ held # <<>>))

Import ==
  /\ InsertNow /\ db = "up" /\ ~Conflict(held)
  /\ Insert(held)
  /\ held' = <<>>
  /\ pc' = "read"
  /\ UNCHANGED <<mode, published, memory, policy, db, file, line, failed, imports, doubtful, faults>>

\* Mutant: the list is emptied whether or not the insertion worked.
ForgetHeld ==
  IF Exhausted
    THEN mode' = "off" /\ Forget
    ELSE held' = <<>> /\ pc' = "read" /\ UNCHANGED <<mode, memory, policy, line, failed>>
\* The shares stay in the list, for the next insertion if there is one.
KeepHeld ==
  IF Exhausted
    THEN mode' = "off" /\ Forget
    ELSE failed' = TRUE /\ pc' = "read" /\ UNCHANGED <<mode, memory, policy, line, held>>

ImportFails ==
  /\ InsertNow /\ (db = "down" \/ Conflict(held))
  /\ KeepHeld
  /\ UNCHANGED <<published, db, table, file, imports, doubtful, faults>>

ImportReplyLost ==
  /\ InsertNow /\ db = "up" /\ ~Conflict(held) /\ Fault
  /\ Insert(held)
  /\ doubtful' = doubtful \cup Range(held)
  /\ KeepHeld
  /\ UNCHANGED <<published, db, file, imports>>

FinishImport ==
  /\ mode = "import" /\ Exhausted /\ held = <<>>
  /\ mode' = IF failed THEN "off" ELSE "imported"
  /\ Forget
  /\ UNCHANGED <<published, db, table, file, imports, doubtful, faults>>

\* The operator removes a file that was imported without a failure.
RemoveFile ==
  /\ mode = "imported"
  /\ file' = <<>>
  /\ mode' = "off"
  /\ UNCHANGED <<published, memory, pc, policy, db, table, reading, imports, doubtful, faults>>

DatabaseFails ==
  /\ db = "up" /\ db' = "down"
  /\ UNCHANGED <<mode, published, memory, pc, policy, table, file, reading, imports, doubtful, faults>>

DatabaseReturns ==
  /\ db = "down" /\ db' = "up"
  /\ UNCHANGED <<mode, published, memory, pc, policy, table, file, reading, imports, doubtful, faults>>

-----------------------------------------------------------------------------
Init ==
  /\ mode = "off" /\ published = 0
  /\ buffer = <<>> /\ queue = <<>> /\ batch = <<>>
  /\ pc = "take" /\ tries = 0 /\ failures = 0 /\ rested = FALSE
  /\ db = "up"
  /\ table = [s \in Share |-> 0] /\ file = <<>>
  /\ line = 1 /\ held = <<>> /\ failed = FALSE
  /\ imports = 0 /\ doubtful = {} /\ faults = 0

\* What the pool does with its windows by itself.
Persist == Take \/ Commit \/ CannotCommit \/ WriteFile

Next ==
  \/ Publish \/ WindowCloses \/ Persist \/ MinutePasses
  \/ CommitReplyLost \/ UnexpectedError \/ WriteFails
  \/ StartPool \/ ProcessEnds
  \/ StartImport \/ ReadLine \/ Import \/ ImportFails \/ ImportReplyLost \/ FinishImport
  \/ RemoveFile
  \/ DatabaseFails \/ DatabaseReturns

Spec == Init /\ [][Next]_vars

\* The timer fires and the pipeline goes on; nothing says that an outage ends.
FairSpec == Spec /\ WF_vars(WindowCloses) /\ WF_vars(Persist)

-----------------------------------------------------------------------------
(* Properties. *)

\* Types of all variables; the memory of a program that does not run is empty.
TypeOK ==
  /\ mode \in {"pool", "import", "imported", "off"}
  /\ published \in 0..MaxShares
  /\ buffer \in Seq(Share) /\ Len(buffer) < BufferSize
  /\ queue \in Seq(Seq(Share) \ {<<>>}) /\ batch \in Seq(Share)
  /\ pc \in {"take", "try", "file", "read", "insert"}
  /\ tries \in 0..Retries /\ failures \in 0..Allowed /\ rested \in BOOLEAN
  /\ db \in {"up", "down"}
  /\ table \in [Share -> Nat]
  /\ file \in Seq(Share \cup {Torn})
  /\ line \in Nat \ {0} /\ held \in Seq(Share) /\ failed \in BOOLEAN
  /\ imports \in 0..MaxImports
  /\ doubtful \subseteq Share
  /\ faults \in 0..MaxFaults
  /\ (mode # "pool" => buffer = <<>> /\ queue = <<>> /\ batch = <<>>)

\* A share whose every commit was acknowledged is in the table once, or as often
\* as an import was started, whatever was retried, broken off or written to the
\* file: payouts count rows, and a row too many is another miner's money.
CountedOnce ==
  \A s \in Share \ doubtful :
    table[s] <= imports \/ (table[s] = 1 /\ s \notin Range(file)) \/ table[s] = 0

\* Windows are persisted in the order of publication: what waits is younger than
\* what is being persisted, and that is younger than all that was persisted.
InOrder ==
  /\ \A s \in Waiting, r \in Range(batch) : r < s
  /\ \A s \in Waiting, r \in Share : Persisted(r) => r < s
  /\ \A s \in Range(batch), r \in Share \ doubtful : Persisted(r) => r < s

\* The import has inserted or still holds every share of the lines it has read,
\* failed insertions or not, and when it reports success all the file is in the table.
ImportSkipsNothing ==
  /\ mode = "import" =>
       \A i \in 1..line - 1 :
         file[i] # Torn => file[i] \in Range(held) \/ table[file[i]] > 0
  /\ mode = "imported" => \A i \in DOMAIN file : file[i] # Torn /\ table[file[i]] > 0

\* A share that was published is lost only when the process ends with it in
\* memory, by a fault that hits its own window (never the windows behind it), or
\* as the first line written after a torn one.  An outage of the database, retries,
\* the breaker and the removal of an imported file lose none.
LossesAreLocal ==
  [][\A s \in Share : Kept(s) /\ ~Kept(s)' =>
       \/ mode = "pool" /\ mode' = "off"
       \/ faults' > faults /\ s \in Range(batch)
       \/ file # <<>> /\ Last(file) = Torn /\ s = Head(batch)]_vars

\* Every share leaves the memory, for the table or the file, even if the
\* database never comes back.
LeavesMemory == \A s \in Share : InMemory(s) ~> ~InMemory(s)

\* What the constraint BLOCKS_POOL_HEIGHT says: a pool has one row per block.
BlockRowsUnique == \A s \in Found : table[s] <= 1
=============================================================================
