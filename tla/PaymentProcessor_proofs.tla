-------------------------- MODULE PaymentProcessor_proofs --------------------------
(***************************************************************************)
(* Proofs about PaymentProcessor, for every set of payments, every wallet  *)
(* and every mix of faults.                                                *)
(***************************************************************************)
EXTENDS PaymentProcessor, TLAPS, FiniteSetTheorems

\* While a payment is worked on there is one, and the payer's count for it is
\* covered by the chain and by its amount; once the count is complete so is the
\* transfer.
WorkOK ==
  /\ pc \in {"send", "mark", "notify"} => \E p \in Payment : Current(p)
  /\ \A p \in Payment : Current(p) =>
       /\ pc \in {"send", "mark"} => progress <= Amount[p] /\ progress <= paid[p]
       /\ pc = "mark" => progress = Amount[p]
       /\ pc = "notify" => paid[p] >= Amount[p]

\* The inductive invariant.
IInv ==
  /\ TypeOK
  /\ WorkOK
  /\ CompletedIsPaid
  /\ RecordedIsPaid
  /\ Deluded \subseteq misled

\* A batch has at most one current payment.
LEMMA CurrentUnique ==
  ASSUME NEW p \in Payment, NEW q \in Payment, Current(p), Current(q)
  PROVE  p = q
BY ConstantsAssumption DEF Current

LEMMA InitIInv == Init => IInv
<1>1. Init => TypeOK
  BY ConstantsAssumption DEF Init, TypeOK
<1>2. Init => WorkOK
  BY DEF Init, WorkOK, Current
<1>3. Init => CompletedIsPaid /\ RecordedIsPaid
  BY DEF Init, CompletedIsPaid, RecordedIsPaid
<1>4. Init => Deluded \subseteq misled
  BY DEF Init, Deluded, Belief, Attempting
<1> QED
  BY <1>1, <1>2, <1>3, <1>4 DEF IInv

\* The money a broadcast moves: never more than is still due.
LEMMA TransferBound ==
  ASSUME TypeOK, WorkOK,
         NEW p \in Payment, NEW c \in Coin, CanSend(p, c)
  PROVE  /\ Transfer(p, c) \in Nat
         /\ Transfer(p, c) <= Amount[p] - progress
         /\ Change(p, c) \in Nat
         /\ progress \in Nat /\ progress <= Amount[p]
         /\ paid[p] \in Nat /\ Amount[p] \in Nat
BY ConstantsAssumption DEF TypeOK, WorkOK, CanSend, Transfer, Change, AtMost, Remaining

\* Track keeps the history variable typed and ahead of the present.
LEMMA TrackMisled ==
  ASSUME TypeOK, Track
  PROVE  misled' \subseteq Payment /\ (Deluded \subseteq misled)'
BY DEF TypeOK, Track, Deluded

\* Steps that leave pool, file and chain alone and leave no payment in work keep
\* the invariant as soon as they keep the types of what they do change.
LEMMA QuietStep ==
  ASSUME IInv, Track, UNCHANGED <<pool, tracker, wallet, paid>>,
         pc' \in {"idle", "next"}, batch' \subseteq Payment, chosen' \subseteq Coin,
         path' \in {"single", "batched"}, progress' \in Nat,
         lag' \in 0..BlockPeriod, fresh' \in 0..BlockPeriod, faults' \in 0..MaxFaults
  PROVE  IInv'
<1>1. TypeOK'
  BY TrackMisled DEF IInv, TypeOK, pool, wallet
<1>2. WorkOK'
  BY DEF WorkOK
<1>3. CompletedIsPaid' /\ RecordedIsPaid'
  BY DEF IInv, CompletedIsPaid, RecordedIsPaid, pool
<1> QED
  BY <1>1, <1>2, <1>3, TrackMisled DEF IInv

LEMMA FaultCount ==
  ASSUME TypeOK, NEW kind, Fault(kind) PROVE faults' \in 0..MaxFaults
BY ConstantsAssumption DEF TypeOK, Fault

LEMMA StartIInv == IInv /\ Start => IInv'
<1> SUFFICES ASSUME IInv, Start PROVE IInv'
  OBVIOUS
<1>1. faults' \in 0..MaxFaults
  BY FaultCount DEF IInv, Start, TypeOK
<1> QED
  BY <1>1, QuietStep, ConstantsAssumption DEF IInv, Start, TypeOK, work

LEMMA StartBatchIInv == IInv /\ StartBatch => IInv'
BY QuietStep, ConstantsAssumption DEF IInv, StartBatch, OldestPending, Pending, TypeOK

LEMMA FetchRefusedIInv == IInv /\ FetchRefused => IInv'
BY QuietStep, FaultCount, ConstantsAssumption DEF IInv, FetchRefused, ShouldProcess, TypeOK, work

LEMMA EndBatchIInv == IInv /\ EndBatch => IInv'
BY QuietStep, ConstantsAssumption DEF IInv, EndBatch, TypeOK, work

LEMMA RejectInvalidIInv ==
  ASSUME NEW p \in Payment PROVE IInv /\ RejectInvalid(p) => IInv'
BY QuietStep DEF IInv, RejectInvalid, StopBatch, TypeOK, cycle

LEMMA SkipCompletedIInv ==
  ASSUME NEW p \in Payment PROVE IInv /\ SkipCompleted(p) => IInv'
BY QuietStep DEF IInv, SkipCompleted, NextPayment, TypeOK, cycle

LEMMA ReadsAsUnpaidCount ==
  ASSUME TypeOK, NEW p, ReadsAsUnpaid(p) PROVE faults' \in 0..MaxFaults
BY FaultCount DEF TypeOK, ReadsAsUnpaid

LEMMA InsufficientFundsIInv ==
  ASSUME NEW p \in Payment PROVE IInv /\ InsufficientFunds(p) => IInv'
BY QuietStep, ReadsAsUnpaidCount DEF IInv, InsufficientFunds, StopBatch, TypeOK, cycle

LEMMA WalletUnreachableIInv ==
  ASSUME NEW p \in Payment PROVE IInv /\ WalletUnreachable(p) => IInv'
BY QuietStep, FaultCount DEF IInv, WalletUnreachable, StopBatch, TypeOK, cycle

LEMMA GiveUpIInv ==
  ASSUME NEW p \in Payment
  PROVE  IInv /\ (GiveUpPartial(p) \/ GiveUpUnsent(p)) => IInv'
BY QuietStep DEF IInv, GiveUpPartial, GiveUpUnsent, NextPayment, StopBatch, TypeOK, cycle

\* Choosing coins opens an attempt with nothing sent.
LEMMA SelectCoinsIInv ==
  ASSUME NEW p \in Payment PROVE IInv /\ SelectCoins(p) => IInv'
<1> SUFFICES ASSUME IInv, SelectCoins(p) PROVE IInv'
  OBVIOUS
<1> USE DEF IInv, SelectCoins
<1>1. TypeOK'
  BY ReadsAsUnpaidCount, TrackMisled DEF TypeOK, pool, wallet, cycle
<1>2. WorkOK'
  BY ConstantsAssumption DEF WorkOK, Current, TypeOK
<1>3. CompletedIsPaid' /\ RecordedIsPaid'
  BY DEF CompletedIsPaid, RecordedIsPaid, pool
<1> QED
  BY <1>1, <1>2, <1>3, TrackMisled
\* What a transaction accepted by the daemon does to the chain and the wallet.
LEMMA AcceptEffect ==
  ASSUME IInv, NEW p \in Payment, NEW c \in Coin, CanSend(p, c), Accept(p, c)
  PROVE  /\ paid' \in [Payment -> Nat]
         /\ paid'[p] = paid[p] + Transfer(p, c)
         /\ \A q \in Payment : paid'[q] >= paid[q] /\ (q # p => paid'[q] = paid[q])
         /\ coin' \in [Coin -> Nat] /\ mature' \subseteq Coin /\ minted' \in Nat
<1>1. Transfer(p, c) \in Nat /\ Change(p, c) \in Nat
  BY TransferBound DEF IInv
<1>2. paid \in [Payment -> Nat] /\ coin \in [Coin -> Nat] /\ mature \subseteq Coin
      /\ minted \in Nat
  BY DEF IInv, TypeOK
<1> QED
  BY <1>1, <1>2 DEF Accept

\* The payer learns of it: the count moves with the chain.
LEMMA BroadcastIInv ==
  ASSUME NEW p \in Payment, NEW c \in Coin PROVE IInv /\ Broadcast(p, c) => IInv'
<1> SUFFICES ASSUME IInv, Broadcast(p, c) PROVE IInv'
  OBVIOUS
<1>1. CanSend(p, c) /\ Accept(p, c) /\ Track
  BY DEF Broadcast
<1>2. /\ Transfer(p, c) \in Nat /\ Transfer(p, c) <= Amount[p] - progress
      /\ progress \in Nat /\ progress <= Amount[p] /\ Amount[p] \in Nat
      /\ paid[p] \in Nat /\ Current(p) /\ progress <= paid[p]
  BY <1>1, TransferBound DEF IInv, CanSend, WorkOK
<1>3. /\ progress' = progress + Transfer(p, c) /\ progress' \in Nat
      /\ progress' <= Amount[p] /\ progress' <= paid'[p]
      /\ batch' = batch
      /\ pc' = "send" \/ (pc' = "mark" /\ progress' = Amount[p])
  BY <1>1, <1>2, AcceptEffect DEF Broadcast
<1>4. faults' \in 0..MaxFaults
  BY ReadsAsUnpaidCount DEF Broadcast, ReadsAgainAsUnpaid, IInv, TypeOK
<1>5. TypeOK'
  BY <1>1, <1>3, <1>4, AcceptEffect, TrackMisled DEF IInv, TypeOK, Broadcast, pool, cycle
<1>6. Current(p)' /\ \A q \in Payment : Current(q)' => q = p
  BY <1>2, <1>3, CurrentUnique DEF Current
<1>7. WorkOK'
  BY <1>3, <1>6 DEF WorkOK
<1>8. CompletedIsPaid' /\ RecordedIsPaid'
  BY <1>1, AcceptEffect, ConstantsAssumption
     DEF IInv, TypeOK, CompletedIsPaid, RecordedIsPaid, Broadcast, pool
<1> QED
  BY <1>1, <1>5, <1>7, <1>8, TrackMisled DEF IInv

\* The payer does not learn of it.
LEMMA BroadcastReplyLostIInv ==
  ASSUME NEW p \in Payment, NEW c \in Coin
  PROVE  IInv /\ BroadcastReplyLost(p, c) => IInv'
<1> SUFFICES ASSUME IInv, BroadcastReplyLost(p, c) PROVE IInv'
  OBVIOUS
<1>1. CanSend(p, c) /\ Accept(p, c) /\ Track /\ CoinFailed(c) /\ faults' \in 0..MaxFaults
  BY FaultCount DEF BroadcastReplyLost, IInv
<1>2. /\ pc' \in {"idle", "send"} /\ batch' \subseteq batch /\ chosen' \subseteq chosen
      /\ path' \in {"single", "batched"} /\ progress' \in Nat
      /\ pc' = "send" => batch' = batch /\ progress' = progress /\ pc = "send"
  BY <1>1 DEF CoinFailed, StopBatch, CanSend, IInv, TypeOK
<1>3. TypeOK'
  BY <1>1, <1>2, AcceptEffect, TrackMisled DEF IInv, TypeOK, BroadcastReplyLost, pool, cycle
<1>4. WorkOK'
  <2>1. CASE pc' = "idle"
    BY <2>1 DEF WorkOK
  <2>2. CASE pc' = "send"
    <3>1. \A q \in Payment : Current(q)' <=> Current(q)
      BY <1>2, <2>2 DEF Current
    <3>2. \A q \in Payment : Current(q) => progress <= Amount[q] /\ progress <= paid'[q]
      BY <1>1, <1>2, <2>2, AcceptEffect DEF IInv, WorkOK, TypeOK
    <3> QED
      BY <1>2, <2>2, <3>1, <3>2 DEF IInv, WorkOK
  <2> QED
    BY <1>2, <2>1, <2>2
<1>5. CompletedIsPaid' /\ RecordedIsPaid'
  BY <1>1, AcceptEffect, ConstantsAssumption
     DEF IInv, TypeOK, CompletedIsPaid, RecordedIsPaid, BroadcastReplyLost, pool
<1> QED
  BY <1>1, <1>3, <1>4, <1>5, TrackMisled DEF IInv

\* A coin is given up without effect on chain, file or pool.
LEMMA CoinLostIInv ==
  ASSUME NEW c \in Coin
  PROVE  IInv /\ (SkipCoin(c) \/ \E p \in Payment : BroadcastRefused(p, c)) => IInv'
<1> SUFFICES ASSUME IInv, SkipCoin(c) \/ \E p \in Payment : BroadcastRefused(p, c)
             PROVE  IInv'
  OBVIOUS
<1>1. /\ Track /\ UNCHANGED <<pool, tracker, wallet, paid, cycle>>
      /\ pc' \in {"idle", "send"} /\ batch' \subseteq batch /\ chosen' \subseteq chosen
      /\ path' \in {"single", "batched"} /\ progress' \in Nat
      /\ pc' = "send" => batch' = batch /\ progress' = progress /\ pc = "send"
  BY DEF SkipCoin, BroadcastRefused, CoinFailed, StopBatch, CanSend, IInv, TypeOK, cycle
<1>2. faults' \in 0..MaxFaults
  BY FaultCount DEF SkipCoin, BroadcastRefused, IInv, TypeOK
<1>3. TypeOK'
  BY <1>1, <1>2, TrackMisled DEF IInv, TypeOK, pool, wallet, cycle
<1>4. WorkOK'
  BY <1>1 DEF IInv, WorkOK, Current
<1>5. CompletedIsPaid' /\ RecordedIsPaid'
  BY <1>1 DEF IInv, CompletedIsPaid, RecordedIsPaid, pool
<1> QED
  BY <1>1, <1>3, <1>4, <1>5, TrackMisled DEF IInv

\* Recording keeps the attempt's transfer complete, whatever was in the file.
LEMMA MarkIInv ==
  ASSUME NEW p \in Payment PROVE IInv /\ Mark(p) => IInv'
<1> SUFFICES ASSUME IInv, Mark(p) PROVE IInv'
  OBVIOUS
<1>1. PICK t \in SUBSET Payment : LoadTracker(t) /\ tracker' = t \cup {p}
  BY DEF Mark
<1>2. t \subseteq tracker /\ faults' \in 0..MaxFaults
  BY <1>1, FaultCount DEF LoadTracker, IInv, TypeOK
<1>3. Current(p) /\ pc = "mark" /\ paid[p] >= Amount[p]
  BY ConstantsAssumption DEF Mark, IInv, WorkOK, TypeOK
<1>4. TypeOK'
  BY <1>1, <1>2, TrackMisled DEF IInv, TypeOK, Mark, pool, wallet, work, cycle
<1>5. WorkOK'
  BY <1>3, CurrentUnique DEF WorkOK, Mark, Current, work
<1>6. CompletedIsPaid' /\ RecordedIsPaid'
  BY <1>1, <1>2, <1>3 DEF IInv, CompletedIsPaid, RecordedIsPaid, Mark, pool
<1> QED
  BY <1>4, <1>5, <1>6, TrackMisled DEF IInv, Mark

LEMMA MarkFailsIInv ==
  ASSUME NEW p \in Payment PROVE IInv /\ MarkFails(p) => IInv'
<1> SUFFICES ASSUME IInv, MarkFails(p) PROVE IInv'
  OBVIOUS
<1>1. /\ tracker' \subseteq tracker /\ Track /\ faults' \in 0..MaxFaults
      /\ UNCHANGED <<pool, wallet, paid, cycle>> /\ pc = "mark"
      /\ pc' = "idle" \/ (pc' = "send" /\ UNCHANGED work)
      /\ batch' \subseteq batch /\ chosen' \subseteq chosen
      /\ path' \in {"single", "batched"} /\ progress' \in Nat
  BY FaultCount DEF MarkFails, StopBatch, IInv, TypeOK, work
<1>2. TypeOK'
  BY <1>1, TrackMisled DEF IInv, TypeOK, pool, wallet, cycle
<1>3. WorkOK'
  BY <1>1 DEF IInv, WorkOK, Current, work
<1>4. CompletedIsPaid' /\ RecordedIsPaid'
  BY <1>1 DEF IInv, CompletedIsPaid, RecordedIsPaid, pool
<1> QED
  BY <1>1, <1>2, <1>3, <1>4, TrackMisled DEF IInv

\* Whether the pool hears of it or not, what it may hear is true.
LEMMA NotifyIInv ==
  ASSUME NEW p \in Payment PROVE IInv /\ (Notify(p) \/ NotifyFails(p)) => IInv'
<1> SUFFICES ASSUME IInv, Notify(p) \/ NotifyFails(p) PROVE IInv'
  OBVIOUS
<1>1. /\ pc = "notify" /\ Current(p) /\ NextPayment(p) /\ Track
      /\ UNCHANGED <<tracker, wallet, paid, cycle>>
      /\ paid[p] >= Amount[p]
  BY DEF Notify, NotifyFails, IInv, WorkOK
<1>2. faults' \in 0..MaxFaults
  BY FaultCount DEF Notify, NotifyFails, IInv, TypeOK
<1>3. /\ row' \in [Payment -> {"absent", "pending", "completed"}]
      /\ posted' \subseteq posted \cup {p}
      /\ \A q \in Payment : row'[q] = "completed" => row[q] = "completed" \/ q = p
  BY DEF Notify, NotifyFails, Complete, IInv, TypeOK
<1>4. TypeOK'
  BY <1>1, <1>2, <1>3, TrackMisled DEF IInv, TypeOK, NextPayment, wallet, cycle
<1>5. WorkOK'
  BY <1>1 DEF WorkOK, NextPayment
<1>6. CompletedIsPaid' /\ RecordedIsPaid'
  BY <1>1, <1>3 DEF IInv, CompletedIsPaid, RecordedIsPaid
<1> QED
  BY <1>1, <1>4, <1>5, <1>6, TrackMisled DEF IInv

\* Steps of the pool and the daemon leave the payer's work alone.
LEMMA OutsideIInv ==
  ASSUME IInv, Track, UNCHANGED <<tracker, paid, pc, work>>,
         \A q \in Payment : \/ row'[q] # "completed" \/ row[q] = "completed" \/ q \in posted,
         posted' \subseteq posted,
         TypeOK'
  PROVE  IInv'
<1>1. WorkOK'
  BY DEF IInv, WorkOK, Current, work
<1>2. CompletedIsPaid' /\ RecordedIsPaid'
  BY DEF IInv, TypeOK, CompletedIsPaid, RecordedIsPaid
<1> QED
  BY <1>1, <1>2, TrackMisled DEF IInv

LEMMA LateNotifyIInv ==
  ASSUME NEW p \in Payment PROVE IInv /\ (LateNotify(p) \/ QueuePayment(p)) => IInv'
<1> SUFFICES ASSUME IInv, LateNotify(p) \/ QueuePayment(p) PROVE IInv'
  OBVIOUS
<1>1. /\ row' \in [Payment -> {"absent", "pending", "completed"}]
      /\ \A q \in Payment : row'[q] # "completed" \/ row[q] = "completed" \/ q \in posted
      /\ posted' \subseteq posted /\ Track
  BY DEF LateNotify, QueuePayment, Complete, IInv, TypeOK
<1>2. TypeOK'
  BY <1>1, TrackMisled DEF LateNotify, QueuePayment, IInv, TypeOK, wallet, work, cycle
<1> QED
  BY <1>1, <1>2, OutsideIInv DEF LateNotify, QueuePayment

LEMMA WalletIInv ==
  IInv /\ ((\E M \in SUBSET Coin : NewBlock(M)) \/ (\E c \in Coin, v \in CoinValue : Deposit(c, v)))
    => IInv'
<1>1. ASSUME IInv, NEW M \in SUBSET Coin, NewBlock(M) PROVE IInv'
  <2>1. TypeOK'
    BY <1>1, TrackMisled, ConstantsAssumption DEF NewBlock, AtMost, IInv, TypeOK, pool, work
  <2> QED
    BY <1>1, <2>1, OutsideIInv DEF NewBlock, pool
<1>2. ASSUME IInv, NEW c \in Coin, NEW v \in CoinValue, Deposit(c, v) PROVE IInv'
  <2>1. TypeOK'
    BY <1>2, TrackMisled, ConstantsAssumption DEF Deposit, IInv, TypeOK, pool, work, cycle
  <2> QED
    BY <1>2, <2>1, OutsideIInv DEF Deposit, pool
<1> QED
  BY <1>1, <1>2

LEMMA CrashIInv == IInv /\ Crash => IInv'
<1> SUFFICES ASSUME IInv, Crash PROVE IInv'
  OBVIOUS
<1>1. tracker' \subseteq tracker /\ faults' \in 0..MaxFaults
  BY FaultCount DEF Crash, IInv
<1>2. TypeOK'
  BY <1>1, TrackMisled DEF Crash, IInv, TypeOK, pool, wallet, cycle
<1>3. WorkOK'
  BY DEF Crash, WorkOK
<1>4. CompletedIsPaid' /\ RecordedIsPaid'
  BY <1>1 DEF Crash, IInv, CompletedIsPaid, RecordedIsPaid, pool
<1> QED
  BY <1>2, <1>3, <1>4, TrackMisled DEF IInv, Crash

LEMMA StutterIInv == IInv /\ UNCHANGED vars => IInv'
<1> SUFFICES ASSUME IInv, UNCHANGED vars PROVE IInv'
  OBVIOUS
<1> USE DEF vars, pool, wallet, work, cycle
<1>1. TypeOK'
  BY DEF IInv, TypeOK
<1>2. WorkOK'
  BY DEF IInv, WorkOK, Current
<1>3. CompletedIsPaid' /\ RecordedIsPaid'
  BY DEF IInv, CompletedIsPaid, RecordedIsPaid
<1>4. (Deluded \subseteq misled)'
  BY DEF IInv, Deluded, Belief, Attempting, Current
<1> QED
  BY <1>1, <1>2, <1>3, <1>4 DEF IInv

LEMMA NextIInv == IInv /\ [Next]_vars => IInv'
<1> SUFFICES ASSUME IInv, [Next]_vars PROVE IInv'
  OBVIOUS
<1>1. CASE Payer
  BY <1>1, StartIInv, StartBatchIInv, FetchRefusedIInv, EndBatchIInv,
     RejectInvalidIInv, SkipCompletedIInv, SelectCoinsIInv, InsufficientFundsIInv,
     WalletUnreachableIInv, BroadcastIInv, BroadcastReplyLostIInv, CoinLostIInv,
     GiveUpIInv, MarkIInv, MarkFailsIInv, NotifyIInv
     DEF Payer, Process
<1>2. CASE Environment
  BY <1>2, CrashIInv, LateNotifyIInv, WalletIInv DEF Environment
<1>3. CASE UNCHANGED vars
  BY <1>3, StutterIInv
<1> QED
  BY <1>1, <1>2, <1>3 DEF Next

-----------------------------------------------------------------------------
LEMMA SpecIInv == Spec => []IInv
<1>1. Init => IInv
  BY InitIInv
<1>2. IInv /\ [Next]_vars => IInv'
  BY NextIInv
<1> QED
  BY <1>1, <1>2, PTL DEF Spec

\* Type correctness.
THEOREM TypeCorrect == Spec => []TypeOK
<1>1. IInv => TypeOK
  BY DEF IInv
<1> QED
  BY <1>1, SpecIInv, PTL

\* The pool never shows, and is never about to be told, that a payment is
\* completed before the chain has transferred all of it, whatever fails.
THEOREM PoolNeverAheadOfChain == Spec => []CompletedIsPaid
<1>1. IInv => CompletedIsPaid
  BY DEF IInv
<1> QED
  BY <1>1, SpecIInv, PTL

\* The completion file never names a payment that the chain has not transferred
\* in full, whatever fails.
THEOREM FileNeverAheadOfChain == Spec => []RecordedIsPaid
<1>1. IInv => RecordedIsPaid
  BY DEF IInv
<1> QED
  BY <1>1, SpecIInv, PTL

\* Overpayment needs books that were wrong: what the payer believes to have sent
\* never exceeds the amount, and it equals the chain unless p is marked misled.
THEOREM NoOverpaymentOnTrueBooks == Spec => []OverpaidOnlyIfMisled
<1>1. ASSUME IInv, NEW p \in Payment PROVE Belief(p) <= Amount[p]
  BY <1>1, ConstantsAssumption DEF IInv, TypeOK, WorkOK, Belief, Attempting
<1>2. ASSUME IInv PROVE OverpaidOnlyIfMisled
  <2> SUFFICES ASSUME NEW p \in Payment, p \notin misled PROVE ~(paid[p] > Amount[p])
    BY DEF OverpaidOnlyIfMisled
  <2>1. Belief(p) = paid[p]
    BY <1>2 DEF IInv, Deluded
  <2> QED
    BY <1>1, <1>2, <2>1, ConstantsAssumption DEF IInv, TypeOK
<1> QED
  BY <1>2, SpecIInv, PTL

-----------------------------------------------------------------------------
(* Steps without a fault keep the payer's books right. *)

TrueBooks(p) == Belief(p) = paid[p]

\* Away from an attempt the books are the file.
LEMMA IdleSteps ==
  ASSUME NEW p \in Payment, TrueBooks(p), UNCHANGED <<tracker, paid>>,
         pc \notin {"send", "mark"}, pc' \notin {"send", "mark"}
  PROVE  TrueBooks(p)'
BY DEF TrueBooks, Belief, Attempting

LEMMA SameAttempt ==
  ASSUME NEW p \in Payment, TrueBooks(p), UNCHANGED <<tracker, paid, pc, batch, progress>>
  PROVE  TrueBooks(p)'
BY DEF TrueBooks, Belief, Attempting, Current

LEMMA LoopKeepsBooks ==
  ASSUME IInv, NEW p \in Payment, TrueBooks(p), faults' = faults,
         \/ Start \/ StartBatch \/ EndBatch
         \/ \E q \in Payment : \/ RejectInvalid(q) \/ SkipCompleted(q)
                               \/ InsufficientFunds(q) \/ Notify(q)
  PROVE  TrueBooks(p)'
<1>1. /\ UNCHANGED <<tracker, paid>>
      /\ pc \notin {"send", "mark"} /\ pc' \notin {"send", "mark"}
  BY DEF Start, StartBatch, ShouldProcess, EndBatch, RejectInvalid, SkipCompleted,
         InsufficientFunds, Notify, StopBatch, NextPayment
<1> QED
  BY <1>1, IdleSteps

LEMMA OutsideKeepsBooks ==
  ASSUME IInv, NEW p \in Payment, TrueBooks(p),
         \/ \E q \in Payment : QueuePayment(q) \/ LateNotify(q)
         \/ \E M \in SUBSET Coin : NewBlock(M)
         \/ \E c \in Coin, v \in CoinValue : Deposit(c, v)
         \/ \E c \in Coin : SkipCoin(c)
  PROVE  TrueBooks(p)'
<1>1. UNCHANGED <<tracker, paid, pc, batch, progress>>
  BY DEF QueuePayment, LateNotify, NewBlock, Deposit, SkipCoin, work
<1> QED
  BY <1>1, SameAttempt

LEMMA SelectKeepsBooks ==
  ASSUME IInv, NEW p \in Payment, TrueBooks(p), faults' = faults,
         NEW q \in Payment, SelectCoins(q)
  PROVE  TrueBooks(p)'
<1>1. /\ UNCHANGED <<tracker, paid, batch>> /\ Current(q) /\ q \notin tracker
      /\ pc = "next" /\ pc' = "send" /\ progress' = 0
  BY DEF SelectCoins, ReadsAsUnpaid, Fault, IInv, TypeOK
<1>2. Current(p)' <=> p = q
  BY <1>1, CurrentUnique DEF Current
<1> QED
  BY <1>1, <1>2 DEF TrueBooks, Belief, Attempting

LEMMA BroadcastKeepsBooks ==
  ASSUME IInv, NEW p \in Payment, TrueBooks(p),
         NEW q \in Payment, NEW c \in Coin, Broadcast(q, c)
  PROVE  TrueBooks(p)'
<1>1. /\ CanSend(q, c) /\ Accept(q, c) /\ UNCHANGED <<tracker, batch>>
      /\ pc = "send" /\ pc' \in {"send", "mark"} /\ Current(q)
      /\ progress' = progress + Transfer(q, c)
  BY DEF Broadcast, CanSend
<1>2. (Current(p) <=> p = q) /\ (Current(p)' <=> p = q)
  BY <1>1, CurrentUnique DEF Current
<1>3. paid'[q] = paid[q] + Transfer(q, c) /\ (p # q => paid'[p] = paid[p])
  BY <1>1, AcceptEffect
<1> QED
  BY <1>1, <1>2, <1>3 DEF TrueBooks, Belief, Attempting

LEMMA GiveUpUnsentKeepsBooks ==
  ASSUME IInv, NEW p \in Payment, TrueBooks(p), NEW q \in Payment, GiveUpUnsent(q)
  PROVE  TrueBooks(p)'
<1>1. /\ UNCHANGED <<tracker, paid>> /\ Current(q)
      /\ pc = "send" /\ pc' = "idle" /\ progress = 0
  BY DEF GiveUpUnsent, OutOfCoins, StopBatch
<1>2. Current(p) <=> p = q
  BY <1>1, CurrentUnique
<1>3. p \in tracker => paid[p] >= Amount[p] /\ Amount[p] \in Nat /\ paid[p] \in Nat
  BY ConstantsAssumption DEF IInv, TypeOK, RecordedIsPaid
<1> QED
  BY <1>1, <1>2, <1>3 DEF TrueBooks, Belief, Attempting

LEMMA MarkKeepsBooks ==
  ASSUME IInv, NEW p \in Payment, TrueBooks(p), faults' = faults,
         NEW q \in Payment, Mark(q)
  PROVE  TrueBooks(p)'
<1>1. /\ UNCHANGED paid /\ tracker' = tracker \cup {q} /\ Current(q)
      /\ pc = "mark" /\ pc' = "notify"
  BY DEF Mark, LoadTracker, Fault, IInv, TypeOK
<1>2. progress = Amount[q]
  BY <1>1 DEF IInv, WorkOK
<1>3. Current(p) <=> p = q
  BY <1>1, CurrentUnique
<1> QED
  BY <1>1, <1>2, <1>3 DEF TrueBooks, Belief, Attempting

LEMMA NextKeepsBooks ==
  ASSUME IInv, Next, ~(faults' > faults), ~ \E q \in Payment : GiveUpPartial(q),
         NEW p \in Payment, TrueBooks(p)
  PROVE  TrueBooks(p)'
<1>1. \A kind : ~Fault(kind)
  BY DEF Fault, IInv, TypeOK
<1>2. ~Crash /\ ~FetchRefused
  BY <1>1 DEF Crash, FetchRefused
<1>3. ASSUME NEW q \in Payment
      PROVE  /\ ~WalletUnreachable(q) /\ ~MarkFails(q) /\ ~NotifyFails(q)
             /\ \A c \in Coin : ~BroadcastReplyLost(q, c) /\ ~BroadcastRefused(q, c)
             /\ SelectCoins(q) \/ InsufficientFunds(q) \/ Mark(q) \/ Notify(q) => faults' = faults
  BY <1>1 DEF WalletUnreachable, MarkFails, NotifyFails, BroadcastReplyLost, BroadcastRefused,
              SelectCoins, InsufficientFunds, ReadsAsUnpaid, Mark, LoadTracker, Notify
<1>4. Start \/ StartBatch \/ EndBatch => faults' = faults
  BY <1>1 DEF Start, StartBatch, EndBatch
<1>5. CASE Payer
  <2>1. CASE Start \/ StartBatch \/ EndBatch
    BY <1>4, <2>1, LoopKeepsBooks
  <2>2. CASE \E q \in Payment : Process(q)
    <3>1. PICK q \in Payment : Process(q)
      BY <2>2
    <3>2. CASE RejectInvalid(q) \/ SkipCompleted(q)
      <4>1. faults' = faults
        BY <3>2 DEF RejectInvalid, SkipCompleted
      <4> QED
        BY <3>2, <4>1, LoopKeepsBooks
    <3>3. CASE InsufficientFunds(q) \/ Notify(q)
      BY <3>3, <1>3, LoopKeepsBooks
    <3>4. CASE SelectCoins(q) \/ Mark(q)
      BY <3>4, <1>3, SelectKeepsBooks, MarkKeepsBooks
    <3> QED
      BY <1>3, <3>1, <3>2, <3>3, <3>4, BroadcastKeepsBooks, GiveUpUnsentKeepsBooks DEF Process
  <2> QED
    BY <1>2, <1>5, <2>1, <2>2, OutsideKeepsBooks DEF Payer
<1>6. CASE Environment
  BY <1>2, <1>6, OutsideKeepsBooks DEF Environment
<1> QED
  BY <1>5, <1>6 DEF Next

\* The books about a payment go wrong only in a step that is a fault, or that
\* gives the payment up after a part was sent: together with the theorem above,
\* overpayment is traced back to those two causes.
THEOREM BooksLostOnlyByFaultOrPartial == Spec => MisledOnlyByLoss
<1>1. ASSUME IInv, [Next]_vars
      PROVE  [misled' # misled => \/ faults' > faults
                                  \/ \E p \in Payment : GiveUpPartial(p)]_vars
  <2> SUFFICES ASSUME Next, ~(faults' > faults), ~ \E p \in Payment : GiveUpPartial(p)
               PROVE  misled' = misled
    BY <1>1 DEF vars
  <2>1. Track
    BY DEF Next, Payer, Process, Environment, Start, StartBatch, FetchRefused, EndBatch,
           RejectInvalid, SkipCompleted, SelectCoins, InsufficientFunds, WalletUnreachable,
           Broadcast, BroadcastReplyLost, BroadcastRefused, SkipCoin, GiveUpPartial,
           GiveUpUnsent, Mark, MarkFails, Notify, NotifyFails, LateNotify, Crash,
           QueuePayment, NewBlock, Deposit
  <2>2. \A p \in Payment : p \notin misled => TrueBooks(p)
    BY <1>1 DEF IInv, Deluded, TrueBooks
  <2>3. \A p \in Payment : p \notin misled => TrueBooks(p)'
    BY <1>1, <2>2, NextKeepsBooks
  <2>4. Deluded' \subseteq misled
    BY <2>3 DEF Deluded, TrueBooks
  <2> QED
    BY <2>1, <2>4 DEF Track
<1> QED
  BY <1>1, SpecIInv, PTL DEF Spec, MisledOnlyByLoss

-----------------------------------------------------------------------------
(* The order of the payments. *)

Working(state) == state \in {"send", "mark", "notify"}

\* Rows are queued in the order of their ids.
QueueOrder ==
  \A p, q \in Payment : q < p /\ row[p] # "absent" => row[q] # "absent"

\* The payments older than one of the batch are in the batch as well, unless money
\* has left for them already.
BatchOrder ==
  \A p \in batch : /\ row[p] # "absent"
                   /\ \A q \in Payment : q < p => q \in batch \/ paid[q] > 0

\* Money has left for what is recorded, or shown, as completed; and there is some to
\* leave for what is worked on.
SentOK ==
  /\ \A p \in tracker : paid[p] > 0
  /\ \A p \in Payment : row[p] = "completed" \/ p \in posted => paid[p] > 0
  /\ Working(pc) => \A p \in Payment : Current(p) => Amount[p] > 0

OrderOK == QueueOrder /\ BatchOrder /\ SentOK

LEMMA InitOrder == Init => OrderOK
BY DEF Init, OrderOK, QueueOrder, BatchOrder, SentOK, Working

\* A step keeps the order when it forgets no transfer, records and shows nothing
\* that was not sent, queues no row, and takes a payment out of the batch only when
\* money has left for it.
LEMMA OrderStep ==
  ASSUME TypeOK, TypeOK', OrderOK,
         \A p \in Payment : paid'[p] >= paid[p],
         \A p \in Payment : p \in tracker' => p \in tracker \/ paid[p] > 0,
         \A p \in Payment : row'[p] = "completed" \/ p \in posted' =>
                              row[p] = "completed" \/ p \in posted \/ paid[p] > 0,
         \A p \in Payment : row'[p] = "absent" <=> row[p] = "absent",
         batch' \subseteq batch,
         batch' = {} \/ \A p \in batch : p \in batch' \/ paid[p] > 0,
         Working(pc') => /\ batch' = batch
                         /\ \/ Working(pc)
                            \/ \A p \in Payment : Current(p) => Amount[p] > 0
  PROVE  OrderOK'
<1>1. QueueOrder'
  BY DEF OrderOK, QueueOrder
<1>2. \A p \in Payment : paid[p] > 0 => paid'[p] > 0
  BY DEF TypeOK
<1>3. BatchOrder'
  BY <1>2 DEF OrderOK, BatchOrder, TypeOK
<1>4. SentOK'
  <2>1. \A p \in tracker' : paid'[p] > 0
    BY <1>2 DEF OrderOK, SentOK, TypeOK
  <2>2. \A p \in Payment : row'[p] = "completed" \/ p \in posted' => paid'[p] > 0
    BY <1>2 DEF OrderOK, SentOK
  <2>3. Working(pc') => \A p \in Payment : Current(p)' => Amount[p] > 0
    BY DEF OrderOK, SentOK, Current
  <2> QED
    BY <2>1, <2>2, <2>3 DEF SentOK
<1> QED
  BY <1>1, <1>3, <1>4 DEF OrderOK

\* Steps that neither pay, record nor show anything.
LEMMA UnseenStep ==
  ASSUME TypeOK, TypeOK', OrderOK,
         UNCHANGED <<pool, paid>>, tracker' \subseteq tracker,
         batch' \subseteq batch,
         batch' = {} \/ \A p \in batch : p \in batch' \/ paid[p] > 0,
         Working(pc') => /\ batch' = batch
                         /\ \/ Working(pc)
                            \/ \A p \in Payment : Current(p) => Amount[p] > 0
  PROVE  OrderOK'
<1>1. UNCHANGED <<row, posted>>
  BY DEF pool
<1>2. \A p \in Payment : paid'[p] >= paid[p]
  BY DEF TypeOK
<1> QED
  BY <1>1, <1>2, OrderStep

\* Steps that throw the batch away.
LEMMA StoppedStep ==
  ASSUME TypeOK, TypeOK', OrderOK,
         UNCHANGED <<pool, paid>>, tracker' \subseteq tracker,
         batch' = {}, pc' \in {"idle", "down"}
  PROVE  OrderOK'
BY UnseenStep DEF Working

\* The loop takes older payments first.
LEMMA OldestFetched ==
  ASSUME TypeOK, NEW p \in OldestPending, NEW q \in Pending, q < p
  PROVE  q \in OldestPending
<1> DEFINE A == {r \in Pending : r < q}
           B == {r \in Pending : r < p}
<1>1. p \in Nat /\ q \in Nat /\ Pending \subseteq Nat
  BY ConstantsAssumption DEF OldestPending, Pending
<1>2. IsFiniteSet(B)
  <2>1. IsFiniteSet(0..p)
    BY <1>1, FS_Interval
  <2>2. ASSUME NEW r \in Pending, r < p PROVE r \in 0..p
    BY <1>1, <2>2
  <2>3. B \subseteq 0..p
    BY <2>2
  <2> QED
    BY <2>1, <2>3, FS_Subset
<1>3. A \subseteq B
  <2>1. ASSUME NEW r \in Pending, r < q PROVE r < p
    BY <1>1, <2>1
  <2> QED
    BY <2>1
<1>4. /\ Cardinality(A) \in Nat /\ Cardinality(B) \in Nat
      /\ Cardinality(A) <= Cardinality(B)
  BY <1>2, <1>3, FS_Subset, FS_CardinalityType
<1>5. Cardinality(B) < BatchSize
  BY DEF OldestPending
<1>6. Cardinality(A) < BatchSize
  BY <1>4, <1>5, ConstantsAssumption
<1> QED
  BY <1>6 DEF OldestPending

LEMMA StartBatchOrder ==
  ASSUME TypeOK, OrderOK, StartBatch
  PROVE  OrderOK'
<1>1. /\ UNCHANGED <<row, posted, tracker, paid>>
      /\ batch' = OldestPending /\ pc' = "next"
  BY DEF StartBatch, pool
<1>2. QueueOrder'
  BY <1>1 DEF OrderOK, QueueOrder
<1>3. BatchOrder'
  <2>1. SUFFICES ASSUME NEW p \in OldestPending
                 PROVE  /\ row[p] # "absent"
                        /\ \A q \in Payment : q < p => q \in OldestPending \/ paid[q] > 0
    BY <1>1 DEF BatchOrder
  <2>2. p \in Payment /\ row[p] = "pending"
    BY DEF OldestPending, Pending
  <2>3. ASSUME NEW q \in Payment, q < p PROVE q \in OldestPending \/ paid[q] > 0
    <3>1. row[q] \in {"pending", "completed"}
      BY <2>2, <2>3 DEF OrderOK, QueueOrder, TypeOK
    <3>2. CASE row[q] = "completed"
      BY <3>2 DEF OrderOK, SentOK
    <3>3. CASE row[q] = "pending"
      BY <2>3, <3>3, OldestFetched DEF Pending
    <3> QED
      BY <3>1, <3>2, <3>3
  <2> QED
    BY <2>2, <2>3
<1>4. SentOK'
  BY <1>1 DEF OrderOK, SentOK, Working
<1> QED
  BY <1>2, <1>3, <1>4 DEF OrderOK

\* A new row comes after all others.
LEMMA QueuePaymentOrder ==
  ASSUME TypeOK, OrderOK, NEW p \in Payment, QueuePayment(p)
  PROVE  OrderOK'
<1>1. /\ row' = [row EXCEPT ![p] = "pending"] /\ row[p] = "absent"
      /\ \A q \in Payment : q < p => row[q] # "absent"
      /\ UNCHANGED <<posted, tracker, paid, pc, batch>>
  BY DEF QueuePayment, work
<1>2. row'[p] = "pending" /\ \A q \in Payment : q # p => row'[q] = row[q]
  BY <1>1 DEF TypeOK
<1>3. QueueOrder'
  BY <1>1, <1>2 DEF OrderOK, QueueOrder
<1>4. BatchOrder'
  BY <1>1, <1>2 DEF OrderOK, BatchOrder, TypeOK
<1>5. SentOK'
  BY <1>1, <1>2 DEF OrderOK, SentOK, Current
<1> QED
  BY <1>3, <1>4, <1>5 DEF OrderOK

\* Completing a row whose payment was sent.
LEMMA CompleteOrder ==
  ASSUME TypeOK, NEW p \in Payment, Complete(p)
  PROVE  /\ \A q \in Payment : row'[q] = "completed" => row[q] = "completed" \/ q = p
         /\ \A q \in Payment : row'[q] = "absent" <=> row[q] = "absent"
BY DEF Complete, TypeOK

\* Going on with the next payment when money has left for this one.
LEMMA NextPaymentOrder ==
  ASSUME NEW p \in Payment, NextPayment(p), paid[p] > 0
  PROVE  /\ batch' \subseteq batch /\ \A q \in batch : q \in batch' \/ paid[q] > 0
         /\ Working(pc') = FALSE
BY DEF NextPayment, Working

\* One step of the work on a payment.
LEMMA ProcessOrder ==
  ASSUME IInv, TypeOK', OrderOK, NEW p \in Payment, Process(p)
  PROVE  OrderOK'
<1> USE DEF IInv
<1>1. CASE \/ RejectInvalid(p) \/ InsufficientFunds(p) \/ WalletUnreachable(p) \/ GiveUpUnsent(p)
  BY <1>1, StoppedStep
    DEF RejectInvalid, InsufficientFunds, WalletUnreachable, GiveUpUnsent, StopBatch
<1>2. CASE SkipCompleted(p)
  <2>1. /\ UNCHANGED <<pool, tracker, paid>> /\ NextPayment(p) /\ paid[p] > 0
    BY <1>2 DEF SkipCompleted, OrderOK, SentOK
  <2> QED
    BY <2>1, NextPaymentOrder, UnseenStep
<1>3. CASE SelectCoins(p)
  <2>1. UNCHANGED <<pool, tracker, paid, batch>> /\ Current(p) /\ Amount[p] > 0
    BY <1>3 DEF SelectCoins, IsValid
  <2>2. \A q \in Payment : Current(q) => Amount[q] > 0
    BY <2>1, CurrentUnique
  <2> QED
    BY <2>1, <2>2, UnseenStep
<1>4. CASE GiveUpPartial(p)
  <2>1. /\ UNCHANGED <<pool, tracker, paid>> /\ NextPayment(p)
        /\ pc = "send" /\ Current(p) /\ progress > 0
    BY <1>4 DEF GiveUpPartial, OutOfCoins
  <2>2. paid[p] > 0
    BY <2>1 DEF WorkOK, TypeOK
  <2> QED
    BY <2>1, <2>2, NextPaymentOrder, UnseenStep
<1>5. ASSUME NEW c \in Coin,
             Broadcast(p, c) \/ BroadcastReplyLost(p, c) \/ BroadcastRefused(p, c)
      PROVE  OrderOK'
  <2>1. /\ UNCHANGED <<row, posted, tracker>> /\ CanSend(p, c) /\ pc = "send"
        /\ Accept(p, c) \/ UNCHANGED paid
        /\ batch' = batch \/ (batch' = {} /\ pc' = "idle")
    BY <1>5 DEF Broadcast, BroadcastReplyLost, BroadcastRefused, CoinFailed, StopBatch,
                CanSend, pool
  <2>2. \A q \in Payment : paid'[q] >= paid[q]
    BY <2>1, AcceptEffect DEF TypeOK
  <2>3. Working(pc) /\ (Working(pc') => batch' = batch)
    BY <2>1 DEF Working
  <2> QED
    BY <2>1, <2>2, <2>3, OrderStep
<1>6. CASE Mark(p)
  <2>1. PICK t \in SUBSET Payment : LoadTracker(t) /\ tracker' = t \cup {p}
    BY <1>6 DEF Mark
  <2>2. /\ UNCHANGED <<row, posted, paid, batch>> /\ pc = "mark" /\ Current(p)
        /\ t \subseteq tracker
    BY <1>6, <2>1 DEF Mark, LoadTracker, pool, work
  <2>3. progress = Amount[p] /\ progress <= paid[p] /\ Amount[p] > 0
    BY <2>2 DEF WorkOK, OrderOK, SentOK, Working
  <2>4. paid[p] > 0 /\ \A q \in Payment : paid'[q] >= paid[q]
    BY <2>2, <2>3, ConstantsAssumption DEF TypeOK
  <2>5. \A q \in Payment : q \in tracker' => q \in tracker \/ paid[q] > 0
    BY <2>1, <2>2, <2>4
  <2> QED
    BY <2>2, <2>4, <2>5, OrderStep DEF Working
<1>7. CASE MarkFails(p)
  <2>1. /\ UNCHANGED <<pool, paid>> /\ tracker' \subseteq tracker /\ pc = "mark"
        /\ (batch' = {} /\ pc' = "idle") \/ batch' = batch
    BY <1>7 DEF MarkFails, StopBatch, work
  <2> QED
    BY <2>1, UnseenStep DEF Working
<1>8. CASE Notify(p) \/ NotifyFails(p)
  <2>1. /\ UNCHANGED <<tracker, paid>> /\ NextPayment(p) /\ pc = "notify" /\ Current(p)
        /\ \/ Complete(p) /\ posted' = posted
           \/ row' = row /\ posted' \subseteq posted \cup {p}
    BY <1>8 DEF Notify, NotifyFails
  <2>2. paid[p] >= Amount[p] /\ Amount[p] > 0
    BY <2>1 DEF WorkOK, OrderOK, SentOK, Working
  <2>3. paid[p] > 0 /\ \A q \in Payment : paid'[q] >= paid[q]
    BY <2>1, <2>2, ConstantsAssumption DEF TypeOK
  <2>4. /\ \A q \in Payment : row'[q] = "completed" \/ q \in posted' =>
                                row[q] = "completed" \/ q \in posted \/ paid[q] > 0
        /\ \A q \in Payment : row'[q] = "absent" <=> row[q] = "absent"
    BY <2>1, <2>3, CompleteOrder
  <2>5. /\ batch' \subseteq batch /\ \A q \in batch : q \in batch' \/ paid[q] > 0
        /\ Working(pc') = FALSE
    BY <2>1, <2>3, NextPaymentOrder
  <2> QED
    BY <2>1, <2>3, <2>4, <2>5, OrderStep
<1> QED
  BY <1>1, <1>2, <1>3, <1>4, <1>5, <1>6, <1>7, <1>8 DEF Process

\* The pool hears late of a payment that was posted.
LEMMA LateNotifyOrder ==
  ASSUME TypeOK, TypeOK', OrderOK, NEW p \in Payment, LateNotify(p)
  PROVE  OrderOK'
<1>1. /\ p \in posted /\ posted' \subseteq posted /\ Complete(p)
      /\ UNCHANGED <<tracker, paid, pc, batch>>
  BY DEF LateNotify, work
<1>2. \A q \in Payment : paid'[q] >= paid[q]
  BY <1>1 DEF TypeOK
<1>3. /\ \A q \in Payment : row'[q] = "completed" \/ q \in posted' =>
                              row[q] = "completed" \/ q \in posted \/ paid[q] > 0
      /\ \A q \in Payment : row'[q] = "absent" <=> row[q] = "absent"
  BY <1>1, CompleteOrder
<1> QED
  BY <1>1, <1>2, <1>3, OrderStep

LEMMA NextOrder == IInv /\ OrderOK /\ [Next]_vars => OrderOK'
<1>1. SUFFICES ASSUME IInv, OrderOK, [Next]_vars PROVE OrderOK'
  OBVIOUS
<1>2. TypeOK /\ TypeOK'
  BY <1>1, NextIInv DEF IInv
<1>3. ASSUME UNCHANGED <<pool, tracker, paid, batch>>, Working(pc') => pc' = pc
      PROVE  OrderOK'
  BY <1>1, <1>2, <1>3, UnseenStep
<1>4. CASE Payer
  <2>1. CASE Start \/ FetchRefused \/ EndBatch
    BY <1>3, <2>1 DEF Start, FetchRefused, EndBatch, work, Working
  <2>2. CASE StartBatch
    BY <1>1, <1>2, <2>2, StartBatchOrder
  <2>3. ASSUME NEW c \in Coin, SkipCoin(c) PROVE OrderOK'
    BY <1>3, <2>3 DEF SkipCoin
  <2> QED
    BY <1>1, <1>2, <1>4, <2>1, <2>2, <2>3, ProcessOrder DEF Payer
<1>5. CASE Environment
  <2>1. CASE Crash
    <3>1. /\ UNCHANGED <<pool, paid>> /\ tracker' \subseteq tracker
          /\ batch' = {} /\ pc' = "down"
      BY <2>1 DEF Crash
    <3> QED
      BY <1>1, <1>2, <3>1, StoppedStep
  <2>2. ASSUME NEW M \in SUBSET Coin, NewBlock(M) PROVE OrderOK'
    BY <1>3, <2>2 DEF NewBlock, work
  <2>3. ASSUME NEW c \in Coin, NEW v \in CoinValue, Deposit(c, v) PROVE OrderOK'
    BY <1>3, <2>3 DEF Deposit, work
  <2> QED
    BY <1>1, <1>2, <1>5, <2>1, <2>2, <2>3, QueuePaymentOrder, LateNotifyOrder DEF Environment
<1>6. CASE UNCHANGED vars
  BY <1>3, <1>6 DEF vars, work
<1> QED
  BY <1>1, <1>4, <1>5, <1>6 DEF Next

LEMMA OrderInvariance == Spec => []OrderOK
BY InitOrder, NextOrder, SpecIInv, PTL DEF Spec

\* Money leaves only for the oldest payment of the batch.
LEMMA PaidIsCurrent ==
  ASSUME IInv, [Next]_vars, NEW p \in Payment, paid'[p] > paid[p]
  PROVE  Current(p)
<1>1. ASSUME UNCHANGED paid PROVE FALSE
  BY <1>1 DEF IInv, TypeOK
<1>2. ASSUME NEW q \in Payment, NEW c \in Coin, CanSend(q, c), Accept(q, c)
      PROVE  Current(p)
  <2>1. Current(q) /\ \A r \in Payment : r # q => paid'[r] = paid[r]
    BY <1>2, AcceptEffect DEF CanSend
  <2>2. p = q
    BY <2>1 DEF IInv, TypeOK
  <2> QED
    BY <2>1, <2>2
<1>3. CASE Payer
  <2>1. ASSUME NEW q \in Payment, Process(q) PROVE Current(p)
    <3>1. CASE \/ RejectInvalid(q) \/ SkipCompleted(q) \/ SelectCoins(q)
               \/ InsufficientFunds(q) \/ WalletUnreachable(q)
               \/ GiveUpPartial(q) \/ GiveUpUnsent(q)
               \/ Mark(q) \/ MarkFails(q) \/ Notify(q) \/ NotifyFails(q)
      BY <1>1, <3>1
        DEF RejectInvalid, SkipCompleted, SelectCoins, InsufficientFunds, WalletUnreachable,
            GiveUpPartial, GiveUpUnsent, Mark, MarkFails, Notify, NotifyFails
    <3>2. ASSUME NEW c \in Coin, Broadcast(q, c) \/ BroadcastReplyLost(q, c)
          PROVE  Current(p)
      BY <1>2, <3>2 DEF Broadcast, BroadcastReplyLost
    <3>3. ASSUME NEW c \in Coin, BroadcastRefused(q, c) PROVE Current(p)
      BY <1>1, <3>3 DEF BroadcastRefused
    <3> QED
      BY <2>1, <3>1, <3>2, <3>3 DEF Process
  <2>2. CASE Start \/ StartBatch \/ FetchRefused \/ EndBatch \/ \E c \in Coin : SkipCoin(c)
    BY <1>1, <2>2 DEF Start, StartBatch, FetchRefused, EndBatch, SkipCoin
  <2> QED
    BY <1>3, <2>1, <2>2 DEF Payer
<1>4. CASE Environment
  BY <1>1, <1>4 DEF Environment, Crash, QueuePayment, LateNotify, NewBlock, Deposit
<1>5. CASE UNCHANGED vars
  BY <1>1, <1>5 DEF vars
<1> QED
  BY <1>3, <1>4, <1>5 DEF Next

\* Payments are made in the order in which they were queued: whatever fails, is
\* retried or is given up, no money leaves for one before some has left for every
\* older one.
THEOREM OldestArePaidFirst == Spec => OldestFirst
<1>1. ASSUME IInv, OrderOK, [Next]_vars,
             NEW p \in Payment, paid'[p] > paid[p], NEW q \in Payment, q < p
      PROVE  paid[q] > 0
  <2>1. Current(p)
    BY <1>1, PaidIsCurrent
  <2>2. p \in batch /\ q \notin batch
    BY <1>1, <2>1, ConstantsAssumption DEF Current
  <2> QED
    BY <1>1, <2>2 DEF OrderOK, BatchOrder
<1>2. IInv /\ OrderOK /\ [Next]_vars =>
        [\A p \in Payment : paid'[p] > paid[p] =>
           \A q \in Payment : q < p => paid[q] > 0]_vars
  BY <1>1
<1> QED
  BY <1>2, SpecIInv, OrderInvariance, PTL DEF Spec, OldestFirst

-----------------------------------------------------------------------------
(* What it takes to pay twice. *)

\* Nobody was ever misled.
Trusty == misled = {}

\* Without faults, and as long as no payment is given up after a part of it was sent,
\* no payment is made twice: the run that refutes NoDoublePayment without any fault
\* shows that the second condition is needed.
THEOREM TwiceOnlyAfterPartial ==
  ASSUME MaxFaults = 0
  PROVE  Spec /\ [][\A p \in Payment : ~GiveUpPartial(p)]_vars => []NoDoublePayment
<1> DEFINE Loss == misled' # misled => \/ faults' > faults
                                       \/ \E p \in Payment : GiveUpPartial(p)
           Whole == \A p \in Payment : ~GiveUpPartial(p)
<1>1. Init => Trusty
  BY DEF Init, Trusty
<1>2. Trusty /\ TypeOK /\ TypeOK' /\ [Loss]_vars /\ [Whole]_vars => Trusty'
  <2>1. TypeOK /\ TypeOK' => ~(faults' > faults)
    BY DEF TypeOK
  <2> QED
    BY <2>1 DEF vars, Trusty
<1>3. Trusty /\ TypeOK /\ OverpaidOnlyIfMisled => NoDoublePayment
  BY ConstantsAssumption DEF TypeOK, OverpaidOnlyIfMisled, NoDoublePayment, Trusty
<1>4. Spec => [][Loss]_vars
  BY BooksLostOnlyByFaultOrPartial DEF MisledOnlyByLoss
<1>5. SUFFICES Spec /\ [][Whole]_vars => []NoDoublePayment
  OBVIOUS
<1> HIDE DEF Loss, Whole
<1> QED
  BY <1>1, <1>2, <1>3, <1>4, TypeCorrect, NoOverpaymentOnTrueBooks, PTL DEF Spec
=============================================================================
