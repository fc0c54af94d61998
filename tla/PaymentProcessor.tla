---------------------------- MODULE PaymentProcessor ----------------------------
(***************************************************************************)
(* The external payer (src/src/PaymentProcessor) together with the two     *)
(* services it talks to: the pool's admin API over the payments table, and *)
(* the alpha daemon that holds the wallet.                                 *)
(*                                                                         *)
(* The automation loop fetches the oldest pending payments of the pool,    *)
(* pays them one after the other on the chain (with one transaction when a *)
(* single coin is large enough, with one transaction per coin otherwise),  *)
(* records a paid payment in a local file and tells the pool.  It keeps    *)
(* three views of the same fact, "payment p has been paid", in three       *)
(* places (chain, file, pool) that no transaction spans; the properties    *)
(* below are about how far the three can drift apart.                      *)
(*                                                                         *)
(* Amounts are natural numbers of a fixed small unit.  A payment is its id; *)
(* ids are handed out in creation order, so "oldest" is "smallest".        *)
(***************************************************************************)
EXTENDS Naturals, FiniteSets, Functions, Folds

CONSTANTS
  Payment,         (* ids of the rows the pool may ever queue               *)
  Amount,          (* the amount of each payment                            *)
  Payable,         (* payments whose address the daemon calls valid         *)
  BatchSize,       (* Automation.BatchSize                                  *)
  BlockPeriod,     (* Automation.BlockPeriod                                *)
  MinimumBalance,  (* Automation.MinimumBalance                             *)
  Fee,             (* EstimateTransactionFeeAsync for one payment           *)
  Dust,            (* 0.001: smaller changes and remainders are ignored     *)
  Coin,            (* identities of wallet coins, reused once spent         *)
  CoinValue,       (* the values a deposited coin may have                  *)
  MaxMinted,       (* bound: total value ever deposited in the wallet       *)
  Faults,          (* the kinds of fault that may happen                    *)
  MaxFaults        (* bound: how many faults happen                         *)

FaultKind ==
  {"crash",    (* the payer dies, or is cancelled, between two steps        *)
   "rpc",      (* a daemon call fails without effect                        *)
   "reply",    (* a transaction is accepted but its reply is lost           *)
   "save",     (* writing the completion file fails                         *)
   "load",     (* the completion file cannot be read or parsed              *)
   "api",      (* the pool answers the second fetch with an error status    *)
   "notify"}   (* the call that reports a completed payment fails           *)

ASSUME ConstantsAssumption ==
  /\ Payment \subseteq Nat
  /\ Amount \in [Payment -> Nat]
  /\ Payable \subseteq Payment
  /\ BatchSize \in Nat \ {0}
  /\ BlockPeriod \in Nat
  /\ MinimumBalance \in Nat
  /\ Fee \in Nat
  /\ Dust \in Nat
  /\ CoinValue \subseteq Nat
  /\ MaxMinted \in Nat
  /\ Faults \subseteq FaultKind
  /\ MaxFaults \in Nat

VARIABLES
  row,       (* payments table: "absent", "pending" (no confirmation), "completed" *)
  posted,    (* completion requests the payer gave up on, still on their way *)
  tracker,   (* completed_payments.json: payments recorded as completed      *)
  coin,      (* value of each wallet coin, 0 when there is none              *)
  mature,    (* coins with enough confirmations to be spent                  *)
  minted,    (* total value deposited so far (bound only)                    *)
  paid,      (* what the chain has transferred for each payment              *)
  pc,        (* where the payer is, see TypeOK                               *)
  batch,     (* payments of the current batch that are left                  *)
  chosen,    (* coins selected for the current payment that are left         *)
  path,      (* one transaction, or one for each of several coins            *)
  progress,  (* what the payer knows it has sent for the current payment     *)
  lag,       (* blocks since the last processed one, up to BlockPeriod       *)
  fresh,     (* blocks since the current batch read the height, likewise     *)
  misled,    (* history: payments on which file or progress ever belied the chain *)
  faults     (* number of faults so far (bound only)                         *)

pool   == <<row, posted>>
wallet == <<coin, mature, minted>>
cycle  == <<lag, fresh>>
work   == <<batch, chosen, path, progress>>
vars   == <<pool, tracker, wallet, paid, pc, work, cycle, misled, faults>>

-----------------------------------------------------------------------------
(* Helpers. *)

AtMost(a, b) == IF a <= b THEN a ELSE b
Total(S) == FoldFunctionOnSet(+, 0, coin, S)

Pending == {p \in Payment : row[p] = "pending"}
TotalPending == FoldFunctionOnSet(+, 0, Amount, Pending)
\* GET payments/pending is sorted by creation; the loop takes the first BatchSize.
OldestPending ==
  {p \in Pending : Cardinality({q \in Pending : q < p}) < BatchSize}

Spendable == {c \in mature : coin[c] > 0}
Need(p) == Amount[p] + Fee
\* The shortest prefix of the spendable coins, largest first, that covers need.
IsSelection(S, need) ==
  /\ S \subseteq Spendable
  /\ \A c \in S, d \in Spendable \ S : coin[c] >= coin[d]
  /\ Total(S) >= need
  /\ \E c \in S : /\ \A d \in S : coin[c] <= coin[d]
                  /\ Total(S \ {c}) < need

\* The payment being processed: the batch is walked oldest first.
Current(p) == p \in batch /\ \A q \in batch : p <= q
\* The coin being spent: the selection is walked largest first.
NextCoin(c) == c \in chosen /\ \A d \in chosen : coin[c] >= coin[d]
Remaining(p) == Amount[p] - progress
IsValid(p) == Amount[p] > 0 /\ p \in Payable

\* What the payer would say it has transferred for p: what it counted while it
\* works on p, and what the file says at any other time.
Attempting(p) == pc \in {"send", "mark"} /\ Current(p)
Belief(p) ==
  CASE Attempting(p) -> progress
    [] ~Attempting(p) /\ p \in tracker -> Amount[p]
    [] OTHER -> 0
Deluded == {p \in Payment : Belief(p) # paid[p]}

\* Every action ends with this update of the history variable.
Track == misled' = misled \cup Deluded'

Fault(kind) ==
  /\ kind \in Faults
  /\ faults < MaxFaults
  /\ faults' = faults + 1

-----------------------------------------------------------------------------
(* How the work on one payment ends. *)

\* PaymentProcessor.ProcessSinglePaymentAsync returned: on to the next payment.
NextPayment(p) ==
  /\ batch' = batch \ {p}
  /\ chosen' = {} /\ path' = "single" /\ progress' = 0
  /\ pc' = "next"

\* It threw: the whole batch stops, the processed height is not advanced, and
\* the loop tries again after its error delay.
StopBatch ==
  /\ batch' = {} /\ chosen' = {} /\ path' = "single" /\ progress' = 0
  /\ pc' = "idle"

\* A coin brought nothing: fatal for the one-transaction path, while the
\* coin-by-coin path goes on with the next coin.
CoinFailed(c) ==
  IF path = "single"
  THEN StopBatch
  ELSE /\ chosen' = chosen \ {c}
       /\ UNCHANGED <<batch, path, progress, pc>>

-----------------------------------------------------------------------------
(* The automation loop. *)

\* The process starts: API and daemon reachable, balance covers what is pending
\* (a pending list that cannot be fetched counts as nothing pending).  The first
\* batch is due at once.
Start ==
  /\ pc = "down"
  /\ \/ Total(Coin) >= TotalPending /\ UNCHANGED faults
     \/ Total(Coin) < TotalPending /\ Fault("api")
  /\ pc' = "idle"
  /\ lag' = BlockPeriod
  /\ fresh' = 0
  /\ UNCHANGED <<pool, tracker, wallet, paid, work>>
  /\ Track

\* GetStatusAsync, ShouldProcessPayments, and the fetch of the batch.
ShouldProcess ==
  /\ pc = "idle"
  /\ lag >= BlockPeriod
  /\ Pending # {}
  /\ Total(Coin) >= MinimumBalance

StartBatch ==
  /\ ShouldProcess
  /\ batch' = OldestPending
  /\ fresh' = 0
  /\ pc' = "next"
  /\ UNCHANGED <<pool, tracker, wallet, paid, chosen, path, progress, lag, faults>>
  /\ Track

\* The second fetch answers with an error status: the client returns an empty
\* list, which counts as a processed batch.
FetchRefused ==
  /\ ShouldProcess
  /\ Fault("api")
  /\ lag' = 0
  /\ fresh' = 0
  /\ UNCHANGED <<pool, tracker, wallet, paid, pc, work>>
  /\ Track

\* Every payment of the batch was processed: the height read before it is done.
EndBatch ==
  /\ pc = "next"
  /\ batch = {}
  /\ lag' = fresh
  /\ pc' = "idle"
  /\ UNCHANGED <<pool, tracker, wallet, paid, work, fresh, faults>>
  /\ Track

-----------------------------------------------------------------------------
(* One payment, up to the choice of coins: ProcessPaymentsBatchAsync. *)

\* ValidatePaymentsAsync says no.
RejectInvalid(p) ==
  /\ pc = "next" /\ Current(p)
  /\ ~IsValid(p)
  /\ StopBatch
  /\ UNCHANGED <<pool, tracker, wallet, paid, cycle, faults>>
  /\ Track

\* The completion file has it: reported as a success, and nothing else happens;
\* in particular the pool is not told again.
SkipCompleted(p) ==
  /\ pc = "next" /\ Current(p)
  /\ IsValid(p)
  /\ p \in tracker
  /\ NextPayment(p)
  /\ UNCHANGED <<pool, tracker, wallet, paid, cycle, faults>>
  /\ Track

\* IsPaymentCompletedAsync answers no: truthfully, or because loading failed.
ReadsAsUnpaid(p) ==
  \/ p \notin tracker /\ UNCHANGED faults
  \/ p \in tracker /\ Fault("load")

\* Mutant: the payment is recorded as completed before it is sent.
SelectCoinsRecordsFirst(p) ==
  /\ pc = "next" /\ Current(p)
  /\ IsValid(p)
  /\ ReadsAsUnpaid(p)
  /\ Total(Coin) >= Need(p)
  /\ \E S \in SUBSET Coin :
       /\ IsSelection(S, Need(p))
       /\ chosen' = S
       /\ path' = IF Cardinality(S) = 1 THEN "single" ELSE "batched"
  /\ progress' = 0
  /\ pc' = "send"
  /\ tracker' = tracker \cup {p}
  /\ UNCHANGED <<pool, wallet, paid, batch, cycle>>
  /\ Track

SelectCoins(p) ==
  /\ pc = "next" /\ Current(p)
  /\ IsValid(p)
  /\ ReadsAsUnpaid(p)
  /\ Total(Coin) >= Need(p)
  /\ \E S \in SUBSET Coin :
       /\ IsSelection(S, Need(p))
       /\ chosen' = S
       /\ path' = IF Cardinality(S) = 1 THEN "single" ELSE "batched"
  /\ progress' = 0
  /\ pc' = "send"
  /\ UNCHANGED <<pool, tracker, wallet, paid, batch, cycle>>
  /\ Track

\* Mutant: a payment that cannot be covered is passed over.
InsufficientFundsPassesOver(p) ==
  /\ pc = "next" /\ Current(p)
  /\ IsValid(p)
  /\ ReadsAsUnpaid(p)
  /\ Total(Coin) < Need(p) \/ Total(Spendable) < Need(p)
  /\ NextPayment(p)
  /\ UNCHANGED <<pool, tracker, wallet, paid, cycle>>
  /\ Track

InsufficientFunds(p) ==
  /\ pc = "next" /\ Current(p)
  /\ IsValid(p)
  /\ ReadsAsUnpaid(p)
  /\ Total(Coin) < Need(p) \/ Total(Spendable) < Need(p)
  /\ StopBatch
  /\ UNCHANGED <<pool, tracker, wallet, paid, cycle>>
  /\ Track

\* getbalance or listunspent throws.
WalletUnreachable(p) ==
  /\ pc = "next" /\ Current(p)
  /\ IsValid(p)
  /\ p \notin tracker
  /\ Fault("rpc")
  /\ StopBatch
  /\ UNCHANGED <<pool, tracker, wallet, paid, cycle>>
  /\ Track

-----------------------------------------------------------------------------
(* Sending. *)

\* More is needed, and coin c has something to give once the fee is deducted.
CanSend(p, c) ==
  /\ pc = "send" /\ Current(p) /\ NextCoin(c)
  /\ coin[c] > Fee
  /\ path = "single" \/ Remaining(p) > Dust

\* The coin-by-coin path asks the completion file again before every coin.
NotRecorded(p) == path = "single" \/ p \notin tracker
ReadsAgainAsUnpaid(p) ==
  IF path = "single" THEN UNCHANGED faults ELSE ReadsAsUnpaid(p)

\* Mutant: the whole coin is sent, with no change.
TransferWholeCoin(p, c) == coin[c] - Fee
Transfer(p, c) == AtMost(coin[c] - Fee, Remaining(p))
Change(p, c) == coin[c] - Fee - Transfer(p, c)

\* Mutant: the change is what the whole amount leaves of the coin.
AcceptForWholeAmount(p, c) ==
  /\ paid' = [paid EXCEPT ![p] = @ + Transfer(p, c)]
  /\ coin' = [coin EXCEPT ![c] = @ - Fee - Amount[p]]
  /\ mature' = mature \ {c}
  /\ UNCHANGED minted

\* The daemon accepts the transaction: the coin is gone, the change comes back
\* as a coin that still needs confirmations.
Accept(p, c) ==
  /\ paid' = [paid EXCEPT ![p] = @ + Transfer(p, c)]
  /\ coin' = [coin EXCEPT ![c] = IF Change(p, c) > Dust THEN Change(p, c) ELSE 0]
  /\ mature' = mature \ {c}
  /\ UNCHANGED minted

\* Mutant: the payment is recorded after its first transaction.
BroadcastRecordsAtOnce(p, c) ==
  /\ CanSend(p, c)
  /\ ReadsAgainAsUnpaid(p)
  /\ Accept(p, c)
  /\ progress' = progress + Transfer(p, c)
  /\ chosen' = chosen \ {c}
  /\ pc' = "mark"
  /\ UNCHANGED <<pool, tracker, batch, path, cycle>>
  /\ Track

Broadcast(p, c) ==
  /\ CanSend(p, c)
  /\ ReadsAgainAsUnpaid(p)
  /\ Accept(p, c)
  /\ progress' = progress + Transfer(p, c)
  /\ chosen' = chosen \ {c}
  /\ pc' = IF progress' >= Amount[p] THEN "mark" ELSE "send"
  /\ UNCHANGED <<pool, tracker, batch, path, cycle>>
  /\ Track

\* sendrawtransaction went through, but the caller sees an exception (a timeout,
\* a dropped connection), which CreateAndBroadcastTransactionAsync turns to null.
BroadcastReplyLost(p, c) ==
  /\ CanSend(p, c)
  /\ NotRecorded(p)
  /\ Fault("reply")
  /\ Accept(p, c)
  /\ CoinFailed(c)
  /\ UNCHANGED <<pool, tracker, cycle>>
  /\ Track

\* A call up to sendrawtransaction fails without effect.
BroadcastRefused(p, c) ==
  /\ CanSend(p, c)
  /\ NotRecorded(p)
  /\ Fault("rpc")
  /\ CoinFailed(c)
  /\ UNCHANGED <<pool, tracker, wallet, paid, cycle>>
  /\ Track

\* Coin-by-coin path: the coin does not even cover the fee.
SkipCoin(c) ==
  /\ pc = "send" /\ NextCoin(c)
  /\ coin[c] <= Fee
  /\ chosen' = chosen \ {c}
  /\ UNCHANGED <<pool, tracker, wallet, paid, batch, path, progress, pc, cycle, faults>>
  /\ Track

\* Coin-by-coin path: no coin is left, or nothing is left to pay: what remains is
\* dust, or the file has the payment after all.
OutOfCoins(p) ==
  /\ pc = "send" /\ Current(p)
  /\ path = "batched"
  /\ \/ chosen = {}
     \/ /\ Remaining(p) <= Dust \/ p \in tracker
        /\ \E c \in chosen : NextCoin(c) /\ coin[c] > Fee

\* Mutant: a partial result is reported to the pool like a full one.
GiveUpPartialCompletes(p) ==
  /\ OutOfCoins(p)
  /\ progress > 0
  /\ row' = [row EXCEPT ![p] = "completed"]
  /\ NextPayment(p)
  /\ UNCHANGED <<posted, tracker, wallet, paid, cycle, faults>>
  /\ Track

\* Something was sent: a partial result, and the batch goes on without the rest.
GiveUpPartial(p) ==
  /\ OutOfCoins(p)
  /\ progress > 0
  /\ NextPayment(p)
  /\ UNCHANGED <<pool, tracker, wallet, paid, cycle, faults>>
  /\ Track

\* Nothing was sent: no result at all, which is a failure.
GiveUpUnsent(p) ==
  /\ OutOfCoins(p)
  /\ progress = 0
  /\ StopBatch
  /\ UNCHANGED <<pool, tracker, wallet, paid, cycle, faults>>
  /\ Track

-----------------------------------------------------------------------------
(* Recording the payment in the file and at the pool. *)

\* What a load before the save returns: the file, or nothing when it fails.
LoadTracker(t) ==
  \/ t = tracker /\ UNCHANGED faults
  \/ t = {} /\ tracker # {} /\ Fault("load")

\* Mutant: the file is written with the new record only.
MarkOverwrites(p) ==
  /\ pc = "mark" /\ Current(p)
  /\ tracker' = {p}
  /\ pc' = "notify"
  /\ UNCHANGED <<pool, wallet, paid, work, cycle, faults>>
  /\ Track

Mark(p) ==
  /\ pc = "mark" /\ Current(p)
  /\ \E t \in SUBSET Payment : LoadTracker(t) /\ tracker' = t \cup {p}
  /\ pc' = "notify"
  /\ UNCHANGED <<pool, wallet, paid, work, cycle>>
  /\ Track

\* The write throws; WriteAllText truncates first, so the old records may be gone.
\* The one-transaction path fails the payment; the other one finds at its next
\* coin that nothing remains, and reports its last partial result.
MarkFails(p) ==
  /\ pc = "mark" /\ Current(p)
  /\ Fault("save")
  /\ tracker' \in {tracker, {}}
  /\ IF path = "single"
     THEN StopBatch
     ELSE pc' = "send" /\ UNCHANGED work
  /\ UNCHANGED <<pool, wallet, paid, cycle>>
  /\ Track

\* CompletePaymentAsync updates the row unless it has a confirmation already.
Complete(p) ==
  row' = [row EXCEPT ![p] = IF @ = "pending" THEN "completed" ELSE @]

Notify(p) ==
  /\ pc = "notify" /\ Current(p)
  /\ Complete(p)
  /\ NextPayment(p)
  /\ UNCHANGED <<posted, tracker, wallet, paid, cycle, faults>>
  /\ Track

\* The call fails: a warning is logged and the payment counts as a success.  The
\* request may still be under way.
NotifyFails(p) ==
  /\ pc = "notify" /\ Current(p)
  /\ Fault("notify")
  /\ posted' \in {posted, posted \cup {p}}
  /\ NextPayment(p)
  /\ UNCHANGED <<row, tracker, wallet, paid, cycle>>
  /\ Track

\* A request the payer has given up on reaches the pool after all.
LateNotify(p) ==
  /\ p \in posted
  /\ posted' = posted \ {p}
  /\ Complete(p)
  /\ UNCHANGED <<tracker, wallet, paid, pc, work, cycle, faults>>
  /\ Track

\* The process dies, or is cancelled: all that is not in the file is lost.  Dying
\* inside the file write leaves it whole, truncated, or already written.
Crash ==
  /\ pc # "down"
  /\ Fault("crash")
  /\ tracker' \in IF pc = "mark" THEN {tracker, {}} ELSE {tracker}
  /\ pc' = "down"
  /\ batch' = {} /\ chosen' = {} /\ path' = "single" /\ progress' = 0
  /\ UNCHANGED <<pool, wallet, paid, cycle>>
  /\ Track

-----------------------------------------------------------------------------
(* The environment. *)

\* The pool's payout run inserts the next row (AlphaPayoutHandler.PayoutAsync).
QueuePayment(p) ==
  /\ row[p] = "absent"
  /\ \A q \in Payment : q < p => row[q] # "absent"
  /\ row' = [row EXCEPT ![p] = "pending"]
  /\ UNCHANGED <<posted, tracker, wallet, paid, pc, work, cycle, faults>>
  /\ Track

\* A block: unconfirmed change reaches ConfirmationsRequired for some coins.
NewBlock(M) ==
  /\ mature' = mature \cup {c \in M : coin[c] > 0}
  /\ lag' = AtMost(lag + 1, BlockPeriod)
  /\ fresh' = AtMost(fresh + 1, BlockPeriod)
  /\ UNCHANGED <<pool, tracker, coin, minted, paid, pc, work, faults>>
  /\ Track

\* Block rewards reach the wallet.
Deposit(c, v) ==
  /\ coin[c] = 0
  /\ minted + v <= MaxMinted
  /\ coin' = [coin EXCEPT ![c] = v]
  /\ mature' = mature \cup {c}
  /\ minted' = minted + v
  /\ UNCHANGED <<pool, tracker, paid, pc, work, cycle, faults>>
  /\ Track

-----------------------------------------------------------------------------
Init ==
  /\ row = [p \in Payment |-> "absent"]
  /\ posted = {}
  /\ tracker = {}
  /\ coin = [c \in Coin |-> 0]
  /\ mature = {}
  /\ minted = 0
  /\ paid = [p \in Payment |-> 0]
  /\ pc = "down"
  /\ batch = {} /\ chosen = {} /\ path = "single" /\ progress = 0
  /\ lag = 0 /\ fresh = 0
  /\ misled = {}
  /\ faults = 0

\* Working on payment p, with or without an effect on the outside.
Process(p) ==
  \/ RejectInvalid(p) \/ SkipCompleted(p) \/ SelectCoins(p)
  \/ InsufficientFunds(p) \/ WalletUnreachable(p)
  \/ \E c \in Coin : \/ Broadcast(p, c)
                     \/ BroadcastReplyLost(p, c)
                     \/ BroadcastRefused(p, c)
  \/ GiveUpPartial(p) \/ GiveUpUnsent(p)
  \/ Mark(p) \/ MarkFails(p)
  \/ Notify(p) \/ NotifyFails(p)

\* What the payer does by itself.
Payer ==
  \/ Start \/ StartBatch \/ FetchRefused \/ EndBatch
  \/ \E p \in Payment : Process(p)
  \/ \E c \in Coin : SkipCoin(c)

Environment ==
  \/ Crash
  \/ \E p \in Payment : QueuePayment(p) \/ LateNotify(p)
  \/ \E M \in SUBSET Coin : NewBlock(M)
  \/ \E c \in Coin, v \in CoinValue : Deposit(c, v)

Next ==
  \/ Payer
  \/ Environment

Spec == Init /\ [][Next]_vars

\* The process is kept running and its calls return; blocks keep coming and
\* confirm what is in them; rewards keep reaching the wallet.
Fairness ==
  /\ WF_vars(Payer)
  /\ WF_vars(NewBlock(Coin))
  /\ \A v \in CoinValue : WF_vars(\E c \in Coin : Deposit(c, v))

FairSpec == Spec /\ Fairness

-----------------------------------------------------------------------------
(* Properties. *)

\* Type invariant.  A payment is being worked on exactly when pc says so.
TypeOK ==
  /\ row \in [Payment -> {"absent", "pending", "completed"}]
  /\ posted \subseteq Payment
  /\ tracker \subseteq Payment
  /\ coin \in [Coin -> Nat]
  /\ mature \subseteq Coin
  /\ minted \in Nat
  /\ paid \in [Payment -> Nat]
  /\ pc \in {"down", "idle", "next", "send", "mark", "notify"}
  /\ batch \subseteq Payment
  /\ chosen \subseteq Coin
  /\ path \in {"single", "batched"}
  /\ progress \in Nat
  /\ lag \in 0..BlockPeriod /\ fresh \in 0..BlockPeriod
  /\ misled \subseteq Payment
  /\ faults \in 0..MaxFaults

\* The pool shows a payment as completed, or is about to be told so by a late
\* request, only when the chain has transferred all of it: whatever is lost on
\* the way, no miner loses a payment because the pool believes it was made.
CompletedIsPaid ==
  \A p \in Payment :
    row[p] = "completed" \/ p \in posted => paid[p] >= Amount[p]

\* The completion file names a payment only when the chain has transferred all
\* of it, so skipping a recorded payment never short-changes a miner.
RecordedIsPaid == \A p \in tracker : paid[p] >= Amount[p]

\* A payment is overpaid only if at some moment the file, or the counter of the
\* running attempt, told less than the chain: while the payer's own books about
\* p are right it never sends too much for p.
OverpaidOnlyIfMisled ==
  \A p \in Payment : paid[p] > Amount[p] => p \in misled

\* The books go wrong in no other way than by a fault, or by giving a payment up
\* after a part of it was sent.
MisledOnlyByLoss ==
  [][misled' # misled => \/ faults' > faults
                         \/ \E p \in Payment : GiveUpPartial(p)]_vars

\* Payments are made in the order they were queued: no money leaves for a payment
\* before every older one has been sent at least a part of its amount.
OldestFirst ==
  [][\A p \in Payment : paid'[p] > paid[p] =>
       \A q \in Payment : q < p => paid[q] > 0]_vars

\* What the completion tracker is for: no payment is made twice.
NoDoublePayment == \A p \in Payment : paid[p] <= Amount[p]

\* Every queued payment is eventually transferred in full.
EventuallyPaid ==
  \A p \in Payment : row[p] = "pending" ~> paid[p] >= Amount[p]

\* Every queued payment is eventually shown as completed by the pool.
EventuallyCompleted ==
  \A p \in Payment : row[p] = "pending" ~> row[p] = "completed"
=============================================================================
