------------------------------ MODULE PayoutLedger ------------------------------
(***************************************************************************)
(* How a block found by the pool becomes payments: the payout manager of   *)
(* the pool process with the Alpha payout handler and the PPLNS scheme,    *)
(* over the tables shares, blocks, balances and payments.                  *)
(*                                                                         *)
(* One pass reads the pending blocks, asks the daemon about each, settles  *)
(* them one database transaction per block, and at last moves the balances *)
(* over the minimum to the payments table in one more transaction.  Shares *)
(* and blocks keep being recorded meanwhile, transactions fail, and the    *)
(* process stops or dies between any two steps.                            *)
(*                                                                         *)
(* A share is the time at which it was submitted, and so is the block that *)
(* it found.  Every share has the same score.                              *)
(***************************************************************************)
EXTENDS Integers, FiniteSets

CONSTANTS
  Address,      (* miners and reward recipients                             *)
  PoolAddress,  (* the pool's own address                                   *)
  Cut,          (* what each reward recipient gets of a block               *)
  Window,       (* the PPLNS window, in shares                              *)
  PerShare,     (* what one share of a full window earns                    *)
  PageSize,     (* shares read at a time                                    *)
  Threshold,    (* MinimumPayment, or what the miner has set instead         *)
  MaxTime,      (* bound: shares ever submitted                             *)
  MaxFaults     (* bound: faults that happen                                *)

Time == 1..MaxTime

ASSUME ConstantsAssumption ==
  /\ PoolAddress \in Address
  /\ Cut \in [Address -> Nat]
  /\ Window \in Nat \ {0}
  /\ PerShare \in Nat
  /\ PageSize \in Nat \ {0}
  /\ Threshold \in [Address -> Nat]
  /\ MaxTime \in Nat
  /\ MaxFaults \in Nat

VARIABLES
  now,      (* time of the last share                                       *)
  miner,    (* who submitted the share of each time                         *)
  table,    (* the shares that are in the shares table                      *)
  status,   (* blocks table: "none" where the share found no block          *)
  chain,    (* what the daemon knows of the block: "young", "mature", "lost" *)
  balance,  (* balances table                                               *)
  queued,   (* total amount of each address's rows in the payments table    *)
  pc,       (* the payout manager: "down", "idle", "settle", "payout", "queue" *)
  matured,  (* blocks classified as confirmed in this pass, left to do      *)
  orphans,  (* blocks classified as orphaned in this pass, left to do       *)
  stopping, (* the cancellation token: the process was asked to stop        *)
  due,      (* balances read for the payout, 0 where below threshold        *)
  earned,   (* history: what each address should have got for settled blocks *)
  faults    (* number of faults so far (bound only)                         *)

mining == <<now, miner, table, chain>>
money  == <<balance, queued, earned>>
pass   == <<matured, orphans, due>>
vars   == <<mining, status, money, pc, pass, stopping, faults>>

-----------------------------------------------------------------------------
(* PPLNS: every share among the last Window shares up to the block earns the *)
(* same; the oldest share that counts is the cut-off.                        *)

UpTo(S, b) == {t \in S : t <= b}
Newest(S, b, n) == {t \in UpTo(S, b) : Cardinality({u \in UpTo(S, b) : t < u}) < n}

SharesOf(S, a) == {t \in S : miner[t] = a}
FromCut(a) == IF a = PoolAddress THEN 0 ELSE Cut[a]
Reward(S, a) == FromCut(a) + PerShare * Cardinality(SharesOf(S, a))

\* What block b is worth to an address by the whole history of shares.
FairReward(b, a) == Reward(Newest(1..now, b, Window), a)

\* Mutant: the counted shares are deleted, not the older ones.
DiscardCounted(S) == IF Cardinality(S) = Window THEN S ELSE {}
\* CalculateRewardsAsync filled the window, so older shares are deleted.
Discarded(S) ==
  IF Cardinality(S) = Window THEN {t \in table : \A u \in S : t < u} ELSE {}

Pending == {b \in Time : status[b] = "pending"}

Fault == faults < MaxFaults /\ faults' = faults + 1

\* The pass is over, for good or for bad; a process that is being stopped ends.
EndPass(next) ==
  /\ pc' = next
  /\ stopping' = FALSE
  /\ matured' = {} /\ orphans' = {}
  /\ due' = [a \in Address |-> 0]
Onwards == IF stopping THEN "down" ELSE "idle"

-----------------------------------------------------------------------------
(* The rest of the world. *)

\* ShareRecorder commits a share, and the block it found, if any.
RecordShare(a, found) ==
  /\ now < MaxTime
  /\ now' = now + 1
  /\ miner' = [miner EXCEPT ![now + 1] = a]
  /\ table' = table \cup {now + 1}
  /\ status' = [status EXCEPT ![now + 1] = IF found THEN "pending" ELSE @]
  /\ UNCHANGED <<chain, money, pc, pass, stopping, faults>>

\* The block gets its confirmations, or leaves the chain.
Mature(b) ==
  /\ status[b] # "none" /\ chain[b] = "young"
  /\ chain' = [chain EXCEPT ![b] = "mature"]
  /\ UNCHANGED <<now, miner, table, status, money, pc, pass, stopping, faults>>

Lose(b) ==
  /\ status[b] # "none" /\ chain[b] = "young"
  /\ chain' = [chain EXCEPT ![b] = "lost"]
  /\ UNCHANGED <<now, miner, table, status, money, pc, pass, stopping, faults>>

-----------------------------------------------------------------------------
(* One pass of the payout manager. *)

Start ==
  /\ pc = "down"
  /\ pc' = "idle"
  /\ UNCHANGED <<mining, status, money, pass, stopping, faults>>

\* Mutant: a block counts as confirmed unless it is known to be lost.
ClassifyEarly(missed) ==
  /\ pc = "idle" /\ ~stopping
  /\ missed \subseteq Pending
  /\ IF missed = {} THEN UNCHANGED faults ELSE Fault
  /\ matured' = {b \in Pending \ missed : chain[b] # "lost"}
  /\ orphans' = {b \in Pending \ missed : chain[b] = "lost"}
  /\ pc' = "settle"
  /\ UNCHANGED <<mining, status, money, due, stopping>>

\* ClassifyBlocksAsync over the blocks pending now.  A block whose call fails is
\* left out; when the first call fails, no block changes its status.
Classify(missed) ==
  /\ pc = "idle" /\ ~stopping
  /\ missed \subseteq Pending
  /\ IF missed = {} THEN UNCHANGED faults ELSE Fault
  /\ matured' = {b \in Pending \ missed : chain[b] = "mature"}
  /\ orphans' = {b \in Pending \ missed : chain[b] = "lost"}
  /\ pc' = "settle"
  /\ UNCHANGED <<mining, status, money, due, stopping>>

\* Updated blocks are handled in the order in which they were found.
IsNext(b) == b \in matured \cup orphans /\ \A c \in matured \cup orphans : b <= c

\* Mutant: the block is left as it was.
CreditOnly(b, S) ==
  /\ balance' = [a \in Address |-> balance[a] + Reward(S, a)]
  /\ earned' = [a \in Address |-> earned[a] + FairReward(b, a)]
  /\ table' = table \ Discarded(S)
  /\ UNCHANGED <<now, miner, chain, queued, status>>

\* The transaction of a confirmed block: recipients and shares S are credited, old
\* shares deleted, and the block updated, all or nothing.
Credit(b, S) ==
  /\ balance' = [a \in Address |-> balance[a] + Reward(S, a)]
  /\ earned' = [a \in Address |-> earned[a] + FairReward(b, a)]
  /\ table' = table \ Discarded(S)
  /\ status' = [status EXCEPT ![b] = "confirmed"]
  /\ UNCHANGED <<now, miner, chain, queued>>

SettleConfirmed(b) ==
  /\ pc = "settle" /\ ~stopping
  /\ IsNext(b) /\ b \in matured
  /\ Credit(b, Newest(table, b, Window))
  /\ matured' = matured \ {b}
  /\ UNCHANGED <<orphans, due, pc, stopping, faults>>

\* The token is cancelled while shares are paged in: the loop ends after n full
\* pages as if there were no more, and the transaction is committed.
SettleInterrupted(b, n) ==
  /\ pc = "settle" /\ ~stopping
  /\ IsNext(b) /\ b \in matured
  /\ n * PageSize < Window
  /\ n * PageSize <= Cardinality(UpTo(table, b))
  /\ Fault
  /\ Credit(b, Newest(table, b, n * PageSize))
  /\ matured' = matured \ {b}
  /\ stopping' = TRUE
  /\ UNCHANGED <<orphans, due, pc>>

\* It was cancelled before: no share is read at all, and only the recipients are
\* credited.  The following blocks of the pass are settled this way as well.
SettleUnread(b) ==
  /\ pc = "settle" /\ stopping
  /\ IsNext(b) /\ b \in matured
  /\ Credit(b, {})
  /\ matured' = matured \ {b}
  /\ UNCHANGED <<orphans, due, pc, stopping, faults>>

\* Mutant: the orphaned block is not written back.
ForgetOrphaned(b) ==
  /\ pc = "settle"
  /\ IsNext(b) /\ b \in orphans
  /\ orphans' = orphans \ {b}
  /\ UNCHANGED <<mining, status, money, matured, due, pc, stopping, faults>>

SettleOrphaned(b) ==
  /\ pc = "settle"
  /\ IsNext(b) /\ b \in orphans
  /\ status' = [status EXCEPT ![b] = "orphaned"]
  /\ orphans' = orphans \ {b}
  /\ UNCHANGED <<mining, money, matured, due, pc, stopping, faults>>

\* A transaction is rolled back, be it the one that only writes the progress of a
\* block that is still young: the exception ends the pass, payouts included.
\* Computing the effort of a block for the first time observes the token.
SettleFails ==
  /\ pc = "settle"
  /\ Pending # {}
  /\ Fault \/ (stopping /\ UNCHANGED faults)
  /\ EndPass(Onwards)
  /\ UNCHANGED <<mining, status, money>>

AllSettled ==
  /\ pc = "settle"
  /\ matured \cup orphans = {}
  /\ pc' = "payout"
  /\ UNCHANGED <<mining, status, money, pass, stopping, faults>>

\* Mutant: the balance has to exceed the threshold.
ReadBalancesOver ==
  /\ pc = "payout"
  /\ due' = [a \in Address |-> IF balance[a] > Threshold[a] THEN balance[a] ELSE 0]
  /\ pc' = "queue"
  /\ UNCHANGED <<mining, status, money, matured, orphans, stopping, faults>>

\* The balances are read outside of the transaction that will move them.
ReadBalances ==
  /\ pc = "payout"
  /\ due' = [a \in Address |-> IF balance[a] >= Threshold[a] THEN balance[a] ELSE 0]
  /\ pc' = "queue"
  /\ UNCHANGED <<mining, status, money, matured, orphans, stopping, faults>>

\* Mutant: the threshold is deducted from every balance, not what was read.
QueueDeductsThreshold ==
  /\ pc = "queue"
  /\ queued' = [a \in Address |-> queued[a] + due[a]]
  /\ balance' = [a \in Address |-> balance[a] - Threshold[a]]
  /\ EndPass(Onwards)
  /\ UNCHANGED <<mining, status, earned, faults>>

\* AlphaPayoutHandler.PayoutAsync: insert the payments, deduct what was read.
QueuePayments ==
  /\ pc = "queue"
  /\ queued' = [a \in Address |-> queued[a] + due[a]]
  /\ balance' = [a \in Address |-> balance[a] - due[a]]
  /\ EndPass(Onwards)
  /\ UNCHANGED <<mining, status, earned, faults>>

\* Mutant: the payments that were inserted stay.
QueueFailsHalfway ==
  /\ pc = "queue"
  /\ Fault
  /\ queued' = [a \in Address |-> queued[a] + due[a]]
  /\ EndPass(Onwards)
  /\ UNCHANGED <<mining, status, balance, earned>>

\* It is rolled back; the handler reports the failure and swallows it.
QueueFails ==
  /\ pc = "queue"
  /\ Fault
  /\ EndPass(Onwards)
  /\ UNCHANGED <<mining, status, money>>

\* Host shutdown: the token is cancelled, and the pass runs on to where it looks.
RequestStop ==
  /\ pc \notin {"down", "idle"} /\ ~stopping
  /\ Fault
  /\ stopping' = TRUE
  /\ UNCHANGED <<mining, status, money, pc, pass>>

Crash ==
  /\ pc # "down"
  /\ Fault
  /\ EndPass("down")
  /\ UNCHANGED <<mining, status, money>>

-----------------------------------------------------------------------------
Init ==
  /\ now = 0
  /\ miner = [t \in Time |-> PoolAddress]
  /\ table = {}
  /\ status = [b \in Time |-> "none"]
  /\ chain = [b \in Time |-> "young"]
  /\ balance = [a \in Address |-> 0]
  /\ queued = [a \in Address |-> 0]
  /\ earned = [a \in Address |-> 0]
  /\ pc = "down"
  /\ matured = {} /\ orphans = {} /\ stopping = FALSE
  /\ due = [a \in Address |-> 0]
  /\ faults = 0

Manager ==
  \/ Start
  \/ \E missed \in SUBSET Pending : Classify(missed)
  \/ \E b \in Time : \/ SettleConfirmed(b)
                   \/ SettleUnread(b)
                   \/ SettleOrphaned(b)
  \/ \E b, n \in Time : SettleInterrupted(b, n)
  \/ SettleFails
  \/ AllSettled
  \/ ReadBalances
  \/ QueuePayments
  \/ QueueFails

World ==
  \/ \E a \in Address, found \in BOOLEAN : RecordShare(a, found)
  \/ \E b \in Time : Mature(b) \/ Lose(b)
  \/ RequestStop
  \/ Crash

Next ==
  \/ Manager
  \/ World

Spec == Init /\ [][Next]_vars

\* The manager's timer keeps firing, and the process is restarted; a block's fate
\* is decided in the end.
Fairness ==
  /\ WF_vars(Manager)
  /\ \A b \in Time : WF_vars(Mature(b) \/ Lose(b))

FairSpec == Spec /\ Fairness

-----------------------------------------------------------------------------
(* Properties. *)

\* Type invariant.  Balances are never negative.
TypeOK ==
  /\ now \in 0..MaxTime
  /\ miner \in [Time -> Address]
  /\ table \subseteq 1..now
  /\ status \in [Time -> {"none", "pending", "confirmed", "orphaned"}]
  /\ chain \in [Time -> {"young", "mature", "lost"}]
  /\ balance \in [Address -> Nat]
  /\ queued \in [Address -> Nat]
  /\ earned \in [Address -> Nat]
  /\ pc \in {"down", "idle", "settle", "payout", "queue"}
  /\ matured \subseteq Time
  /\ orphans \subseteq Time
  /\ stopping \in BOOLEAN
  /\ due \in [Address -> Nat]
  /\ faults \in 0..MaxFaults

Total(a) == balance[a] + queued[a]

\* Nobody is ever credited more than the shares of the whole history are worth for
\* the settled blocks, whatever fails, is retried, or is deleted in between.
NeverOverpaid == \A a \in Address : Total(a) <= earned[a]

\* The shares kept are the most recent ones without a gap: deleting for one block
\* never makes the window of another one reach further back than it should.
NoGaps == \A t \in table : t..now \subseteq table

\* Exactly the confirmed blocks were mature, and exactly the orphaned ones lost.
VerdictsHold ==
  \A b \in Time : /\ status[b] = "confirmed" => chain[b] = "mature"
                  /\ status[b] = "orphaned" => chain[b] = "lost"

\* A block is settled once, and money appears only when a block is: no retry, crash
\* or payout creates or destroys any.
MoneyOnlyBySettling ==
  [][\/ \A a \in Address : Total(a)' = Total(a)
     \/ \E b \in Time : status[b] = "pending" /\ status'[b] = "confirmed"]_vars

\* A block pays everybody all they earned, unless a newer block was settled before
\* it (and took the shares along), or the process was being stopped.
PaidInFull ==
  [][\A b \in Time :
       status[b] = "pending" /\ status'[b] = "confirmed" =>
         \/ \A a \in Address : Total(a)' = Total(a) + FairReward(b, a)
         \/ \E c \in Time : c > b /\ status[c] = "confirmed"
         \/ stopping']_vars

\* Every block found is eventually settled one way or the other.
EventuallySettled ==
  \A b \in Time : status[b] = "pending" ~> status[b] # "pending"

\* Every balance over its threshold is eventually queued for payment.
EventuallyQueued ==
  \A a \in Address : balance[a] > 0 /\ balance[a] >= Threshold[a] ~> balance[a] = 0
=============================================================================
