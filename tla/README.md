# Verification project for the Unicity mining core

TLA+ models, TLC runs and TLAPS proofs about the Alpha mining pool in this
repository: the pool server `src/src/Miningcore` (a C# fork of Miningcore) and
the external payer `src/src/PaymentProcessor`. Paths below are relative to the
repository. Run everything in this directory: `tlc -config X.cfg M` for a run of
`PROJECT.json`, `tlapm M_proofs.tla` for the proofs.

## 1. The system

A miner speaks Stratum with the **pool server**. The server hands out jobs made
from the daemon's block templates, hashes the shares that come back with
RandomX, records valid ones in PostgreSQL, submits blocks, waits for them to
mature, splits each reward among the shares of the PPLNS window, and moves
balances over a threshold to the `payments` table. The pool server never signs
anything: the **payer**, a console program next to the wallet, fetches pending
payments over the admin API, pays them through its own daemon, notes what it
paid in a local file, and reports it back.

    miner --stratum--> PoolBase/BitcoinPool/AlphaPool --> job manager --> daemon
                             |  CalculateHash                 |
                             |        `--> RandomX machines <-'  CreateSeed
                             v
                     message bus --> ShareRecorder --> shares, blocks
                                                           |
         daemon <-- AlphaPayoutHandler <-- PayoutManager <-'
                                                | balances, payments
                            admin API <---------'
                                ^  pending / complete
                                |
                             payer --> completed_payments.json
                                `----> daemon (wallet)

### Inventory

| Component | State | Operations | Hard behaviour | What makes it correct |
|---|---|---|---|---|
| Payer (`PaymentProcessor/Services`) | completion file; last processed height; the batch, coins and progress of the running attempt | start-up check, poll, batch, validate, select coins, one transaction or one per coin, record, notify | three places (chain, file, pool) record one fact; any call can fail, or succeed with its reply lost; restarts | pool and file never ahead of the chain; overpayment only with lost books; every payment made |
| Admin API, `payments` table | payment rows | pending list, complete | late or repeated requests | a row is completed once, and only when paid |
| Payout manager, Alpha handler, PPLNS | `blocks`, `balances`, `payments`, old `shares`; the pass under way | classify, settle (confirmed, orphaned, young), delete old shares, queue payments | one transaction per block, reads outside of them, failures and shutdown in between, shares arriving meanwhile | conservation of money; nobody overpaid; right shares kept; every block settled |
| RandomX machine pool (`Native/RandomX.cs`) | realms, seeds, collections of machines; one lock | create, rotate, find, lease, hash, return | blocking collections under and outside of a lock; threads overtaken by rotations | exclusive leases, no use after disposal, own seed, lock released, memory bounded |
| Share recorder (`Mining/ShareRecorder.cs`) | buffer, queue of batches, circuit breaker, recovery file | batch, insert, retry, fall back to file, import the file | ambiguous commits, outages, crash with shares in memory | no share lost or counted twice |
| Ethash DAG cache and files (`Crypto/Hashing/Ethash`, `Native/libethhash`) | cache of Dags with their last use, the Dag made in advance, one semaphore, a handle per Dag, one file per epoch | find or make, generate or map, hash, evict, dispose | eviction without counting users; three kinds of callers generate one DAG; failure or death while a file is written | no hashing on a disposed or incomplete DAG, no handle lost, every share answered |
| Connection difficulty, VarDiff (`Mining/WorkerContextBase.cs`, `PoolBase.cs`, `VarDiff`) | current, previous, pending difficulty; VarDiff window | suggest, retarget, idle sweep, apply with a job, judge a share | three threads per connection; shares in flight at an old difficulty; announcements on their way | honest shares are accepted, and credited at what they met; pool and miner agree in the end |
| Job management (`AlphaJobManager`, `BitcoinJobManager*`) | current job, list of valid jobs, submissions per job, extra nonces | update from template, hand out, submit, submit block | template updates race submissions; duplicate shares | stale and duplicate shares rejected, a block candidate always submitted |
| Stratum transport (`Stratum`) | connections, send queues | accept, receive, send, disconnect, broadcast | full queues, disconnects and registrations during a broadcast | order per connection; one bad connection does not affect others |
| Statistics, message bus, notifications, banning, web API, relay | caches, derived tables | - | - | no duty on the money path |
| Other coin families and payout handlers | as upstream | - | - | not used by the Alpha pool (but for what `RandomXPool` and `EthashDag` take from them) |
| Native hash libraries (`Native/`) | none, but the DAG files above | one function per algorithm | - | vendored byte-level code |
| Start-up, configuration, RPC client | - | - | - | I/O |

`PROJECT.json` lists them with their files under "components", and under
"hazards" what is hard to test in each, at the line where it bites.

## 2. Modules

| Module | Contents |
|---|---|
| `PaymentProcessor` | payer, admin API and wallet in one state machine |
| `MCPaymentProcessor`, `PaymentProcessor*.cfg` | its instances |
| `PaymentProcessor_proofs` | its theorems |
| `RandomXPool`, `MCRandomXPool`, `RandomXPool*.cfg`, `RandomXPool_proofs` | the machine pool, likewise |
| `PayoutLedger`, `MCPayoutLedger`, `PayoutLedger.cfg`, `PayoutLedger_proofs` | blocks to payments, likewise |
| `ShareRecorder`, `MCShareRecorder`, `ShareRecorder*.cfg`, `ShareRecorder_proofs` | shares to the table, likewise |
| `ShareRecorderOrder_proofs` | more of its theorems: the order of shares, and how often they count |
| `DagStore` | abstract: what a hashing thread is promised of the DAGs |
| `EthashDag`, `MCEthashDag`, `EthashDag*.cfg`, `EthashDag_proofs` | the DAG cache and its files, which implement `DagStore` |
| `StratumDifficulty`, `MCStratumDifficulty`, `StratumDifficulty.cfg`, `StratumDifficulty_proofs` | the difficulty of one connection |

Each component module holds its constants and their assumptions, the state,
one action per step of the code that another actor could see separated from the
next, the specification and the properties. Operators headed `Mutant:` are
plausible faults, each the other form of the operator below it; nothing uses
them but the mutation runs of `PROJECT.json`.

### PaymentProcessor

`row` is the payments table, `tracker` the completion file, `coin`/`mature`/`paid`
the wallet and the chain, `pc`, `batch`, `chosen`, `path`, `progress` the local
variables of the running attempt, `lag` and `fresh` the block heights the loop
compares, capped at `BlockPeriod`. `StartBatch` is status, `ShouldProcessPayments`
and fetch; then for each payment, oldest first, `RejectInvalid`, `SkipCompleted`,
`InsufficientFunds`, `WalletUnreachable` or `SelectCoins`; then
`Broadcast`/`BroadcastReplyLost`/`BroadcastRefused` once or per coin,
`GiveUpPartial`/`GiveUpUnsent` when the coins do not suffice, `Mark`/`MarkFails`,
`Notify`/`NotifyFails`. `StopBatch` is the exception `PaymentProcessor.cs` throws
for a failed payment: the height is not advanced and the loop tries again.
`misled` is a history variable: the payments about which the payer's books ever
said something else than the chain.

Abstractions: amounts are small naturals and the fee of a one-payment
transaction is constant, as the code computes it from the number of addresses;
validation and coin selection read the daemon in one step, since only the payer
spends the wallet; one kind of fault per step.

### RandomXPool

A collection is an identity; `listed` is the dictionary, `free` the blocking
collections, `gone` what was disposed of, `lock` the job manager that holds the
global lock across the steps of a rotation (shorter critical sections are one
step each, guarded by `lock = {}`). `RealmOf` gives each manager its realm, which
Cryptonote pools may be configured to share (`CryptonoteJobManager.cs:282`), while
`current` is each manager's own. `BeginRotation`, `Dispose`, `FinishRotation` and
`CreateFails` are `UpdateHashParams` of a Cryptonote job manager, `NewJob` a
template with the same seed, `NewEpoch` an Alpha job of a new epoch; `CreateSeed`
does nothing when the realm has the seed. `GetSeed`, `Take`, `Return` are a share
thread in `CalculateHash`, whether the hash succeeds or throws.

Sharing a realm has a consequence that `UnreadyOnlyByFailure` names: when two pools
are at the same seed, the first one to see the next seed disposes of the machines of
the other, whose shares are lost (`SeedMissing`) until it sees the next seed as well
or some pool of the realm comes to that seed again. `OneGeneration` counts one
collection for each pool of a realm.

Abstractions: a Cryptonote pool does not use Alpha's realm (`alpha`, fixed in
`AlphaJob.cs:30`), which is an assumption on the configuration; the pools of a realm
ask for the same number of machines; an Alpha realm never returns to a seed it left
(epochs grow), but the model lets it; the creation of an Alpha collection that fails
leaves nothing behind and is no step. `Names` is a bound: which identities the
collections of a realm may have.

### PayoutLedger

A share is its time; a block is the time of the share that found it. `Classify`
reads the daemon, `SettleConfirmed`/`SettleOrphaned` are one transaction each in
block order, `SettleInterrupted` and `SettleUnread` the same transaction when the
cancellation token ends the paging loop of `CalculateRewardsAsync` early,
`SettleFails` a rollback, which ends the pass. `ReadBalances` and `QueuePayments`
are the payout, with the balances read before the transaction. `earned` is a
history variable: what the whole history of shares says each address should get
for the settled blocks.

Abstractions: one pool, one score for all shares, distinct share times, and
shares that reach the table in their order of time (the share recorder and its
recovery file break this order; see the plan), and one row per block, which the
share recorder does not guarantee (`recorder_blocks`). A commit whose reply is lost is
the committed step followed by the end of the pass, which `Crash` provides.

### ShareRecorder

A share is its place in the order of publication, a window a sequence of shares.
`Publish` and `WindowCloses` are Rx's `Buffer(5 s, 250)`, `Take` its `Concat`: the
next window only when the one before is done. `Commit`, `CannotCommit`,
`CommitReplyLost` and `UnexpectedError` are one try of the transaction under the
policies of `BuildFaultHandlingPolicy`. The wrapping order matters: the retries are
inside of the breaker, so a window that failed four times is one failure, and two
in a row open it; while it is open windows go straight to the file, and after a
minute one is a trial. `failures` and `rested` are that breaker. `WriteFile` and
`WriteFails` are the fallback, `ReadLine` to `FinishImport` the run with `-rs`.
`doubtful` is a history variable: shares whose commit was not acknowledged.

`Conflict` is the unique constraint of the blocks table. No share gets a
`BlockType` in this code base, so it never fires; with one the constraint
would do: `BlockRowsUnique` then holds on the `recorder` instance with 3 shares.

Abstractions: an outage is a state of the database and any try during it fails;
blocks travel with their shares, as both are rows of one transaction; the header
of the file is no line; the import's errors of any kind are `ImportFails`. The
operator imports only while the pool is stopped, as the header of the file says,
and removes the file exactly when an import reports no failure.

### EthashDag and DagStore

`DagStore` says what the threads that validate Ethash shares may rely on: they
compute only with a complete DAG, and a complete DAG stays complete, whatever
happens to the process. `EthashDag` is how the code gets there. A `Dag` object is
its epoch and a number, which is reused once nothing refers to the object;
`cached` is the dictionary, `older` the order of `LastUsed` (the clock is taken not
to go back or to repeat itself), `future` the Dag made in advance, `sem` the static
semaphore, `open` the handles that are not zero. `GetDag` is `GetDagAsync` inside
of the cache lock, as four actions (a hit, a hit that starts to generate the next
epoch, a miss that takes the future, a miss that makes a Dag); the first look at
the handle, outside of the lock, is merged into it (`First`). `Acquire` to `Release`
are `GenerateAsync` with what `ethash_full_new` does to the epoch's file on its way:
`OpenExisting`, or `Create`, `Extend`, `Fill` and `WriteMagic`. They are run by
share threads, by the loader that starts the pool, and by one background task per
future; a background task is named by its Dag. `Fail` is a NULL from the library,
`Crash` a death of the process, after which the files are what they were; with
`PowerLoss` the machine dies, and a file keeps any mixture of what was written to it
(`Remains`): nothing in the code says when the kernel writes its pages back.

`fulls` and `dropped` are history variables: how many native objects were made for
a Dag and not deleted, and the Dags that were given up with their handle open or
about to be. There are two ways: a future replaced by a newer one
(`EthashFull.cs:75`) and a Dag evicted while it is being generated
(`Dag.cs:128` finds a zero handle). Both leak one mapping, once per epoch at most.

Bounds and abstractions: a request outlives at most `Lag` new epochs (an epoch
takes days; the cache keeps three Dags, `EthereumJobManager.cs:357`); an epoch's
light cache, which generation makes and deletes by itself, has no state; several
processes that share a directory are left out, and so is that
`ethash_full_delete` unmaps an address 8 bytes off, which fails and leaks.

### StratumDifficulty

`difficulty`, `previous`, `pending` and `vardiff` are the fields of the worker
context; `pc` and `val` say where each of three threads is and which number it
holds: the handler of the connection's requests (called `suggest` while it sets a
suggested difficulty, where exceptions are caught), the sweep over idle connections,
and the job broadcast. All three may run `ApplyPendingDifficulty`, split where
another thread can come between: `HasPending`, `TakeValue`, `Remember`, `Assign`,
`Clear`. Then the difficulty is read (`Announce`), the length of the send queue is
looked at (`Notify`), and the message is queued (`Send`): `StratumConnection.cs:221`
and `:224` are two steps, without a lock. `Post` starts the same for anything that is
no announcement, which takes room in the queue, too. `TakeOther`, `Transmit` and
`Learn` are the loop that empties the queue, and ends the connection when it finds
it full. A full queue also throws in `Notify`: this ends the connection, or, where
the exception is caught and logged (`PoolBase.cs:176`, `BitcoinPool.cs:245`), just
drops the announcement. After the end of a connection the miner opens another
(`Disconnect`). `TakeValue` covers what a `Nullable<double>` gives when another thread
resets it in between: an exception, or zero. A share has exactly the difficulty the
miner works at, which is the worst case for a judge.

`ripe` says that the retarget time has passed: VarDiff waits 90 s and more
between two changes, which is long against threads and messages, so it becomes
true only when all that the last change set in motion is over (`Settle`). Three
history variables are the exceptions in the properties. `apart`: the miner has set a
difficulty itself, or an announcement was dropped, and the two have not agreed
since. `applied`: how many threads applied the last retarget. `crossed`: a difficulty
was set while another thread was about to queue the announcement of an older one, or
one was dropped, and no announcement was begun since. All are real: a
`mining.suggest_difficulty` overwrites `previous` without VarDiff's grace for shares
in flight; two threads that apply one retarget make `previous` equal to the
new difficulty, so that an honest share in flight is refused, or, read twice
(`AlphaJob.cs:403` and `:405`), credited at more than it met; and an announcement
that is overtaken leaves the miner at an old difficulty until the next one.

Abstractions: a miner that changes over with its next job only is a slow
announcement; the order of announcements and other messages in the queue is left
open; block candidates, the tolerance of one percent, and
the decision of VarDiff (any other difficulty may be its result) are left out. The
check of a share's age (`BitcoinPool.OnSubmitAsync`) never fires, as the time it
compares with is taken when the request is dispatched (`StratumServer.cs:198`).
Bounds: the miner asks for another difficulty only once it agrees with the pool
again; `MaxRequests` requests are on their way or handled; `Posting` says which
threads send something else than announcements; if `Orderly`, the miner authorises
only after it subscribed, as miners do, though the code takes either order.

## 3. Runs

| Run | Instance | Shows |
|---|---|---|
| `payer_faults` | 3 payments (one to an invalid address), 2 coins worth 2 or 4, batches of 2, any 2 faults of 7 kinds | the file and the pool are never ahead of the chain; overpayment needs lost books; books are lost only by a fault or a partial payment; oldest first |
| `payer_paid` | 2 payable payments, 3 coins large enough for either, one fault of any kind | every queued payment is eventually made in full |
| `payer_partial` | 2 payments, 3 coins of 2, no fault | violated: a payment of 3 from coins of 2 at a fee of 1 is sent in part and then again |
| `payer_unacknowledged` | one failed notification | violated: a paid payment stays pending for ever |
| `randomx` | 2 threads, 2 Cryptonote pools with one realm and Alpha's, 2 machines per collection, 2 seeds, one failed creation, failing hashes without bound | exclusive leases, no use after disposal, own seed, waiting in vain only after a rotation, one generation per Cryptonote pool, old Alpha jobs hashable, machines lost only by a failure or to the other pool; the lock is released and old machines go |
| `randomx_cleanup` | 1 thread, 1 Alpha realm | violated: machines of a past epoch are never released |
| `ledger` | 2 addresses (one the pool's own), window 2, pages of 1, threshold 2, 3 shares each of which may find a block, one fault | all properties of the ledger |
| `recorder` | 4 shares, windows of 2, 1 retry, breaker after 2, chunks of 2, 2 faults, 2 imports, outages and restarts without bound | counted once but for doubtful commits and repeated imports; order; complete imports; losses named and local; the memory drains without a database |
| `recorder_blocks` | 2 shares, one lost commit reply | violated: the retry inserts a block's row twice |
| `ethash_dag` | 2 share threads, the loader and background tasks, 4 epochs (one of them only ever made in advance), a cache of 2, one failure or death | no hashing on a disposed Dag, no handle lost, no mapped file truncated, shares answered; `DagStore` is implemented |
| `ethash_power_loss` | 1 share thread, 1 power failure | violated: the magic number reached the disk before the data, and the file is served as complete |
| `stratum_difficulty` | 2 difficulties, 1 request, a send queue of 2 with announcements and jobs | honest shares judged fairly, the queue exceeded by two at most, miner and pool agree at rest, but for the exceptions |

The five runs that end in a violation show disagreements between the code and what
the repository says of it; "findings" in `PROJECT.json` quotes the lines.

Why the bounds suffice. *Payer*: two faults allow each of the dangerous pairs
(lost reply then crash; failed save then failed load; ...); two coins make both
paths possible and three payments with batches of two leave one behind the
batch; the fee equals the smallest amount so that fees eat coins up.
*RandomX*: two threads and two machines make a thread wait or be stranded while the
other one hashes and a rotation disposes of the other machine; two
seeds suffice as only equality with the current one is looked at, and two pools of a
realm are at the same seed, at two, or one of them rotates to or from the other's;
identities are reused, so the state space covers any number of rotations. *Ledger*: with a
window of two and three shares, windows overlap, a share falls out of the
window, and a block can be settled before an older one; a page of one share
makes a window span pages. *Recorder*: four shares make up to four windows, two
to open the breaker, one for the file and one for the trial; chunks of two make an
import with a full chunk and a rest, so that a failed chunk is carried to the end;
two faults allow a torn line and a doubtful commit in one behaviour. *DAG*: three
epochs of templates make the cache of two evict twice, and two threads with the
background task are three generators of one DAG; a request is one epoch old at
most. A larger instance (a cache of 3, four epochs, `Lag` 1, one fault) was explored
by hand, 3.05 million states without an error; it takes more than five minutes.
*Difficulty*: with two values a share is either judged at its own or at the other
one; a queue of two takes two different announcements at once, with a third one in
transmission, all without a change that crosses one of them (a probe of the run
shows such a state), and a job can take the room of an announcement; all three
threads can see the last place free at the same time, so that the queue is exceeded
by two. The run has 1.9 million states, as its miner is `Orderly`; without that the
same instance was explored by hand, 4.7 million states without an error. Deadlock is
checked for all components but the payer, whose cfgs turn
it off, since its wallet, faults and payments are bounded and it may really have
nothing left to do.

Fairness. *Payer*: weak fairness of what the payer does by itself (the loop runs
until it is cancelled, calls time out, the process is restarted), of new blocks,
and of deposits. *RandomX*: a rotation step goes on when it can (it runs on a
thread of its own) and a hash ends; a waiting thread that can take a machine
does, or another thread takes it: nothing says which. *Ledger*: the
periodic timer repeats the pass; the daemon decides each block's fate. *Recorder*: the timer
fires and the pipeline goes on, each a thread of the pool's own; the database
owes nothing. *DAG*: a share thread that can go on does, and
some background task does when one can; the semaphore owes nobody a turn, but each
DAG is made once, unless that fails. *Difficulty* has no liveness property and
assumes no fairness. Bounded faults mean "after finitely many faults".

## 4. Proofs

TLAPS proves for every value of the constants what TLC checks on the instances:
every type invariant, safety invariant and action property of the passing runs, and
the refinement. The assumptions are the `ConstantsAssumption` of each module
(natural amounts, non-empty machine sets, ...) and, where it is said below, one more
condition that the theorem states as its hypothesis.

`PaymentProcessor_proofs`: `TypeOK`, `CompletedIsPaid`, `RecordedIsPaid`,
`OverpaidOnlyIfMisled`, `MisledOnlyByLoss`. The inductive invariant `IInv` adds
what the counter of the running attempt says (`WorkOK`: `progress` never exceeds
the amount nor what the chain transferred, at `mark` it is the amount, at
`notify` the chain has it all), since a record is written from the counter and
not from the chain; and it relates the payer's belief to the chain for payments
that were never misled, from which overpayment is excluded: a true belief sends
at most the remainder. `MisledOnlyByLoss` is proved per action: each one that has
no fault and is no `GiveUpPartial` leaves true books true. `OldestFirst` needs
`OrderOK`: rows are queued in the order of their ids (`QueueOrder`), so the oldest
pending ones miss an older row only if it is completed; for what is completed, on
its way to be, or recorded, money has left (`SentOK`, for which a payment in work has
a positive amount); and an older payment than one of the batch is in the batch or
had money sent (`BatchOrder`), since a payment leaves a batch that goes on only if it
was recorded, sent in part or sent in full. Money leaves only for the first of the
batch (`PaidIsCurrent`). `TwiceOnlyAfterPartial` puts two of these together: without
faults and without `GiveUpPartial` nobody is ever misled, and `NoDoublePayment` holds;
the run `payer_partial` shows that the second condition is needed.

`RandomXPool_proofs`: types, `ExclusiveLease`, `NoUseAfterDispose`,
`HashesOwnSeed`, `StrandedOnlyByRotation`, `OneGeneration`,
`OldJobsStayHashable`. The invariant says that every machine of a collection is
free, leased or gone (`VmOK`), which collections are listed, doomed or gone
(`ListOK`, `GenerationOK`), and that a thread's collection is of its seed
(`HasherOK`): identities are reused, so this last one needs that a collection
somebody holds is never spare. For a realm with several managers `GenerationOK` says
that each listed collection is of the current seed of one that is not rotating
(`Owns`): whoever leaves a seed unlists it. `OneGeneration` follows by an injection:
a collection in use is held for a manager that owns it, or for the one that disposes
of it (`HeldFor`), and no two are held for the same one. `UnreadyOnlyByFailure`
follows step by step: a manager that keeps its seed, its collections and the lock
stays ready (`StaysReady`), and the steps that change one of them list a collection
of the new seed, take the lock, are `CreateFails`, or are the rotation of a manager
with the same realm and seed. `RotationIsNeverStuck` is what of `LockReleased` is
safety: as long as machines are left to dispose of, one is free, or leased by a
thread, and that thread waits for nothing.

`PayoutLedger_proofs`: `TypeOK`, `NeverOverpaid`, `MoneyOnlyBySettling`,
`NoGaps`, `VerdictsHold`, `PaidInFull`. The argument for `NeverOverpaid`: the table is a gapless
suffix of the history, so the newest n shares of the table up to a block are
among the newest n of the history (`WindowOfTable`), and a reward grows with the
shares counted (`RewardMonotone`, by cardinality of finite sets); the queueing
transaction deducts what it inserts, and `due` never exceeds the balances since
nothing else lowers a balance between read and transaction. `PaidInFull` needs the
other inclusion, and so one more invariant: `WindowKept`, all shares that count for a
block are still in the table unless a newer block is confirmed. Deleting keeps it,
for a share goes only when a whole window up to an older block is newer
(`DiscardedIsOld`), and recording does, for a new share only pushes others out of
the window (`WindowGrows`); both compare cardinalities. `BlocksPayOnce` sharpens
`MoneyOnlyBySettling`: a verdict is final, so a block is confirmed once, and that step
gives no address more than the block is worth to it.

`ShareRecorder_proofs`: `TypeOK`, `ImportSkipsNothing`, `LossesAreLocal`. The
invariant adds that unreadable lines are counted (`ProgressOK`), without which a
reported success would say nothing, and that no window is under way when the
next is taken. `LossesAreLocal` is an action property: `StepKeeps` goes through
the actions, on lemmas about the range of appended, taken and written sequences
(`AppendRange`, `HeadTailRange`, `WrittenKeeps`); the removal of the file relies on
`ImportSkipsNothing`.

`ShareRecorderOrder_proofs`, on top of it: `InOrder` and `CountedOnce`. `InOrder` is
inductive together with what `OrderOK` says of the windows: those in the queue are in
the order of publication, each before the one that is filled, nothing kept is younger
than the last published share, and what the import holds is persisted. For
`CountedOnce` the shares of a window are in increasing order (`WindowsOK`), so that a
commit inserts each of them once; and by `LinesOK` no share that is not doubtful has
two lines in the file, the import holds only shares of lines it has passed, and a
share that it holds or has yet to read has fewer rows than there were imports. A
window is committed or written only while none of its shares is persisted but
doubtful ones, which is `InOrder` again.

`EthashDag_proofs`, for a machine that loses no written page (`PowerLoss = FALSE`):
`TypeOK`, `ServedIsComplete`, `NoHandleLost`, `NoTruncateWhileMapped` and the
refinement `StoreSpec`; and `ComputesOnOpenDag`, if also a request outlives at most
`NumCaches - 2` new epochs. The invariant `DagInv` says that only the holder of the
semaphore generates (`Held`), in which of five states the file is at each stage of
its work (`Staged`), that it works on a Dag without a handle (`Unopened`), that what
is open is complete, and that what is open or about to be is known to someone or
was dropped (`Reached`). The last theorem needs `CacheInv` and is a counting
argument (`EvictionSparesUsed`): a Dag is evicted only if all others were used after
it, and what is used after a request asked belongs to `Lag + 2` epochs at most, of
which the cache holds one Dag each. The refinement maps a hit on an open Dag and
the end of a generation to the beginning of a computation, the last write of a
file to the completion of a DAG, and a crash to a restart; all else stutters.

`StratumDifficulty_proofs`: `TypeOK`, with the bound of the send queue that the code
really keeps. The invariant adds that each thread holds a difficulty where it is about
to set one (`ThreadsOK`), and `RoomOK`: the messages in the queue and the threads that
have seen room for one more (`Senders`) are never more than `QueueCapacity + 2`, since
the last of at most three threads to look saw a queue that was not full.
`FairlyJudged` takes three more conjuncts. `RequestsOK`: a share is handled after the
subscription, and no configuration is left by then. `RoundOK`: only one thread can
take a pending difficulty before it is cleared, at most two apply one retarget, and
the second is counted in `applied`. `FairOK`: while a subscribed miner has changed
nothing itself and no announcement was dropped (`Undisturbed`), whatever is on its way
to the miner or back (`MinerHas`) meets the present difficulty (`Level`) or, once a
thread has assigned the new one, the previous one (`Changing`); `ChangeOK` says what
the threads hold meanwhile, and that somebody is about to tell the miner until it has
been told (`Told`). The exceptions of `FairlyJudged`, `apart` and `applied > 1`, are
where `FairOK` ends. `Agreed` follows from `AgreeOK`: unless something crossed an
announcement, every thread that carries one carries the present difficulty
(`CarryOK`), and either some thread is about to announce, or what the miner learns
last is the present difficulty (`WillAgree`). At rest only the latter is left.

Only model-checked: the liveness properties (`EventuallyPaid`, `LockReleased`,
`RotatedVmsReleased`, `EventuallySettled`, `EventuallyQueued`, `LeavesMemory`, `SharesAnswered`),
which need fairness and ENABLED, out of the prover's reach. Of the five properties
that a run refutes, three have a theorem that says when they do hold:
`TwiceOnlyAfterPartial` for `NoDoublePayment`, `HashedIsComplete` for
`ServedIsComplete`, and `SharesAreCountedOnce` for `BlockRowsUnique` (a block that is
not doubtful has one row, with one import at most). The other two are liveness
properties.

## 5. Not modelled, and plan

Order of the plan: money first (payer, ledger), then what can halt the pool
(RandomX), what can lose a share (recorder), what can misjudge one (difficulty), and
the native code with state of its own (DAG), all of which is done. What is left:

1. `Settlement`: the composition of ledger and payer as an implementation of an
   abstract payment contract (an address receives what it earned, at most once).
2. `PplnsPaging`: the paging loop with equal time stamps and real scores against
   the window definition that `PayoutLedger` uses.
3. `StratumJobs`: valid jobs, duplicates and template updates.

Known hazards without a property, besides those of `PROJECT.json`: an amount of
zero in a payout or a reward (`AlphaPayoutHandler.cs:193`,
`PPLNSPaymentScheme.cs:206`), a hash that throws leaves a zero result
(`RandomX.cs:360`), imported shares reach the table behind younger ones
(`ShareRecorder.cs:216`), a found block is announced inside of the transaction that
records it (`ShareRecorder.cs:104`).

Most lines of native code in this repository are vendored hash functions
(`Native/libmultihash`, `libcryptonight` and others, some 230000 lines). They are
pure functions from bytes to bytes without state or concurrency, and
their correctness is a matter of test vectors; a model of them would copy them.
Only the DAG files of `libethhash` have a protocol, which is modelled. The share of the
native code that the models cover is therefore small and will stay so.

Out of reach or of no use: byte-level work (coinbase and header assembly, hash
functions, address and JSON formats), the native libraries, statistics and web
queries, the console, and the coin families the Alpha pool does not use.
