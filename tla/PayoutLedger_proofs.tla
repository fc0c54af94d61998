--------------------------- MODULE PayoutLedger_proofs ---------------------------
(***************************************************************************)
(* Proofs about PayoutLedger, for every PPLNS window, page size, set of    *)
(* addresses and history of shares.                                        *)
(***************************************************************************)
EXTENDS PayoutLedger, TLAPS, FiniteSetTheorems

\* The manager's lists follow the chain, and a balance that was read is still there.
PassOK ==
  /\ \A b \in matured : chain[b] = "mature" /\ status[b] = "pending"
  /\ \A b \in orphans : chain[b] = "lost" /\ status[b] = "pending"
  /\ \A a \in Address : due[a] <= balance[a]
  /\ \A b \in Time : b > now => status[b] = "none"

\* The inductive invariant.
IInv == TypeOK /\ NoGaps /\ PassOK /\ VerdictsHold /\ NeverOverpaid

-----------------------------------------------------------------------------
(* Sets of shares. *)

LEMMA PastInTime ==
  ASSUME TypeOK
  PROVE  /\ 1..now \in SUBSET Time
         /\ table \in SUBSET Time
         /\ \A b \in Time, n \in Int :
              /\ Newest(table, b, n) \subseteq table
              /\ Newest(1..now, b, n) \subseteq 1..now
<1>1. now \in Nat /\ now <= MaxTime /\ MaxTime \in Nat
  BY ConstantsAssumption DEF TypeOK
<1>2. 1..now \in SUBSET Time
  BY <1>1 DEF Time
<1>3. table \in SUBSET Time
  BY <1>2 DEF TypeOK
<1>4. \A b \in Time, n \in Int :
        /\ Newest(table, b, n) \subseteq table
        /\ Newest(1..now, b, n) \subseteq 1..now
  BY DEF Newest, UpTo
<1> QED
  BY <1>2, <1>3, <1>4

LEMMA TimeSubsetFinite ==
  ASSUME NEW S \in SUBSET Time
  PROVE  IsFiniteSet(S) /\ Cardinality(S) \in Nat
<1>1. IsFiniteSet(Time)
  BY FS_Interval, ConstantsAssumption DEF Time
<1> QED
  BY <1>1, FS_Subset, FS_CardinalityType

\* More shares earn more.
LEMMA RewardMonotone ==
  ASSUME TypeOK, NEW S \in SUBSET Time, NEW T \in SUBSET Time, S \subseteq T,
         NEW a \in Address
  PROVE  /\ Reward(S, a) \in Nat
         /\ Reward(T, a) \in Nat
         /\ Reward(S, a) <= Reward(T, a)
<1> DEFINE m == Cardinality(SharesOf(S, a))
           n == Cardinality(SharesOf(T, a))
<1>1. /\ SharesOf(S, a) \in SUBSET Time /\ SharesOf(T, a) \in SUBSET Time
      /\ SharesOf(S, a) \subseteq SharesOf(T, a)
  BY DEF SharesOf
<1>2. m \in Nat /\ n \in Nat /\ m <= n
  BY <1>1, TimeSubsetFinite, FS_Subset
<1>3. FromCut(a) \in Nat /\ PerShare \in Nat
  BY ConstantsAssumption DEF FromCut
<1>4. PerShare * m \in Nat /\ PerShare * n \in Nat /\ PerShare * m <= PerShare * n
  <2> HIDE DEF m, n
  <2>1. \A p, i, j \in Nat : i <= j => p * i \in Nat /\ p * j \in Nat /\ p * i <= p * j
    <3>1. SUFFICES ASSUME NEW p \in Nat, NEW i \in Nat, NEW j \in Nat, i <= j
                   PROVE  p * i \in Nat /\ p * j \in Nat /\ p * i <= p * j
      OBVIOUS
    <3>2. PICK k \in Nat : j = i + k
      <4>1. j - i \in Nat /\ j = i + (j - i)
        BY <3>1
      <4> QED
        BY <4>1
    <3>3. p * j = p * i + p * k /\ p * i \in Nat /\ p * k \in Nat
      BY <3>2
    <3> QED
      BY <3>3
  <2> QED
    BY <1>2, <1>3, <2>1
<1> QED
  BY <1>3, <1>4 DEF Reward

\* What is counted from the table is part of what counts in the whole history.
LEMMA WindowOfTable ==
  ASSUME TypeOK, NoGaps, NEW b \in Time, NEW n \in Nat, n <= Window
  PROVE  Newest(table, b, n) \subseteq Newest(1..now, b, Window)
<1>1. SUFFICES ASSUME NEW t \in Newest(table, b, n)
               PROVE  t \in Newest(1..now, b, Window)
  OBVIOUS
<1>2. t \in table /\ t <= b /\ t \in 1..now
  BY <1>1 DEF Newest, UpTo, TypeOK
<1> DEFINE A == {u \in UpTo(table, b) : t < u}
           B == {u \in UpTo(1..now, b) : t < u}
<1>3. A = B
  <2>1. \A u \in 1..now : t < u => u \in table
    BY <1>2 DEF NoGaps, TypeOK
  <2> QED
    BY <1>2, <2>1 DEF UpTo, TypeOK
<1>4. Cardinality(A) < n
  BY <1>1 DEF Newest
<1>5. A \in SUBSET Time
  BY PastInTime DEF UpTo
<1>6. Cardinality(B) < Window
  <2>1. Cardinality(A) \in Nat
    BY <1>5, TimeSubsetFinite
  <2>2. Cardinality(B) < n
    BY <1>3, <1>4
  <2>3. Cardinality(B) \in Nat
    BY <1>3, <2>1
  <2> QED
    BY <2>2, <2>3, ConstantsAssumption
<1> QED
  BY <1>2, <1>6 DEF Newest, UpTo

-----------------------------------------------------------------------------
(* The transaction of a confirmed block, with whatever shares it counted. *)

LEMMA CreditInv ==
  ASSUME IInv, NEW b \in matured, NEW S \in SUBSET table,
         S \subseteq Newest(1..now, b, Window),
         Credit(b, S)
  PROVE  /\ balance' \in [Address -> Nat] /\ earned' \in [Address -> Nat]
         /\ status' \in [Time -> {"none", "pending", "confirmed", "orphaned"}]
         /\ table' \subseteq 1..now'
         /\ \A a \in Address : balance'[a] >= balance[a]
         /\ \A c \in Time : c # b => status'[c] = status[c]
         /\ status'[b] = "confirmed"
         /\ NoGaps' /\ NeverOverpaid'
<1> USE DEF Credit
<1>1. b \in Time /\ S \in SUBSET Time /\ Newest(1..now, b, Window) \in SUBSET Time
  <2>1. TypeOK /\ b \in Time
    BY DEF IInv, TypeOK
  <2>2. 1..now \in SUBSET Time /\ table \in SUBSET Time
    BY <2>1, PastInTime
  <2>3. Newest(1..now, b, Window) \subseteq 1..now
    BY <2>1, PastInTime, ConstantsAssumption
  <2> QED
    BY <2>1, <2>2, <2>3
<1>2. \A a \in Address : /\ Reward(S, a) \in Nat
                         /\ FairReward(b, a) \in Nat
                         /\ Reward(S, a) <= FairReward(b, a)
  BY <1>1, RewardMonotone DEF IInv, FairReward
<1>3. balance' \in [Address -> Nat] /\ earned' \in [Address -> Nat]
  <2>1. \A a \in Address : /\ balance[a] + Reward(S, a) \in Nat
                           /\ earned[a] + FairReward(b, a) \in Nat
    BY <1>2 DEF IInv, TypeOK
  <2> QED
    BY <2>1
<1>4. \A a \in Address : /\ balance'[a] = balance[a] + Reward(S, a)
                         /\ earned'[a] = earned[a] + FairReward(b, a)
  BY DEF IInv, TypeOK
<1>5. NeverOverpaid'
  BY <1>2, <1>4 DEF IInv, TypeOK, NeverOverpaid, Total
<1>6. NoGaps'
  <2>1. CASE Cardinality(S) # Window
    BY <2>1 DEF Discarded, IInv, NoGaps
  <2>2. CASE Cardinality(S) = Window
    <3>1. table' = {t \in table : ~\A u \in S : t < u}
      BY <2>2 DEF Discarded
    <3> QED
      BY <3>1, <1>1 DEF IInv, TypeOK, NoGaps, Time
  <2> QED
    BY <2>1, <2>2
<1>7. \A a \in Address : balance'[a] >= balance[a]
  BY <1>2, <1>4 DEF IInv, TypeOK
<1>8. table' \subseteq 1..now'
  BY DEF IInv, TypeOK
<1> QED
  BY <1>1, <1>3, <1>5, <1>6, <1>7, <1>8 DEF IInv, TypeOK

\* The same for a step that settles b and may be told to stop.
LEMMA SettleInv ==
  ASSUME IInv, NEW b \in matured, NEW S \in SUBSET table,
         S \subseteq Newest(1..now, b, Window),
         Credit(b, S), matured' = matured \ {b}, UNCHANGED <<orphans, due, pc>>,
         stopping' \in BOOLEAN, faults' \in 0..MaxFaults
  PROVE  IInv'
<1>1. /\ balance' \in [Address -> Nat] /\ earned' \in [Address -> Nat]
      /\ status' \in [Time -> {"none", "pending", "confirmed", "orphaned"}]
      /\ table' \subseteq 1..now'
      /\ \A a \in Address : balance'[a] >= balance[a]
      /\ \A c \in Time : c # b => status'[c] = status[c]
      /\ status'[b] = "confirmed"
      /\ NoGaps' /\ NeverOverpaid'
  BY CreditInv
<1>2. TypeOK'
  BY <1>1 DEF IInv, TypeOK, Credit
<1>3. VerdictsHold'
  BY <1>1 DEF IInv, TypeOK, PassOK, VerdictsHold, Credit
<1>4. b <= now
  <2>1. status[b] # "none"
    BY DEF IInv, PassOK
  <2> QED
    BY <2>1 DEF IInv, TypeOK, PassOK, Time
<1>5. PassOK'
  BY <1>1, <1>4 DEF IInv, TypeOK, PassOK, Credit, Time
<1> QED
  BY <1>1, <1>2, <1>3, <1>5 DEF IInv
-----------------------------------------------------------------------------
(* Every step preserves the invariant. *)

LEMMA InitIInv == Init => IInv
<1>1. SUFFICES ASSUME Init PROVE IInv
  OBVIOUS
<1>2. TypeOK
  <2>1. /\ now \in 0..MaxTime /\ faults \in 0..MaxFaults
        /\ miner \in [Time -> Address]
    BY <1>1, ConstantsAssumption DEF Init
  <2>2. /\ balance \in [Address -> Nat] /\ queued \in [Address -> Nat]
        /\ earned \in [Address -> Nat] /\ due \in [Address -> Nat]
        /\ status \in [Time -> {"none", "pending", "confirmed", "orphaned"}]
        /\ chain \in [Time -> {"young", "mature", "lost"}]
    BY <1>1 DEF Init
  <2> QED
    BY <1>1, <2>1, <2>2 DEF Init, TypeOK
<1>3. NoGaps /\ PassOK /\ VerdictsHold
  BY <1>1 DEF Init, NoGaps, PassOK, VerdictsHold
<1>4. NeverOverpaid
  BY <1>1 DEF Init, NeverOverpaid, Total
<1> QED
  BY <1>2, <1>3, <1>4 DEF IInv

LEMMA RecordShareInv ==
  ASSUME IInv, NEW a \in Address, NEW found \in BOOLEAN, RecordShare(a, found)
  PROVE  IInv'
<1> USE DEF RecordShare, money, pass
<1>1. now + 1 \in Time /\ now' = now + 1 /\ now \in Nat
  BY ConstantsAssumption DEF IInv, TypeOK, Time
<1>2. \A b \in Time : b # now + 1 => status'[b] = status[b]
  BY DEF IInv, TypeOK
<1>3. status[now + 1] = "none"
  BY <1>1 DEF IInv, PassOK
<1>4. TypeOK'
  <2>1. now' \in 0..MaxTime /\ table' \subseteq 1..now'
    <3>1. now + 1 <= MaxTime /\ now \in Nat /\ MaxTime \in Nat
      BY ConstantsAssumption DEF IInv, TypeOK
    <3>2. table \subseteq 1..now /\ table' = table \cup {now + 1}
      BY DEF IInv, TypeOK
    <3> QED
      BY <1>1, <3>1, <3>2
  <2>2. status' \in [Time -> {"none", "pending", "confirmed", "orphaned"}]
    BY DEF IInv, TypeOK
  <2> QED
    BY <2>1, <2>2 DEF IInv, TypeOK
<1>5. NoGaps'
  BY <1>1 DEF IInv, TypeOK, NoGaps
<1>6. PassOK'
  BY <1>1, <1>2, <1>3 DEF IInv, TypeOK, PassOK, Time
<1>7. status'[now + 1] \in {"pending", "none"}
  BY <1>1, <1>3 DEF IInv, TypeOK
<1>8. VerdictsHold'
  BY <1>1, <1>2, <1>7 DEF IInv, VerdictsHold
<1>9. NeverOverpaid'
  BY DEF IInv, NeverOverpaid, Total
<1> QED
  BY <1>4, <1>5, <1>6, <1>8, <1>9 DEF IInv

\* The chain decides about a block that is not settled.
LEMMA ChainInv ==
  ASSUME IInv, NEW b \in Time, Mature(b) \/ Lose(b)
  PROVE  IInv'
<1> USE DEF Mature, Lose, money, pass
<1>1. TypeOK' /\ NoGaps' /\ NeverOverpaid'
  BY DEF IInv, TypeOK, NoGaps, NeverOverpaid, Total
<1>2. \A c \in Time : chain[c] # "young" => chain'[c] = chain[c]
  BY DEF IInv, TypeOK
<1>3. PassOK' /\ VerdictsHold'
  BY <1>2 DEF IInv, TypeOK, PassOK, VerdictsHold
<1> QED
  BY <1>1, <1>3 DEF IInv

\* Steps that touch neither the tables nor the chain, and take on no work.
LEMMA QuietInv ==
  ASSUME IInv, UNCHANGED <<mining, status, money>>,
         matured' \subseteq matured, orphans' \subseteq orphans,
         due' \in [Address -> Nat], \A a \in Address : due'[a] <= balance[a],
         pc' \in {"down", "idle", "settle", "payout", "queue"},
         stopping' \in BOOLEAN, faults' \in 0..MaxFaults
  PROVE  IInv'
<1> USE DEF mining, money
<1>1. TypeOK'
  BY DEF IInv, TypeOK
<1>2. NoGaps' /\ VerdictsHold' /\ NeverOverpaid'
  BY DEF IInv, NoGaps, VerdictsHold, NeverOverpaid, Total
<1>3. PassOK'
  BY DEF IInv, PassOK
<1> QED
  BY <1>1, <1>2, <1>3 DEF IInv

LEMMA FaultType ==
  ASSUME TypeOK, Fault \/ UNCHANGED faults
  PROVE  faults' \in 0..MaxFaults
BY ConstantsAssumption DEF TypeOK, Fault

LEMMA EndPassInv ==
  ASSUME IInv, UNCHANGED <<mining, status, money>>,
         NEW next \in {"down", "idle"}, EndPass(next), Fault \/ UNCHANGED faults
  PROVE  IInv'
<1>1. due' \in [Address -> Nat] /\ \A a \in Address : due'[a] <= balance[a]
  BY DEF EndPass, IInv, TypeOK
<1>2. faults' \in 0..MaxFaults
  BY FaultType DEF IInv
<1> QED
  BY <1>1, <1>2, QuietInv DEF EndPass

LEMMA ClassifyInv ==
  ASSUME IInv, NEW missed \in SUBSET Pending, Classify(missed)
  PROVE  IInv'
<1> USE DEF Classify, mining, money
<1>1. faults' \in 0..MaxFaults
  BY FaultType DEF IInv
<1>2. TypeOK'
  BY <1>1 DEF IInv, TypeOK, Pending
<1>3. NoGaps' /\ VerdictsHold' /\ NeverOverpaid'
  BY DEF IInv, NoGaps, VerdictsHold, NeverOverpaid, Total
<1>4. PassOK'
  BY DEF IInv, PassOK, Pending
<1> QED
  BY <1>2, <1>3, <1>4 DEF IInv

LEMMA SettleConfirmedInv ==
  ASSUME IInv, NEW b \in Time, SettleConfirmed(b)
  PROVE  IInv'
<1>1. /\ Newest(table, b, Window) \subseteq Newest(1..now, b, Window)
      /\ Newest(table, b, Window) \subseteq table
  BY WindowOfTable, PastInTime, ConstantsAssumption DEF IInv
<1> QED
  BY <1>1, SettleInv DEF SettleConfirmed, IInv, TypeOK

LEMMA SettleInterruptedInv ==
  ASSUME IInv, NEW b \in Time, NEW n \in Time, SettleInterrupted(b, n)
  PROVE  IInv'
<1> DEFINE k == n * PageSize
<1>1. k \in Nat /\ k <= Window
  BY ConstantsAssumption DEF SettleInterrupted, Time
<1>2. /\ Newest(table, b, k) \subseteq Newest(1..now, b, Window)
      /\ Newest(table, b, k) \subseteq table
  BY <1>1, WindowOfTable, PastInTime DEF IInv
<1>3. faults' \in 0..MaxFaults
  BY FaultType DEF SettleInterrupted, IInv
<1> QED
  BY <1>2, <1>3, SettleInv DEF SettleInterrupted

LEMMA SettleUnreadInv ==
  ASSUME IInv, NEW b \in Time, SettleUnread(b)
  PROVE  IInv'
BY SettleInv DEF SettleUnread, IInv, TypeOK

LEMMA SettleOrphanedInv ==
  ASSUME IInv, NEW b \in Time, SettleOrphaned(b)
  PROVE  IInv'
<1> USE DEF SettleOrphaned, mining, money
<1>1. /\ \A c \in Time : c # b => status'[c] = status[c]
      /\ status'[b] = "orphaned" /\ chain[b] = "lost" /\ status[b] = "pending"
  BY DEF IInv, TypeOK, PassOK
<1>2. TypeOK'
  BY DEF IInv, TypeOK
<1>3. NoGaps' /\ NeverOverpaid'
  BY DEF IInv, NoGaps, NeverOverpaid, Total
<1>4. VerdictsHold'
  BY <1>1 DEF IInv, VerdictsHold
<1>5. b \notin matured
  BY <1>1 DEF IInv, PassOK
<1>6. PassOK'
  <2>1. \A c \in matured : c \in Time /\ c # b
    BY <1>5 DEF IInv, TypeOK
  <2>2. \A c \in orphans' : c \in Time /\ c # b
    BY DEF IInv, TypeOK
  <2> QED
    BY <1>1, <2>1, <2>2 DEF IInv, PassOK
<1> QED
  BY <1>2, <1>3, <1>4, <1>6 DEF IInv

LEMMA ReadBalancesInv ==
  ASSUME IInv, ReadBalances
  PROVE  IInv'
<1>1. due' \in [Address -> Nat] /\ \A a \in Address : due'[a] <= balance[a]
  BY DEF ReadBalances, IInv, TypeOK
<1> QED
  BY <1>1, QuietInv DEF ReadBalances, IInv, TypeOK

LEMMA QueuePaymentsInv ==
  ASSUME IInv, QueuePayments
  PROVE  IInv'
<1> USE DEF QueuePayments, EndPass, mining
<1>1. \A a \in Address : /\ balance[a] \in Nat /\ queued[a] \in Nat /\ due[a] \in Nat
                         /\ due[a] <= balance[a]
  BY DEF IInv, TypeOK, PassOK
<1>2. balance' \in [Address -> Nat] /\ queued' \in [Address -> Nat]
  <2>1. \A a \in Address : balance[a] - due[a] \in Nat /\ queued[a] + due[a] \in Nat
    BY <1>1
  <2> QED
    BY <2>1
<1>3. TypeOK'
  BY <1>2 DEF IInv, TypeOK, Onwards
<1>4. \A a \in Address : Total(a)' = Total(a)
  BY <1>1 DEF Total
<1>5. NeverOverpaid'
  BY <1>4 DEF IInv, NeverOverpaid
<1>6. NoGaps' /\ VerdictsHold'
  BY DEF IInv, NoGaps, VerdictsHold
<1>7. PassOK'
  BY <1>2 DEF IInv, TypeOK, PassOK
<1> QED
  BY <1>3, <1>5, <1>6, <1>7 DEF IInv

LEMMA NextIInv == IInv /\ [Next]_vars => IInv'
<1>1. SUFFICES ASSUME IInv, [Next]_vars PROVE IInv'
  OBVIOUS
<1>2. CASE Manager
  <2>1. CASE Start
    <3>1. /\ due' \in [Address -> Nat] /\ \A a \in Address : due'[a] <= balance[a]
          /\ stopping' \in BOOLEAN /\ faults' \in 0..MaxFaults
      BY <1>1, <2>1 DEF Start, pass, IInv, TypeOK, PassOK
    <3> QED
      BY <1>1, <2>1, <3>1, QuietInv DEF Start, pass
  <2>2. CASE SettleFails
    <3>1. Onwards \in {"down", "idle"}
      BY DEF Onwards
    <3> QED
      BY <1>1, <2>2, <3>1, EndPassInv DEF SettleFails
  <2>3. CASE AllSettled
    <3>1. /\ due' \in [Address -> Nat] /\ \A a \in Address : due'[a] <= balance[a]
          /\ stopping' \in BOOLEAN /\ faults' \in 0..MaxFaults
      BY <1>1, <2>3 DEF AllSettled, pass, IInv, TypeOK, PassOK
    <3> QED
      BY <1>1, <2>3, <3>1, QuietInv DEF AllSettled, pass
  <2>4. CASE QueueFails
    <3>1. Onwards \in {"down", "idle"}
      BY DEF Onwards
    <3> QED
      BY <1>1, <2>4, <3>1, EndPassInv DEF QueueFails
  <2> QED
    BY <1>1, <1>2, <2>1, <2>2, <2>3, <2>4, ClassifyInv, SettleConfirmedInv,
       SettleUnreadInv, SettleOrphanedInv, SettleInterruptedInv, ReadBalancesInv,
       QueuePaymentsInv DEF Manager
<1>3. CASE World
  <2>1. CASE RequestStop
    <3>1. /\ due' \in [Address -> Nat] /\ \A a \in Address : due'[a] <= balance[a]
          /\ pc' \in {"down", "idle", "settle", "payout", "queue"}
          /\ stopping' \in BOOLEAN /\ faults' \in 0..MaxFaults
      BY <1>1, <2>1, FaultType DEF RequestStop, pass, IInv, TypeOK, PassOK
    <3> QED
      BY <1>1, <2>1, <3>1, QuietInv DEF RequestStop, pass
  <2>2. CASE Crash
    BY <1>1, <2>2, EndPassInv DEF Crash
  <2> QED
    BY <1>1, <1>3, <2>1, <2>2, RecordShareInv, ChainInv DEF World
<1>4. CASE UNCHANGED vars
  <2> USE <1>4 DEF vars, pass, mining, money
  <2>1. TypeOK' /\ NoGaps'
    BY <1>1 DEF IInv, TypeOK, NoGaps
  <2>2. PassOK' /\ VerdictsHold' /\ NeverOverpaid'
    BY <1>1 DEF IInv, PassOK, VerdictsHold, NeverOverpaid, Total
  <2> QED
    BY <2>1, <2>2 DEF IInv
<1> QED
  BY <1>1, <1>2, <1>3, <1>4 DEF Next

LEMMA Invariance == Spec => []IInv
BY InitIInv, NextIInv, PTL DEF Spec

-----------------------------------------------------------------------------
(* What is deleted is not missed. *)

\* The shares that count for a block are still in the table, unless a newer block
\* was settled before it.
WindowKept ==
  \A b \in Time :
    (\A c \in Time : c > b => status[c] # "confirmed") =>
      Newest(1..now, b, Window) \subseteq table

\* A share recorded later pushes shares out of the window, and brings none in.
LEMMA WindowGrows ==
  ASSUME IInv, now < MaxTime, NEW b \in Time
  PROVE  Newest(1..(now + 1), b, Window) \subseteq Newest(1..now, b, Window) \cup {now + 1}
<1>1. SUFFICES ASSUME NEW t \in Newest(1..(now + 1), b, Window), t # now + 1
               PROVE  t \in Newest(1..now, b, Window)
  OBVIOUS
<1> DEFINE A == {u \in UpTo(1..now, b) : t < u}
           B == {u \in UpTo(1..(now + 1), b) : t < u}
<1>2. now \in Nat /\ MaxTime \in Nat /\ t \in 1..now /\ t <= b
  BY <1>1, ConstantsAssumption DEF IInv, TypeOK, Newest, UpTo
<1>3. B \in SUBSET Time /\ A \subseteq B
  BY <1>2 DEF UpTo, Time
<1>4. /\ Cardinality(A) \in Nat /\ Cardinality(B) \in Nat
      /\ Cardinality(A) <= Cardinality(B)
  BY <1>3, TimeSubsetFinite, FS_Subset
<1>5. Cardinality(B) < Window
  BY <1>1 DEF Newest
<1>6. Cardinality(A) < Window
  BY <1>4, <1>5, ConstantsAssumption
<1> QED
  BY <1>2, <1>6 DEF Newest, UpTo

\* A share is deleted for block c only when a whole window of shares up to c is
\* newer: it does not count for any block from c on.
LEMMA DiscardedIsOld ==
  ASSUME IInv, NEW c \in Time, NEW S \in SUBSET Newest(1..now, c, Window),
         NEW b \in Time, c <= b,
         NEW t \in Discarded(S)
  PROVE  t \notin Newest(1..now, b, Window)
<1> DEFINE B == {u \in UpTo(1..now, b) : t < u}
<1>1. Cardinality(S) = Window /\ t \in table /\ \A u \in S : t < u
  BY DEF Discarded
<1>2. c \in Int /\ b \in Int /\ \A u \in S : u \in 1..now /\ u <= c
  <2>1. c \in Int /\ b \in Int
    BY DEF Time
  <2>2. ASSUME NEW u \in S PROVE u \in 1..now /\ u <= c
    <3>1. u \in Newest(1..now, c, Window)
      OBVIOUS
    <3> QED
      BY <3>1 DEF Newest, UpTo
  <2> QED
    BY <2>1, <2>2
<1>3. \A u \in S : u \in Int /\ u <= b
  BY <1>2
<1>4. S \subseteq B
  BY <1>1, <1>2, <1>3 DEF UpTo
<1>5. B \in SUBSET Time
  BY PastInTime DEF UpTo, IInv
<1>6. Cardinality(B) \in Nat /\ Window <= Cardinality(B)
  BY <1>1, <1>4, <1>5, TimeSubsetFinite, FS_Subset
<1>7. ~(Cardinality(B) < Window)
  BY <1>6, ConstantsAssumption
<1> QED
  BY <1>7 DEF Newest

LEMMA CreditKeepsWindow ==
  ASSUME IInv, WindowKept, NEW c \in matured, NEW S,
         S \subseteq Newest(1..now, c, Window), Credit(c, S)
  PROVE  WindowKept'
<1>1. c \in Time /\ now' = now /\ table' = table \ Discarded(S)
  BY DEF IInv, TypeOK, Credit
<1>2. status'[c] = "confirmed" /\ \A b \in Time : b # c => status'[b] = status[b]
  BY <1>1 DEF IInv, TypeOK, Credit
<1>3. SUFFICES ASSUME NEW b \in Time,
                      \A d \in Time : d > b => status'[d] # "confirmed"
               PROVE  Newest(1..now, b, Window) \subseteq table'
  BY <1>1 DEF WindowKept, Newest, UpTo
<1>4. c <= b
  BY <1>1, <1>2, <1>3 DEF Time
<1>5. \A d \in Time : d > b => status[d] # "confirmed"
  BY <1>2, <1>3
<1>6. Newest(1..now, b, Window) \subseteq table
  BY <1>5 DEF WindowKept
<1>7. \A t \in Discarded(S) : t \notin Newest(1..now, b, Window)
  BY <1>1, <1>4, DiscardedIsOld
<1> QED
  BY <1>1, <1>6, <1>7

LEMMA RecordShareKeepsWindow ==
  ASSUME IInv, WindowKept, NEW a \in Address, NEW found \in BOOLEAN, RecordShare(a, found)
  PROVE  WindowKept'
<1> USE DEF RecordShare
<1>1. now' = now + 1 /\ table' = table \cup {now + 1} /\ now < MaxTime
  OBVIOUS
<1>2. status[now + 1] = "none" /\ \A b \in Time : b # now + 1 => status'[b] = status[b]
  BY ConstantsAssumption DEF IInv, TypeOK, PassOK, Time
<1>3. SUFFICES ASSUME NEW b \in Time,
                      \A c \in Time : c > b => status'[c] # "confirmed"
               PROVE  Newest(1..(now + 1), b, Window) \subseteq table'
  BY <1>1 DEF WindowKept, Newest, UpTo
<1>4. \A c \in Time : c > b => status[c] # "confirmed"
  BY <1>2, <1>3
<1>5. Newest(1..now, b, Window) \subseteq table
  BY <1>4 DEF WindowKept
<1> QED
  BY <1>1, <1>5, WindowGrows

\* Steps that record no share and confirm no block.
LEMMA QuietWindow ==
  ASSUME WindowKept, UNCHANGED <<now, table>>,
         \A b \in Time : status[b] = "confirmed" => status'[b] = "confirmed"
  PROVE  WindowKept'
BY DEF WindowKept, Newest, UpTo

LEMMA SettledInterrupted ==
  ASSUME IInv, NEW b \in Time, NEW n \in Time, SettleInterrupted(b, n)
  PROVE  Newest(table, b, n * PageSize) \subseteq Newest(1..now, b, Window)
<1>1. n * PageSize \in Nat /\ n * PageSize <= Window
  BY ConstantsAssumption DEF SettleInterrupted, Time
<1> QED
  BY <1>1, WindowOfTable DEF IInv

LEMMA NextWindow == IInv /\ WindowKept /\ [Next]_vars => WindowKept'
<1>1. SUFFICES ASSUME IInv, WindowKept, [Next]_vars PROVE WindowKept'
  OBVIOUS
<1>2. ASSUME UNCHANGED <<now, table, status>> PROVE WindowKept'
  BY <1>1, <1>2, QuietWindow
<1>3. CASE Manager
  <2>1. ASSUME NEW b \in Time, SettleConfirmed(b) PROVE WindowKept'
    <3>1. Newest(table, b, Window) \subseteq Newest(1..now, b, Window)
      BY <1>1, WindowOfTable, ConstantsAssumption DEF IInv
    <3> QED
      BY <1>1, <2>1, <3>1, CreditKeepsWindow DEF SettleConfirmed
  <2>2. ASSUME NEW b \in Time, NEW n \in Time, SettleInterrupted(b, n) PROVE WindowKept'
    BY <1>1, <2>2, SettledInterrupted, CreditKeepsWindow DEF SettleInterrupted
  <2>3. ASSUME NEW b \in Time, SettleUnread(b) PROVE WindowKept'
    BY <1>1, <2>3, CreditKeepsWindow DEF SettleUnread
  <2>4. ASSUME NEW b \in Time, SettleOrphaned(b) PROVE WindowKept'
    <3>1. UNCHANGED <<now, table>> /\ status[b] = "pending"
      BY <1>1, <2>4 DEF SettleOrphaned, mining, IInv, PassOK
    <3>2. \A c \in Time : c # b => status'[c] = status[c]
      BY <1>1, <2>4 DEF SettleOrphaned, IInv, TypeOK
    <3> QED
      BY <1>1, <3>1, <3>2, QuietWindow
  <2>5. CASE Start \/ SettleFails \/ AllSettled \/ ReadBalances \/ QueuePayments \/ QueueFails
    BY <1>2, <2>5
      DEF Start, SettleFails, AllSettled, ReadBalances, QueuePayments, QueueFails, mining
  <2>6. ASSUME NEW missed \in SUBSET Pending, Classify(missed) PROVE WindowKept'
    BY <1>2, <2>6 DEF Classify, mining
  <2> QED
    BY <1>3, <2>1, <2>2, <2>3, <2>4, <2>5, <2>6 DEF Manager
<1>4. CASE World
  <2>1. CASE RequestStop \/ Crash \/ \E b \in Time : Mature(b) \/ Lose(b)
    BY <1>2, <2>1 DEF RequestStop, Crash, Mature, Lose, mining
  <2> QED
    BY <1>1, <1>4, <2>1, RecordShareKeepsWindow DEF World
<1>5. CASE UNCHANGED vars
  BY <1>2, <1>5 DEF vars, mining
<1> QED
  BY <1>1, <1>3, <1>4, <1>5 DEF Next

LEMMA InitWindow == Init => WindowKept
BY ConstantsAssumption DEF Init, WindowKept, Newest, UpTo

LEMMA WindowInvariance == Spec => []WindowKept
BY InitWindow, NextWindow, Invariance, PTL DEF Spec

\* As long as no newer block is settled, counting in the table is counting in the
\* whole history.
LEMMA WindowIsWhole ==
  ASSUME IInv, WindowKept, NEW b \in Time,
         \A c \in Time : c > b => status[c] # "confirmed"
  PROVE  Newest(table, b, Window) = Newest(1..now, b, Window)
<1>1. Newest(table, b, Window) \subseteq Newest(1..now, b, Window)
  BY WindowOfTable, ConstantsAssumption DEF IInv
<1>2. ASSUME NEW t \in Newest(1..now, b, Window) PROVE t \in Newest(table, b, Window)
  <2> DEFINE A == {u \in UpTo(table, b) : t < u}
             B == {u \in UpTo(1..now, b) : t < u}
  <2>1. t \in table /\ t <= b /\ Cardinality(B) < Window
    BY <1>2 DEF WindowKept, Newest, UpTo
  <2>2. A \subseteq B /\ B \in SUBSET Time
    BY PastInTime DEF UpTo, IInv, TypeOK
  <2>3. /\ Cardinality(A) \in Nat /\ Cardinality(B) \in Nat
        /\ Cardinality(A) <= Cardinality(B)
    BY <2>2, TimeSubsetFinite, FS_Subset
  <2>4. Cardinality(A) < Window
    BY <2>1, <2>3, ConstantsAssumption
  <2> QED
    BY <2>1, <2>4 DEF Newest, UpTo
<1> QED
  BY <1>1, <1>2

-----------------------------------------------------------------------------
(* Theorems. *)

\* The types of the state variables; balances are never negative.
THEOREM TypeCorrect == Spec => []TypeOK
<1>1. IInv => TypeOK
  BY DEF IInv
<1> QED
  BY <1>1, Invariance, PTL

\* No address is ever credited more than its shares and cuts are worth.
THEOREM NobodyIsOverpaid == Spec => []NeverOverpaid
<1>1. IInv => NeverOverpaid
  BY DEF IInv
<1> QED
  BY <1>1, Invariance, PTL

\* Money appears only in the step that settles a pending block (BlocksPayOnce: once,
\* and no more than the block is worth).
THEOREM MoneyComesFromBlocks == Spec => MoneyOnlyBySettling
<1> DEFINE Kept == \A a \in Address : Total(a)' = Total(a)
           Settled == \E b \in Time : status[b] = "pending" /\ status'[b] = "confirmed"
<1>1. ASSUME IInv, Next PROVE Kept \/ Settled
  <2>1. ASSUME UNCHANGED <<balance, queued>> PROVE Kept
    BY <2>1 DEF Total
  <2>2. ASSUME NEW b \in Time, b \in matured, NEW S, Credit(b, S) PROVE Settled
    <3>1. status[b] = "pending"
      BY <1>1, <2>2 DEF IInv, PassOK
    <3>2. status'[b] = "confirmed"
      BY <1>1, <2>2 DEF Credit, IInv, TypeOK
    <3> QED
      BY <2>2, <3>1, <3>2
  <2>3. ASSUME QueuePayments PROVE Kept
    BY <1>1, <2>3 DEF QueuePayments, Total, IInv, TypeOK, PassOK
  <2>4. CASE Manager
    <3>1. ASSUME NEW b \in Time, SettleConfirmed(b) PROVE Settled
      BY <2>2, <3>1 DEF SettleConfirmed
    <3>2. ASSUME NEW b \in Time, NEW n \in Time, SettleInterrupted(b, n) PROVE Settled
      BY <2>2, <3>2 DEF SettleInterrupted
    <3>3. ASSUME NEW b \in Time, SettleUnread(b) PROVE Settled
      BY <2>2, <3>3 DEF SettleUnread
    <3>4. ASSUME NEW b \in Time, SettleOrphaned(b) PROVE Kept
      BY <2>1, <3>4 DEF SettleOrphaned, money
    <3>5. CASE Start \/ SettleFails \/ AllSettled \/ ReadBalances \/ QueueFails
      BY <2>1, <3>5 DEF Start, SettleFails, AllSettled, ReadBalances, QueueFails, money
    <3>6. ASSUME NEW missed \in SUBSET Pending, Classify(missed) PROVE Kept
      BY <2>1, <3>6 DEF Classify, money
    <3> QED
      BY <2>3, <2>4, <3>1, <3>2, <3>3, <3>4, <3>5, <3>6 DEF Manager
  <2>5. CASE World
    <3>1. UNCHANGED <<balance, queued>>
      BY <2>5 DEF World, RecordShare, Mature, Lose, RequestStop, Crash, money
    <3> QED
      BY <2>1, <3>1
  <2> QED
    BY <1>1, <2>4, <2>5 DEF Next
<1>2. ASSUME IInv, [Next]_vars
      PROVE  [\/ \A a \in Address : Total(a)' = Total(a)
              \/ \E b \in Time : status[b] = "pending" /\ status'[b] = "confirmed"]_vars
  BY <1>1, <1>2
<1> QED
  BY <1>2, Invariance, PTL DEF Spec, MoneyOnlyBySettling

\* The shares that are kept have no gaps.
THEOREM SharesAreKeptInOnePiece == Spec => []NoGaps
<1>1. IInv => NoGaps
  BY DEF IInv
<1> QED
  BY <1>1, Invariance, PTL

\* What is written about a block is what the chain decided.
THEOREM VerdictsAreTrue == Spec => []VerdictsHold
<1>1. IInv => VerdictsHold
  BY DEF IInv
<1> QED
  BY <1>1, Invariance, PTL

\* A block that is settled in its turn, while nobody stops the process, pays what the
\* whole history of shares says: what was deleted before was too old to count.
THEOREM BlocksArePaidInFull == Spec => PaidInFull
<1> DEFINE Full(b) ==
             \/ \A a \in Address : Total(a)' = Total(a) + FairReward(b, a)
             \/ \E c \in Time : c > b /\ status[c] = "confirmed"
             \/ stopping'
           Paid == \A b \in Time : status[b] = "pending" /\ status'[b] = "confirmed" => Full(b)
<1>1. ASSUME IInv, WindowKept, Next PROVE Paid
  <2>1. SUFFICES ASSUME NEW b \in Time, status[b] = "pending", status'[b] = "confirmed"
                 PROVE  Full(b)
    OBVIOUS
  <2> HIDE DEF Full
  <2>2. ASSUME NEW c \in Time, NEW S, Credit(c, S) PROVE c = b
    BY <1>1, <2>1, <2>2 DEF Credit, IInv, TypeOK
  <2>3. ASSUME UNCHANGED status PROVE FALSE
    BY <2>1, <2>3
  <2>4. CASE Manager
    <3>1. ASSUME NEW c \in Time, SettleConfirmed(c) PROVE Full(b)
      <4>1. c = b /\ Credit(b, Newest(table, b, Window))
        BY <2>2, <3>1 DEF SettleConfirmed
      <4>2. SUFFICES ASSUME \A d \in Time : d > b => status[d] # "confirmed"
                     PROVE  \A a \in Address : Total(a)' = Total(a) + FairReward(b, a)
        BY DEF Full
      <4>3. Newest(table, b, Window) = Newest(1..now, b, Window)
        BY <1>1, <4>2, WindowIsWhole
      <4>4. Newest(1..now, b, Window) \in SUBSET Time
        <5>1. TypeOK
          BY <1>1 DEF IInv
        <5> QED
          BY <5>1, PastInTime, ConstantsAssumption
      <4>5. ASSUME NEW a \in Address PROVE Total(a)' = Total(a) + FairReward(b, a)
        <5>1. FairReward(b, a) \in Nat
          BY <1>1, <4>4, RewardMonotone DEF FairReward, IInv
        <5>2. balance'[a] = balance[a] + FairReward(b, a) /\ queued' = queued
          BY <4>1, <4>3 DEF Credit, FairReward
        <5>3. balance[a] \in Nat /\ queued[a] \in Nat
          BY <1>1 DEF IInv, TypeOK
        <5> QED
          BY <5>1, <5>2, <5>3 DEF Total
      <4> QED
        BY <4>5
    <3>2. ASSUME NEW c \in Time, NEW n \in Time, SettleInterrupted(c, n) PROVE Full(b)
      BY <3>2 DEF SettleInterrupted, Full
    <3>3. ASSUME NEW c \in Time, SettleUnread(c) PROVE Full(b)
      BY <3>3 DEF SettleUnread, Full
    <3>4. ASSUME NEW c \in Time, SettleOrphaned(c) PROVE FALSE
      BY <1>1, <2>1, <3>4 DEF SettleOrphaned, IInv, TypeOK
    <3>5. ASSUME Start \/ SettleFails \/ AllSettled \/ ReadBalances
                   \/ QueuePayments \/ QueueFails
          PROVE FALSE
      BY <2>3, <3>5
        DEF Start, SettleFails, AllSettled, ReadBalances, QueuePayments, QueueFails
    <3>6. ASSUME NEW missed \in SUBSET Pending, Classify(missed) PROVE FALSE
      BY <2>3, <3>6 DEF Classify
    <3> QED
      BY <2>4, <3>1, <3>2, <3>3, <3>4, <3>5, <3>6 DEF Manager
  <2>5. ASSUME World PROVE FALSE
    <3>1. ASSUME RequestStop \/ Crash \/ \E c \in Time : Mature(c) \/ Lose(c) PROVE FALSE
      BY <2>3, <3>1 DEF RequestStop, Crash, Mature, Lose
    <3>2. ASSUME NEW a \in Address, NEW found \in BOOLEAN, RecordShare(a, found) PROVE FALSE
      BY <1>1, <2>1, <3>2 DEF RecordShare, IInv, TypeOK
    <3> QED
      BY <2>5, <3>1, <3>2 DEF World
  <2> QED
    BY <1>1, <2>4, <2>5 DEF Next
<1>2. ASSUME UNCHANGED vars PROVE Paid
  BY <1>2 DEF vars
<1>3. ASSUME IInv, WindowKept, [Next]_vars PROVE [Paid]_vars
  BY <1>1, <1>3
<1> QED
  BY <1>3, Invariance, WindowInvariance, PTL DEF Spec, PaidInFull

-----------------------------------------------------------------------------
(* A block pays once. *)

\* What was decided about a block stays decided.
VerdictsFinal ==
  [][\A b \in Time : status[b] \in {"confirmed", "orphaned"} => status'[b] = status[b]]_vars

\* What an address gets in a step is what the block settled by it is worth, at most.
WorthAtMost ==
  [][\A a \in Address :
       \/ Total(a)' = Total(a)
       \/ \E b \in Time : /\ status[b] = "pending" /\ status'[b] = "confirmed"
                          /\ Total(a)' <= Total(a) + FairReward(b, a)]_vars

\* The blocks whose status a step of the system changes.
LEMMA StatusEffect ==
  ASSUME IInv, [Next]_vars, NEW b \in Time, status'[b] # status[b]
  PROVE  status[b] \in {"none", "pending"}
<1>1. ASSUME UNCHANGED status PROVE FALSE
  BY <1>1
<1>2. ASSUME NEW c \in matured, NEW S, Credit(c, S) PROVE status[b] = "pending"
  BY <1>2 DEF Credit, IInv, TypeOK, PassOK
<1>3. CASE Manager
  <2>1. ASSUME NEW c \in Time,
               \/ SettleConfirmed(c) \/ SettleUnread(c)
               \/ \E n \in Time : SettleInterrupted(c, n)
        PROVE  status[b] = "pending"
    BY <1>2, <2>1 DEF SettleConfirmed, SettleUnread, SettleInterrupted
  <2>2. ASSUME NEW c \in Time, SettleOrphaned(c) PROVE status[b] = "pending"
    BY <2>2 DEF SettleOrphaned, IInv, TypeOK, PassOK
  <2>3. ASSUME \/ Start \/ SettleFails \/ AllSettled \/ ReadBalances
               \/ QueuePayments \/ QueueFails
               \/ \E missed \in SUBSET Pending : Classify(missed)
        PROVE  FALSE
    BY <1>1, <2>3
      DEF Start, SettleFails, AllSettled, ReadBalances, QueuePayments, QueueFails, Classify
  <2> QED
    BY <1>3, <2>1, <2>2, <2>3 DEF Manager
<1>4. CASE World
  <2>1. ASSUME NEW a \in Address, NEW found \in BOOLEAN, RecordShare(a, found)
        PROVE  status[b] = "none"
    BY <2>1 DEF RecordShare, IInv, TypeOK, PassOK, Time
  <2>2. ASSUME RequestStop \/ Crash \/ \E c \in Time : Mature(c) \/ Lose(c) PROVE FALSE
    BY <1>1, <2>2 DEF RequestStop, Crash, Mature, Lose
  <2> QED
    BY <1>4, <2>1, <2>2 DEF World
<1>5. ASSUME UNCHANGED vars PROVE FALSE
  BY <1>1, <1>5 DEF vars
<1> QED
  BY <1>3, <1>4, <1>5 DEF Next

\* What the transaction of a confirmed block pays.
LEMMA CreditEffect ==
  ASSUME IInv, NEW b \in matured, NEW S \in SUBSET table,
         S \subseteq Newest(1..now, b, Window), Credit(b, S), NEW a \in Address
  PROVE  /\ status[b] = "pending" /\ status'[b] = "confirmed"
         /\ Total(a)' <= Total(a) + FairReward(b, a)
<1>1. TypeOK /\ b \in Time /\ status[b] = "pending"
  BY DEF IInv, TypeOK, PassOK
<1>2. Newest(1..now, b, Window) \in SUBSET Time
  BY <1>1, PastInTime, ConstantsAssumption
<1>3. /\ Reward(S, a) \in Nat /\ FairReward(b, a) \in Nat
      /\ Reward(S, a) <= FairReward(b, a)
  BY <1>1, <1>2, RewardMonotone DEF FairReward
<1>4. /\ balance'[a] = balance[a] + Reward(S, a) /\ queued' = queued
      /\ status'[b] = "confirmed" /\ balance[a] \in Nat /\ queued[a] \in Nat
  BY <1>1 DEF Credit, TypeOK
<1> QED
  BY <1>1, <1>3, <1>4 DEF Total

LEMMA WorthStep ==
  ASSUME IInv, [Next]_vars, NEW a \in Address
  PROVE  \/ Total(a)' = Total(a)
         \/ \E b \in Time : /\ status[b] = "pending" /\ status'[b] = "confirmed"
                            /\ Total(a)' <= Total(a) + FairReward(b, a)
<1> DEFINE Kept == Total(a)' = Total(a)
           Worth == \E b \in Time : /\ status[b] = "pending" /\ status'[b] = "confirmed"
                                    /\ Total(a)' <= Total(a) + FairReward(b, a)
<1>1. ASSUME UNCHANGED <<balance, queued>> PROVE Kept
  BY <1>1 DEF Total
<1>2. ASSUME NEW b \in matured, NEW S \in SUBSET table,
             S \subseteq Newest(1..now, b, Window), Credit(b, S)
      PROVE  Worth
  <2>1. b \in Time
    BY <1>2 DEF IInv, TypeOK
  <2> QED
    BY <1>2, <2>1, CreditEffect
<1>3. ASSUME NEW b \in Time, SettleConfirmed(b) PROVE Worth
  <2>1. /\ Newest(table, b, Window) \subseteq Newest(1..now, b, Window)
        /\ Newest(table, b, Window) \subseteq table
    BY WindowOfTable, PastInTime, ConstantsAssumption DEF IInv
  <2> QED
    BY <1>2, <1>3, <2>1 DEF SettleConfirmed
<1>4. ASSUME NEW b \in Time, NEW n \in Time, SettleInterrupted(b, n) PROVE Worth
  <2>1. Newest(table, b, n * PageSize) \subseteq Newest(1..now, b, Window)
    BY <1>4, SettledInterrupted
  <2>2. Newest(table, b, n * PageSize) \subseteq table
    BY DEF Newest, UpTo
  <2> QED
    BY <1>2, <1>4, <2>1, <2>2 DEF SettleInterrupted
<1>5. ASSUME NEW b \in Time, SettleUnread(b) PROVE Worth
  BY <1>2, <1>5 DEF SettleUnread
<1>6. ASSUME QueuePayments PROVE Kept
  BY <1>6 DEF QueuePayments, Total, IInv, TypeOK, PassOK
<1>7. ASSUME \/ Start \/ SettleFails \/ AllSettled \/ ReadBalances \/ QueueFails
             \/ \E missed \in SUBSET Pending : Classify(missed)
             \/ \E b \in Time : SettleOrphaned(b)
             \/ World
             \/ UNCHANGED vars
      PROVE  Kept
  <2>1. UNCHANGED <<balance, queued>>
    BY <1>7 DEF Start, SettleFails, AllSettled, ReadBalances, QueueFails, Classify,
                SettleOrphaned, World, RecordShare, Mature, Lose, RequestStop, Crash,
                money, vars
  <2> QED
    BY <1>1, <2>1
<1> QED
  BY <1>3, <1>4, <1>5, <1>6, <1>7 DEF Next, Manager

\* No block is paid for twice: its verdict is final, money appears only in the step
\* that confirms it, and that step gives nobody more than the block is worth.
THEOREM BlocksPayOnce == Spec => VerdictsFinal /\ WorthAtMost
<1>1. IInv /\ [Next]_vars =>
        [\A b \in Time : status[b] \in {"confirmed", "orphaned"} => status'[b] = status[b]]_vars
  BY StatusEffect
<1>2. IInv /\ [Next]_vars =>
        [\A a \in Address :
           \/ Total(a)' = Total(a)
           \/ \E b \in Time : /\ status[b] = "pending" /\ status'[b] = "confirmed"
                              /\ Total(a)' <= Total(a) + FairReward(b, a)]_vars
  BY WorthStep
<1> QED
  BY <1>1, <1>2, Invariance, PTL DEF Spec, VerdictsFinal, WorthAtMost
=============================================================================
