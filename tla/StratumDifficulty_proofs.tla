----------------------- MODULE StratumDifficulty_proofs -----------------------
(***************************************************************************)
(* Proofs about StratumDifficulty, for every set of difficulties, any      *)
(* capacity of the queues and any threads that post.                       *)
(***************************************************************************)
EXTENDS StratumDifficulty, SequenceTheorems, TLAPS

\* A thread that is about to set a difficulty has one in its hands.
Holding == {"remember", "assign", "rememberOwn", "assignOwn"}

\* One request is handled at a time, as "request" or as "suggest".
ThreadsOK ==
  /\ pc \in [Thread -> Step]
  /\ val \in [Thread -> Given \cup {None}]
  /\ \A t \in Thread : pc[t] \in Holding => val[t] \in Given
  /\ pc["request"] = "rest" \/ pc["suggest"] = "rest"

\* The threads that have seen room in the queue: at most three of them.
Sends(t) == IF pc[t] = "send" THEN 1 ELSE 0
Senders == Sends("request") + Sends("suggest") + Sends("idle") + Sends("job")

RoomOK == Count + Senders <= QueueCapacity + 2

\* The inductive invariant.
IInv == TypeOK /\ ThreadsOK /\ RoomOK

LEMMA Threads ==
  /\ Thread = {"request", "suggest", "idle", "job"}
  /\ "request" \in Thread /\ "suggest" \in Thread /\ "idle" \in Thread /\ "job" \in Thread
BY DEF Thread

LEMMA SendersBound ==
  ASSUME ThreadsOK
  PROVE  /\ \A t \in Thread : Sends(t) \in {0, 1}
         /\ Senders \in 0..3
BY Threads DEF ThreadsOK, Sends, Senders

LEMMA CountNat ==
  ASSUME TypeOK
  PROVE  Len(sendQueue) \in Nat /\ others \in Nat /\ Count \in Nat
BY LenProperties DEF TypeOK, Count

LEMMA GotoTyped ==
  ASSUME ThreadsOK, NEW t \in Thread, NEW step \in Step, NEW d \in Given \cup {None},
         step \in Holding => d \in Given, Goto(t, step, d),
         step = "rest" \/ pc[t] # "rest" \/ Free \/ t \in {"idle", "job"}
  PROVE  /\ ThreadsOK'
         /\ Senders' = Senders - Sends(t) + (IF step = "send" THEN 1 ELSE 0)
<1>1. /\ pc' \in [Thread -> Step]
      /\ val' \in [Thread -> Given \cup {None}]
  BY DEF Goto, ThreadsOK
<1>2. ASSUME NEW u \in Thread, pc'[u] \in Holding
      PROVE  val'[u] \in Given
  <2>1. CASE u = t
    BY <1>2, <2>1 DEF Goto, ThreadsOK
  <2>2. CASE u # t
    BY <1>2, <2>2 DEF Goto, ThreadsOK
  <2> QED
    BY <2>1, <2>2
<1>3. pc'[t] = step /\ \A u \in Thread : u # t => pc'[u] = pc[u]
  BY DEF Goto, ThreadsOK
<1>4. pc'["request"] = "rest" \/ pc'["suggest"] = "rest"
  BY <1>3, Threads DEF ThreadsOK, Free, At
<1>5. Senders' = Senders - Sends(t) + (IF step = "send" THEN 1 ELSE 0)
  <2>1. Sends(t)' = IF step = "send" THEN 1 ELSE 0
    BY <1>3 DEF Sends
  <2>2. \A u \in Thread : u # t => Sends(u)' = Sends(u)
    BY <1>3 DEF Sends
  <2>3. /\ \A u \in Thread : Sends(u) \in {0, 1}
        /\ "request" # t => Sends("request")' = Sends("request")
        /\ "suggest" # t => Sends("suggest")' = Sends("suggest")
        /\ "idle" # t => Sends("idle")' = Sends("idle")
        /\ "job" # t => Sends("job")' = Sends("job")
    BY <2>2, SendersBound, Threads
  <2> QED
    BY <2>1, <2>3, Threads DEF Senders
<1> QED
  BY <1>1, <1>2, <1>4, <1>5 DEF ThreadsOK

Kept == ThreadsOK' /\ RoomOK' /\ Count' <= QueueCapacity + 2

\* A step that does not bring a thread to "send", nor a message into the queue.
LEMMA RoomKept ==
  ASSUME IInv, ThreadsOK', Senders' <= Senders, Count' <= Count, Count' \in Nat
  PROVE  Kept
<1>1. Count \in Nat
  BY CountNat DEF IInv
<1>2. Senders \in 0..3
  BY SendersBound DEF IInv
<1>3. Senders' \in 0..3
  BY Threads DEF ThreadsOK, Sends, Senders
<1>4. QueueCapacity \in Nat /\ Count + Senders <= QueueCapacity + 2
  BY ConstantsAssumption DEF IInv, RoomOK
<1> DEFINE room == QueueCapacity + 2  more == Senders'  less == Senders  len == Count  next == Count'
<1>5. room \in Nat /\ more \in Nat /\ less \in Nat /\ len \in Nat /\ next \in Nat /\ next <= len /\ more <= less /\ len + less <= room
  BY <1>1, <1>2, <1>3, <1>4
<1> HIDE DEF room, more, less, len, next
<1>6. next + more <= room /\ next <= room
  BY <1>5
<1>7. Count' + Senders' <= QueueCapacity + 2 /\ Count' <= QueueCapacity + 2
  BY <1>6 DEF room, more, next
<1> QED
  BY <1>7 DEF RoomOK, Kept

\* The same for a thread that goes on.
LEMMA GotoKept ==
  ASSUME IInv, NEW t \in Thread, NEW step \in Step \ {"send"}, NEW d \in Given \cup {None},
         step \in Holding => d \in Given, Goto(t, step, d),
         step = "rest" \/ pc[t] # "rest" \/ Free \/ t \in {"idle", "job"},
         UNCHANGED <<sendQueue, others>>
  PROVE  Kept
<1>1. ThreadsOK' /\ Senders' = Senders - Sends(t)
  BY GotoTyped, SendersBound DEF IInv
<1>2. Senders' <= Senders
  BY <1>1, SendersBound DEF IInv
<1>3. Count' = Count /\ Count \in Nat
  BY CountNat DEF Count, IInv
<1> QED
  BY <1>1, <1>2, <1>3, RoomKept

LEMMA StillKept ==
  ASSUME IInv, UNCHANGED <<pc, val, sendQueue, others>>
  PROVE  Kept
<1>1. ThreadsOK' /\ Senders' = Senders /\ Senders \in 0..3
  BY SendersBound DEF IInv, ThreadsOK, Senders, Sends
<1>2. Count' = Count /\ Count \in Nat
  BY CountNat DEF Count, IInv
<1> QED
  BY <1>1, <1>2, RoomKept

LEMMA FewerKept ==
  ASSUME IInv, UNCHANGED <<pc, val>>, Count' = Count - 1, Count' \in Nat
  PROVE  Kept
<1>1. ThreadsOK' /\ Senders' = Senders /\ Senders \in 0..3
  BY SendersBound DEF IInv, ThreadsOK, Senders, Sends
<1>2. Count' <= Count
  BY CountNat DEF IInv
<1> QED
  BY <1>1, <1>2, RoomKept

LEMMA DisconnectTyped ==
  ASSUME Disconnect
  PROVE  IInv'
<1>1. <<>> \in Seq(Request) /\ <<>> \in Seq(Given) /\ Len(<<>>) = 0
  BY EmptySeq
<1>2. Base \in Given /\ None \in Given \cup {None} /\ "rest" \in Step
  BY ConstantsAssumption DEF Given, Step
<1>3. 0 <= MaxRequests /\ 0 <= QueueCapacity + 2
  BY ConstantsAssumption
<1>4. ThreadsOK'
  BY <1>2, Threads DEF Disconnect, ThreadsOK, Holding
<1>5. Count' = 0 /\ Senders' = 0
  BY <1>1, Threads DEF Disconnect, Count, Senders, Sends
<1>6. TypeOK'
  BY <1>1, <1>2, <1>3, <1>4, <1>5 DEF Disconnect, TypeOK, ThreadsOK
<1> QED
  BY <1>3, <1>4, <1>5, <1>6 DEF IInv, RoomOK

LEMMA ReceiveTyped ==
  ASSUME TypeOK, NEW kind, Receive(kind)
  PROVE  /\ toPool' \in Seq(Request)
         /\ Len(toPool') <= MaxRequests
         /\ Head(toPool) \in Request
         /\ Head(toPool).diff \in Given \cup {None}
         /\ Head(toPool).kind = kind
<1>1. /\ Head(toPool) \in Request
      /\ Tail(toPool) \in Seq(Request)
      /\ Len(Tail(toPool)) = Len(toPool) - 1
  BY HeadTailProperties DEF TypeOK, Receive
<1>2. Len(toPool) \in Nat
  BY LenProperties DEF TypeOK
<1> QED
  BY <1>1, <1>2, ConstantsAssumption DEF TypeOK, Receive, Request

LEMMA HandleTyped ==
  ASSUME IInv, Handle
  PROVE  IInv'
<1> USE ConstantsAssumption DEF IInv
<1>a. IInv
  OBVIOUS
<1>0. "request" \in Thread /\ Difficulty \subseteq Given
  BY DEF Thread, Given
<1>1. CASE ConfigureMinimumDiff
  <2>1. Head(toPool).kind = "configure" /\ toPool' \in Seq(Request) /\ Len(toPool') <= MaxRequests
        /\ Head(toPool).diff \in Given \cup {None}
    BY <1>1, ReceiveTyped DEF ConfigureMinimumDiff
  <2>2. Head(toPool).diff > Base => Head(toPool).diff \in Given
    BY <2>1 DEF Given, None
  <2>3. Kept
    BY <1>1, <1>a, StillKept DEF ConfigureMinimumDiff, line
  <2>4. crossed' \in BOOLEAN
    BY <1>1, Zenon DEF ConfigureMinimumDiff, TypeOK
  <2> QED
    BY <1>1, <2>4, <2>1, <2>2, <2>3 DEF ConfigureMinimumDiff, TypeOK, ThreadsOK, Kept, line
<1>2. CASE OnSubscribe
  <2>1. toPool' \in Seq(Request) /\ Len(toPool') <= MaxRequests
    BY <1>2, ReceiveTyped DEF OnSubscribe
  <2>2. Kept
    <3>1. Free /\ Goto("request", "announce", None) /\ UNCHANGED <<sendQueue, others>>
      BY <1>2 DEF OnSubscribe, Receive, line
    <3> QED
      BY <1>0, <1>a, <3>1, GotoKept DEF Step, Holding
  <2> QED
    BY <1>2, <2>1, <2>2 DEF OnSubscribe, TypeOK, ThreadsOK, Kept, context, line
<1>3. CASE OnAuthorize
  <2>1. toPool' \in Seq(Request) /\ Len(toPool') <= MaxRequests
        /\ Head(toPool).diff \in Given \cup {None}
    BY <1>3, ReceiveTyped DEF OnAuthorize
  <2>2. Kept
    <3>1. Free /\ Goto("request", "static", Head(toPool).diff) /\ UNCHANGED <<sendQueue, others>>
      BY <1>3 DEF OnAuthorize, Receive, line
    <3> QED
      BY <1>0, <1>a, <2>1, <3>1, GotoKept DEF Step, Holding
  <2> QED
    BY <1>3, <2>1, <2>2 DEF OnAuthorize, TypeOK, ThreadsOK, Kept, history, line
<1>4. CASE StaticDiff
  <2>1. val["request"] \in Given \cup {None}
    BY <1>0 DEF TypeOK
  <2>2. Kept
    <3>0. pc["request"] # "rest" /\ UNCHANGED <<sendQueue, others>>
      BY <1>4 DEF StaticDiff, At, line
    <3>1. CASE val["request"] \in Given /\ Goto("request", "rememberOwn", val["request"])
      BY <1>0, <1>a, <2>1, <3>0, <3>1, GotoKept DEF Step, Holding
    <3>2. CASE Goto("request", "rest", None)
      BY <1>0, <1>a, <3>0, <3>2, GotoKept DEF Step, Holding
    <3>3. val["request"] = None => /\ ~(val["request"] >= MinDiff)
                                   /\ ~(val["request"] > difficulty)
      BY DEF None, TypeOK, Given
    <3> QED
      BY <1>4, <2>1, <3>1, <3>2, <3>3 DEF StaticDiff
  <2> QED
    BY <1>4, <2>2 DEF StaticDiff, TypeOK, ThreadsOK, Kept, miner, line
<1>5. CASE OnSuggestDifficulty
  <2>1. toPool' \in Seq(Request) /\ Len(toPool') <= MaxRequests
        /\ Head(toPool).diff \in Given \cup {None}
    BY <1>5, ReceiveTyped DEF OnSuggestDifficulty
  <2>2. Kept
    <3>0. Free /\ UNCHANGED <<sendQueue, others>> /\ "suggest" \in Thread
      BY <1>5, Threads DEF OnSuggestDifficulty, Receive, line
    <3>1. CASE Head(toPool).diff \in Given /\ Goto("suggest", "rememberOwn", Head(toPool).diff)
      BY <1>a, <2>1, <3>0, <3>1, GotoKept DEF Step, Holding
    <3>2. CASE UNCHANGED <<pc, val>>
      BY <1>a, <3>0, <3>2, StillKept
    <3>3. Head(toPool).diff > Base => Head(toPool).diff \in Given
      BY <2>1 DEF Given, None
    <3> QED
      BY <1>5, <3>1, <3>2, <3>3 DEF OnSuggestDifficulty
  <2> QED
    BY <1>5, <2>1, <2>2 DEF OnSuggestDifficulty, TypeOK, ThreadsOK, Kept, context, line
<1>6. CASE OnSubmit
  <2>1. toPool' \in Seq(Request) /\ Len(toPool') <= MaxRequests
        /\ Head(toPool).diff \in Given \cup {None}
    BY <1>6, ReceiveTyped DEF OnSubmit
  <2>2. Kept
    <3>1. Free /\ Goto("request", "compare", difficulty) /\ UNCHANGED <<sendQueue, others>>
          /\ difficulty \in Given \cup {None}
      BY <1>6 DEF OnSubmit, Receive, line, TypeOK
    <3> QED
      BY <1>0, <1>a, <3>1, GotoKept DEF Step, Holding
  <2> QED
    BY <1>6, <2>1, <2>2 DEF OnSubmit, TypeOK, ThreadsOK, Kept, context, history, line
<1>7. CASE Compare \/ CreditPrevious \/ Respond
  <2>1. \E step \in Step \ (Holding \cup {"send"}), d \in Given \cup {None} : Goto("request", step, d)
    <3>1. val["request"] \in Given \cup {None} /\ previous \in Given \cup {None}
      BY <1>0 DEF TypeOK
    <3>2. {"accept", "credit", "refuse", "rest"} \subseteq Step \ (Holding \cup {"send"})
      BY DEF Step, Holding
    <3>3. CASE Compare
      <4> DEFINE next == IF share >= val["request"] THEN "accept"
                         ELSE IF MeetsPrevious THEN "credit" ELSE "refuse"
      <4>1. next \in Step \ (Holding \cup {"send"}) /\ Goto("request", next, val["request"])
        BY <3>2, <3>3 DEF Compare
      <4> HIDE DEF next
      <4> QED
        BY <3>1, <4>1
    <3>4. CASE CreditPrevious
      BY <3>1, <3>2, <3>4 DEF CreditPrevious
    <3>5. CASE Respond
      <4>1. Goto("request", "rest", None)
        BY <3>5 DEF Respond
      <4> QED
        BY <3>2, <4>1
    <3> QED
      BY <1>7, <3>3, <3>4, <3>5
  <2>2. Kept
    <3>1. pc["request"] # "rest" /\ UNCHANGED <<sendQueue, others>>
      BY <1>7 DEF Compare, CreditPrevious, Respond, At, line
    <3>2. "send" \in Step /\ Holding \subseteq Step
      BY DEF Step, Holding
    <3> QED
      BY <1>0, <1>a, <2>1, <3>1, <3>2, GotoKept
  <2>3. share' \in Given \cup {None}
    BY <1>7 DEF Compare, CreditPrevious, Respond, TypeOK
  <2> QED
    BY <1>7, <2>2, <2>3 DEF Compare, CreditPrevious, Respond, TypeOK, ThreadsOK, Kept, context, miner, history, line
<1> QED
  BY <1>1, <1>2, <1>3, <1>4, <1>5, <1>6, <1>7 DEF Handle

LEMMA ApplyTyped ==
  ASSUME IInv, NEW t \in Thread, Apply(t)
  PROVE  IInv'
<1> USE DEF IInv
<1>a. IInv
  OBVIOUS
<1>1. CASE Disconnect
  BY <1>1, DisconnectTyped
<1>2. CASE HasPending(t)
  <2>1. Kept
    <3> DEFINE next == IF pending # None THEN "take" ELSE "rest"
    <3>1. next \in Step \ {"send"} /\ next \notin Holding /\ Goto(t, next, None)
          /\ pc[t] # "rest" /\ UNCHANGED <<sendQueue, others>>
      BY <1>2 DEF HasPending, Step, Holding, At, line
    <3> HIDE DEF next
    <3> QED
      BY <1>a, <3>1, GotoKept
  <2> QED
    BY <1>2, <2>1 DEF HasPending, TypeOK, ThreadsOK, Kept, context, miner, history, line
<1>3. CASE TakeValue(t) /\ ~Disconnect
  <2>1. Kept
    <3>0. pc[t] # "rest" /\ UNCHANGED <<sendQueue, others>>
      BY <1>3 DEF TakeValue, At, line
    <3> DEFINE d == IF pending = None THEN 0 ELSE pending
    <3>1. d \in Given
      BY DEF TypeOK, Given
    <3>2. CASE Goto(t, "remember", d)
      <4> HIDE DEF d
      <4> QED
        BY <1>a, <3>0, <3>1, <3>2, GotoKept DEF Step
    <3>3. CASE Goto(t, "rest", None)
      BY <1>a, <3>0, <3>3, GotoKept DEF Step, Holding
    <3> QED
      BY <1>3, <3>2, <3>3 DEF TakeValue
  <2>2. UNCHANGED <<context, ripe, share, line, miner, history>>
    BY <1>3 DEF TakeValue
  <2> QED
    BY <2>1, <2>2 DEF TypeOK, ThreadsOK, Kept, context, miner, history, line
<1>4. CASE Remember(t)
  <2>1. Kept
    <3>1. val[t] \in Given
      BY <1>4 DEF Remember, At, ThreadsOK, Holding
    <3>2. Goto(t, "assign", val[t]) \/ Goto(t, "assignOwn", val[t])
      BY <1>4 DEF Remember
    <3>3. pc[t] # "rest" /\ UNCHANGED <<sendQueue, others>>
      BY <1>4 DEF Remember, At, line
    <3> QED
      BY <1>a, <3>1, <3>2, <3>3, GotoKept DEF Step
  <2> QED
    BY <1>4, <2>1 DEF Remember, TypeOK, ThreadsOK, Kept, miner, line
<1>5. CASE Assign(t)
  <2>1. val[t] \in Given
    BY <1>5 DEF Assign, At, ThreadsOK, Holding
  <2>2. Kept
    <3>1. Goto(t, "clear", None) \/ Goto(t, "announce", None)
      BY <1>5 DEF Assign
    <3>2. pc[t] # "rest" /\ UNCHANGED <<sendQueue, others>>
      BY <1>5 DEF Assign, At, line
    <3> QED
      BY <1>a, <3>1, <3>2, GotoKept DEF Step, Holding
  <2>3. crossed' \in BOOLEAN
    BY <1>5, Zenon DEF Assign, TypeOK
  <2> QED
    BY <1>5, <2>1, <2>2, <2>3 DEF Assign, TypeOK, ThreadsOK, Kept, miner, line
<1>6. CASE Clear(t)
  <2>1. Kept
    <3>1. pc[t] # "rest" /\ Goto(t, "announce", None) /\ UNCHANGED <<sendQueue, others>>
      BY <1>6 DEF Clear, At, line
    <3> QED
      BY <1>a, <3>1, GotoKept DEF Step, Holding
  <2> QED
    BY <1>6, <2>1 DEF Clear, TypeOK, ThreadsOK, Kept, miner, history, line
<1>7. CASE Announce(t)
  <2>1. Kept
    <3>1. pc[t] # "rest" /\ Goto(t, "notify", difficulty) /\ UNCHANGED <<sendQueue, others>>
          /\ difficulty \in Given \cup {None}
      BY <1>7 DEF Announce, At, line, TypeOK
    <3> QED
      BY <1>a, <3>1, GotoKept DEF Step, Holding
  <2>2. crossed' \in BOOLEAN
    BY <1>7, Zenon DEF Announce, Crosses
  <2> QED
    BY <1>7, <2>1, <2>2 DEF Announce, TypeOK, ThreadsOK, Kept, context, miner, line
<1>8. CASE Notify(t) /\ ~Disconnect
  <2>1. pc[t] = "notify" /\ val[t] \in Given \cup {None}
        /\ UNCHANGED <<context, ripe, share, line, miner, applied, sendQueue, others>>
    BY <1>8 DEF Notify, At, TypeOK, line, history
  <2>2. CASE Count < QueueCapacity /\ Goto(t, "send", val[t]) /\ UNCHANGED history
    <3>1. ThreadsOK' /\ Senders' = Senders - Sends(t) + 1
      BY <2>1, <2>2, GotoTyped DEF Step, Holding
    <3>2. Senders' \in 0..3 /\ Count' = Count
      BY <2>1, <3>1, Threads DEF ThreadsOK, Senders, Sends, Count
    <3>3. Kept /\ RoomOK'
      BY <2>2, <3>1, <3>2, CountNat, ConstantsAssumption DEF Kept, RoomOK
    <3> QED
      BY <2>1, <2>2, <3>3 DEF TypeOK, ThreadsOK, Kept, context, miner, history, line
  <2>3. CASE /\ Goto(t, "rest", None)
             /\ apart' = (apart \/ val[t] # None)
             /\ crossed' = (crossed \/ val[t] # None)
    <3>1. Kept
      BY <1>a, <2>1, <2>3, GotoKept DEF Step, Holding
    <3>2. apart' \in BOOLEAN /\ crossed' \in BOOLEAN
      BY <2>3, Zenon DEF TypeOK
    <3> QED
      BY <2>1, <3>1, <3>2 DEF TypeOK, ThreadsOK, Kept, context, miner, line
  <2> QED
    BY <1>8, <2>2, <2>3 DEF Notify
<1>9. CASE Send(t)
  <2>1. pc[t] = "send" /\ Goto(t, "rest", None) /\ UNCHANGED <<context, ripe, share, wire, miner, history>>
    BY <1>9 DEF Send, At
  <2>2. ThreadsOK' /\ Senders' = Senders - 1
    <3>1. ThreadsOK' /\ Senders' = Senders - Sends(t) /\ Sends(t) = 1
      BY <2>1, GotoTyped, SendersBound DEF Step, Holding, Sends
    <3> QED
      BY <3>1
  <2>3. sendQueue' \in Seq(Given) /\ others' \in Nat /\ Count' = Count + 1
    <3>1. CASE val[t] = None
      BY <1>9, <3>1, CountNat DEF Send, TypeOK, Count
    <3>2. CASE val[t] # None
      <4>1. val[t] \in Given /\ sendQueue' = Append(sendQueue, val[t]) /\ others' = others
        BY <1>9, <3>2 DEF Send, TypeOK
      <4>2. sendQueue' \in Seq(Given) /\ Len(sendQueue') = Len(sendQueue) + 1
        BY <4>1, AppendProperties DEF TypeOK
      <4> QED
        BY <4>1, <4>2, CountNat DEF TypeOK, Count
    <3> QED
      BY <3>1, <3>2
  <2>4. Kept
    <3>1. Senders \in 0..3 /\ Senders' \in 0..3
      BY <2>2, SendersBound, Threads DEF ThreadsOK, Senders, Sends
    <3>2. Count' + Senders' <= QueueCapacity + 2 /\ Count' <= QueueCapacity + 2
      <4> DEFINE n == Count  m == Senders  k == QueueCapacity + 2
      <4>1. n \in Nat /\ m \in Nat /\ k \in Nat /\ n + m <= k /\ Count' = n + 1 /\ Senders' = m - 1 /\ m - 1 >= 0
        BY <2>2, <2>3, <3>1, CountNat, ConstantsAssumption DEF RoomOK
      <4> HIDE DEF n, m, k
      <4>2. (n + 1) + (m - 1) <= k /\ n + 1 <= k
        BY <4>1
      <4> QED
        BY <4>1, <4>2 DEF k
    <3> QED
      BY <2>2, <3>2 DEF Kept, RoomOK
  <2> QED
    BY <2>1, <2>3, <2>4 DEF TypeOK, ThreadsOK, Kept, context, miner, history
<1> QED
  BY <1>1, <1>2, <1>3, <1>4, <1>5, <1>6, <1>7, <1>8, <1>9 DEF Apply

LEMMA OthersTyped ==
  ASSUME IInv,
         \/ \E t \in {"request", "idle"}, d \in Difficulty : Retarget(t, d)
         \/ OnNewJob
         \/ \E t \in Posting : Post(t)
         \/ TakeOther
         \/ Transmit
         \/ \E kind \in {"configure", "subscribe", "authorize", "suggest", "share"},
               d \in Given \cup {None} : Ask(kind, d)
         \/ Learn
         \/ Settle
  PROVE  IInv'
<1> USE DEF IInv
<1>a. IInv
  OBVIOUS
<1>1. ASSUME NEW t \in {"request", "idle"}, NEW d \in Difficulty, Retarget(t, d)
      PROVE  IInv'
  <2>1. Kept
    <3>1. t \in Thread /\ Goto(t, "check", None) /\ UNCHANGED <<sendQueue, others>>
          /\ (pc[t] # "rest" \/ t = "idle")
      BY <1>1 DEF Retarget, Thread, At, line
    <3> QED
      BY <1>a, <3>1, GotoKept DEF Step, Holding
  <2>2. share' \in Given \cup {None}
    BY <1>1 DEF Retarget, TypeOK
  <2> QED
    BY <1>1, <2>1, <2>2 DEF Retarget, TypeOK, ThreadsOK, Kept, miner, line
<1>2. CASE OnNewJob
  <2>1. Kept
    <3>1. "job" \in Thread /\ Goto("job", "check", None) /\ UNCHANGED <<sendQueue, others>>
      BY <1>2 DEF OnNewJob, Thread, line
    <3> QED
      BY <1>a, <3>1, GotoKept DEF Step, Holding
  <2> QED
    BY <1>2, <2>1 DEF OnNewJob, TypeOK, ThreadsOK, Kept, context, miner, history, line
<1>3. ASSUME NEW kind \in {"configure", "subscribe", "authorize", "suggest", "share"},
             NEW d \in Given \cup {None}, Ask(kind, d)
      PROVE  IInv'
  <2>1. [kind |-> kind, diff |-> d] \in Request
    BY <1>3 DEF Request
  <2>2. toPool' \in Seq(Request) /\ Len(toPool') <= MaxRequests
    <3>1. Len(toPool) \in Nat /\ Len(toPool) < MaxRequests
      BY <1>3, LenProperties, ConstantsAssumption DEF Ask, TypeOK
    <3> QED
      BY <1>3, <2>1, <3>1, AppendProperties, ConstantsAssumption DEF Ask, TypeOK
  <2>3. asked' \subseteq {"subscribe", "authorize"}
    BY <1>3 DEF Ask, TypeOK
  <2>4. UNCHANGED <<context, ripe, pc, val, share, line, works, history>>
    BY <1>3 DEF Ask
  <2>5. Kept
    BY <1>a, <2>4, StillKept DEF line
  <2> QED
    BY <2>2, <2>3, <2>4, <2>5 DEF TypeOK, ThreadsOK, Kept, context, history, line
<1>4. CASE Learn /\ ~Disconnect
  <2>1. UNCHANGED <<context, ripe, pc, val, share, sendQueue, others, toPool, asked, history>>
        /\ works' = wire /\ wire' = None
    BY <1>4 DEF Learn
  <2>2. Kept
    BY <1>a, <2>1, StillKept
  <2> QED
    BY <2>1, <2>2 DEF TypeOK, ThreadsOK, Kept, context, history
<1>5. CASE Settle
  <2>1. Kept
    BY <1>5, <1>a, StillKept DEF Settle, line
  <2>2. apart' \in BOOLEAN /\ crossed' \in BOOLEAN
    BY <1>5, Zenon DEF Settle, TypeOK
  <2> QED
    BY <1>5, <2>1, <2>2 DEF Settle, TypeOK, ThreadsOK, Kept, context, miner, line
<1>6. ASSUME NEW t \in Posting, Post(t)
      PROVE  IInv'
  <2>1. Kept
    <3>1. t \in Thread /\ Goto(t, "notify", None) /\ (Free \/ t \in {"idle", "job"})
          /\ UNCHANGED <<sendQueue, others>>
      BY <1>6, ConstantsAssumption DEF Post, Thread, line
    <3> QED
      BY <1>a, <3>1, GotoKept DEF Step, Holding
  <2> QED
    BY <1>6, <2>1 DEF Post, TypeOK, ThreadsOK, Kept, context, miner, history, line
<1>7. CASE TakeOther /\ ~Disconnect
  <2>1. UNCHANGED <<context, ripe, pc, val, share, sendQueue, wire, miner, history>>
        /\ others > 0 /\ others' = others - 1
    BY <1>7 DEF TakeOther
  <2>2. others' \in Nat /\ Count' = Count - 1
    BY <2>1, CountNat DEF Count
  <2>3. Kept
    <3>1. UNCHANGED <<pc, val>> /\ Count' \in Nat
      BY <2>1, <2>2, CountNat DEF Count
    <3> QED
      BY <1>a, <2>2, <3>1, FewerKept
  <2> QED
    BY <2>1, <2>2, <2>3 DEF TypeOK, ThreadsOK, Kept, context, miner, history
<1>8. CASE Transmit
  <2>1. UNCHANGED <<context, ripe, pc, val, share, others, miner, history>>
        /\ sendQueue # <<>> /\ wire' = Head(sendQueue) /\ sendQueue' = Tail(sendQueue)
    BY <1>8 DEF Transmit
  <2>2. /\ Head(sendQueue) \in Given
        /\ Tail(sendQueue) \in Seq(Given)
        /\ Len(Tail(sendQueue)) = Len(sendQueue) - 1
    BY <2>1, HeadTailProperties DEF TypeOK
  <2>3. Count' = Count - 1
    BY <2>1, <2>2, CountNat DEF Count
  <2>4. Kept
    <3>1. UNCHANGED <<pc, val>> /\ Count' \in Nat
      BY <2>1, <2>2, CountNat DEF Count
    <3> QED
      BY <1>a, <2>3, <3>1, FewerKept
  <2> QED
    BY <2>1, <2>2, <2>4 DEF TypeOK, ThreadsOK, Kept, context, miner, history
<1>9. CASE Disconnect
  BY <1>9, DisconnectTyped
<1> QED
  BY <1>1, <1>2, <1>3, <1>4, <1>5, <1>6, <1>7, <1>8, <1>9

LEMMA InitTyped == Init => IInv
<1>1. <<>> \in Seq(Request) /\ <<>> \in Seq(Given) /\ Len(<<>>) = 0
  BY EmptySeq
<1>2. Base \in Given /\ 0 <= MaxRequests /\ 0 <= QueueCapacity + 2
  BY ConstantsAssumption DEF Given
<1> SUFFICES ASSUME Init
             PROVE  IInv
  OBVIOUS
<1>3. ThreadsOK
  BY Threads DEF Init, ThreadsOK, Holding, Step
<1>4. Count = 0 /\ Senders = 0
  BY <1>1, Threads DEF Init, Count, Senders, Sends
<1>5. TypeOK
  BY <1>1, <1>2, <1>3, <1>4 DEF Init, TypeOK, ThreadsOK
<1> QED
  BY <1>2, <1>3, <1>4, <1>5 DEF IInv, RoomOK

LEMMA NextTyped == IInv /\ [Next]_vars => IInv'
<1> SUFFICES ASSUME IInv, [Next]_vars
             PROVE  IInv'
  OBVIOUS
<1>1. CASE Next
  BY <1>1, HandleTyped, ApplyTyped, OthersTyped, DisconnectTyped DEF Next
<1>2. CASE UNCHANGED vars
  <2>1. Kept
    BY <1>2, StillKept DEF vars, line
  <2> QED
    BY <1>2, <2>1 DEF vars, context, miner, history, line, IInv, TypeOK, ThreadsOK, Kept
<1> QED
  BY <1>1, <1>2

LEMMA Typed == Spec => []IInv
BY InitTyped, NextTyped, PTL DEF Spec

(* Types hold in every reachable state.  Each thread looks at the length of the   *)
(* send queue before it puts its message there, and another one may do the same   *)
(* in between: the queue exceeds its capacity by at most two messages, for there  *)
(* are three threads and the last one to look has seen room.  And whatever the    *)
(* threads find in the pending field, the difficulty of a connection is one that  *)
(* was asked for or computed, or zero.                                            *)
THEOREM TypeCorrect == Spec => []TypeOK
<1>1. IInv => TypeOK
  BY DEF IInv
<1> QED
  BY <1>1, Typed, PTL

-----------------------------------------------------------------------------
(* Requests in order: what the miner sent before its subscription was handled.   *)

Judging == {"compare", "credit", "accept", "refuse"}

(* Shares come after the subscription, which comes after the configuration, and  *)
(* there is one of them.                                                         *)
RequestsOK ==
  /\ \A i \in DOMAIN toPool : toPool[i].kind \in {"subscribe", "share"} => "subscribe" \in asked
  /\ \A i, k \in DOMAIN toPool :
       i < k /\ toPool[i].kind \in {"subscribe", "share"}
         => toPool[k].kind \notin {"configure", "subscribe"}
  /\ Subscribed => \A i \in DOMAIN toPool : toPool[i].kind # "configure"
  /\ pc["request"] \in Judging => Subscribed

LEMMA TailElements ==
  ASSUME NEW S, NEW seq \in Seq(S), seq # <<>>
  PROVE  /\ Tail(seq) \in Seq(S) /\ 1 \in DOMAIN seq /\ Head(seq) = seq[1]
         /\ DOMAIN seq \subseteq Nat /\ DOMAIN Tail(seq) \subseteq Nat \ {0}
         /\ \A i \in DOMAIN Tail(seq) : i + 1 \in DOMAIN seq /\ Tail(seq)[i] = seq[i + 1]
         /\ \A i \in DOMAIN seq : i = 1 \/ (i - 1 \in DOMAIN Tail(seq) /\ seq[i] = Tail(seq)[i - 1])
<1>1. /\ Tail(seq) \in Seq(S)
      /\ Len(Tail(seq)) = Len(seq) - 1
      /\ \A i \in 1..Len(Tail(seq)) : Tail(seq)[i] = seq[i + 1]
  BY HeadTailProperties
<1>2. Len(seq) \in Nat \ {0} /\ Head(seq) = seq[1]
  BY EmptySeq, LenProperties
<1>3. DOMAIN seq = 1..Len(seq) /\ DOMAIN Tail(seq) = 1..Len(Tail(seq))
  BY <1>1, LenProperties, Zenon
<1> QED
  BY <1>1, <1>2, <1>3

LEMMA AppendElements ==
  ASSUME NEW S, NEW seq \in Seq(S), NEW e \in S
  PROVE  /\ Len(seq) \in Nat /\ DOMAIN seq = 1..Len(seq)
         /\ Append(seq, e) # <<>> /\ Len(Append(seq, e)) = Len(seq) + 1
         /\ DOMAIN Append(seq, e) = 1..Len(seq) + 1
         /\ \A i \in 1..Len(seq) : Append(seq, e)[i] = seq[i]
         /\ Append(seq, e)[Len(seq) + 1] = e
<1>1. /\ Append(seq, e) \in Seq(S)
      /\ Append(seq, e) # <<>>
      /\ Len(Append(seq, e)) = Len(seq) + 1
      /\ \A i \in 1..Len(seq) : Append(seq, e)[i] = seq[i]
      /\ Append(seq, e)[Len(seq) + 1] = e
  BY AppendProperties
<1>2. Len(seq) \in Nat /\ DOMAIN seq = 1..Len(seq)
  BY LenProperties, Zenon
<1>3. DOMAIN Append(seq, e) = 1..Len(Append(seq, e))
  BY <1>1, LenProperties, Zenon
<1> QED
  BY <1>1, <1>2, <1>3

LEMMA GotoEffect ==
  ASSUME ThreadsOK, NEW t \in Thread, NEW step, NEW d, Goto(t, step, d)
  PROVE  /\ pc'[t] = step /\ val'[t] = d
         /\ \A u \in Thread : u # t => pc'[u] = pc[u] /\ val'[u] = val[u]
BY DEF ThreadsOK, Goto

LEMMA ReceiveOrder ==
  ASSUME IInv, RequestsOK, NEW kind, Receive(kind), asked' = asked,
         kind = "share" \/ pc'["request"] \notin Judging
  PROVE  RequestsOK'
<1>1. /\ toPool \in Seq(Request) /\ toPool # <<>> /\ toPool' = Tail(toPool)
  BY DEF IInv, TypeOK, Receive
<1>2. /\ 1 \in DOMAIN toPool /\ toPool[1].kind = kind
      /\ DOMAIN toPool \subseteq Nat /\ DOMAIN toPool' \subseteq Nat \ {0}
      /\ \A i \in DOMAIN toPool' : i + 1 \in DOMAIN toPool /\ toPool'[i] = toPool[i + 1]
      /\ \A i \in DOMAIN toPool : i = 1 \/ (i - 1 \in DOMAIN toPool' /\ toPool[i] = toPool'[i - 1])
  <2>1. toPool[1].kind = kind
    BY <1>1, TailElements DEF Receive
  <2> QED
    BY <1>1, <2>1, TailElements
<1>3. \A i \in DOMAIN toPool' : toPool'[i].kind \in {"subscribe", "share"} => "subscribe" \in asked'
  BY <1>2 DEF RequestsOK
<1>4. \A i, k \in DOMAIN toPool' :
        i < k /\ toPool'[i].kind \in {"subscribe", "share"} => toPool'[k].kind \notin {"configure", "subscribe"}
  <2>1. \A i, k \in DOMAIN toPool' : i < k => i + 1 < k + 1
    BY <1>2
  <2> QED
    BY <1>2, <2>1 DEF RequestsOK
<1>5. kind \in {"subscribe", "share"} =>
        /\ "subscribe" \in asked
        /\ \A i \in DOMAIN toPool' : toPool'[i].kind \notin {"configure", "subscribe"}
  <2>1. \A i \in DOMAIN toPool' : 1 < i + 1
    BY <1>2
  <2> QED
    BY <1>2, <2>1 DEF RequestsOK
<1>6. kind # "subscribe" /\ Subscribed' => Subscribed
  BY <1>2 DEF Subscribed
<1>7. Subscribed' => \A i \in DOMAIN toPool' : toPool'[i].kind # "configure"
  BY <1>2, <1>5, <1>6 DEF RequestsOK
<1>8. pc'["request"] \in Judging => Subscribed'
  BY <1>5 DEF Subscribed
<1> QED
  BY <1>3, <1>4, <1>7, <1>8 DEF RequestsOK

LEMMA AskOrder ==
  ASSUME IInv, RequestsOK, NEW kind \in {"configure", "subscribe", "authorize", "suggest", "share"},
         NEW d \in Given \cup {None}, Ask(kind, d)
  PROVE  RequestsOK' /\ (Subscribed' => Subscribed)
<1> DEFINE request == [kind |-> kind, diff |-> d]
<1>1. /\ toPool \in Seq(Request) /\ toPool' = Append(toPool, request) /\ pc' = pc
      /\ asked \subseteq {"subscribe", "authorize"}
      /\ asked' = asked \cup ({kind} \cap {"subscribe", "authorize"})
      /\ request \in Request /\ request.kind = kind
  BY DEF IInv, TypeOK, Ask, Request
<1>2. /\ kind = "configure" => asked = {}
      /\ kind = "subscribe" => "subscribe" \notin asked
      /\ kind = "share" => "subscribe" \in asked
  BY DEF Ask
<1> HIDE DEF request
<1>3. /\ Len(toPool) \in Nat /\ DOMAIN toPool = 1..Len(toPool)
      /\ DOMAIN toPool' = 1..Len(toPool) + 1
      /\ \A i \in 1..Len(toPool) : toPool'[i] = toPool[i]
      /\ toPool'[Len(toPool) + 1] = request
  BY <1>1, AppendElements
<1>4. \A i \in DOMAIN toPool' : \/ i \in DOMAIN toPool /\ toPool'[i] = toPool[i]
                                \/ i = Len(toPool) + 1 /\ toPool'[i] = request
  BY <1>3
<1>5. \A i \in DOMAIN toPool' : toPool'[i].kind \in {"subscribe", "share"} => "subscribe" \in asked'
  BY <1>1, <1>2, <1>4 DEF RequestsOK
<1>6. \A i, k \in DOMAIN toPool' :
        i < k /\ toPool'[i].kind \in {"subscribe", "share"} => toPool'[k].kind \notin {"configure", "subscribe"}
  <2>1. \A i, k \in DOMAIN toPool' : i < k => i \in DOMAIN toPool /\ toPool'[i] = toPool[i]
    BY <1>3
  <2> QED
    BY <1>1, <1>2, <1>4, <2>1 DEF RequestsOK
<1>7. Subscribed' => Subscribed
  <2>1. \A i \in DOMAIN toPool : i \in DOMAIN toPool' /\ toPool'[i] = toPool[i]
    BY <1>3
  <2>2. Len(toPool) + 1 \in DOMAIN toPool'
    BY <1>3
  <2> QED
    BY <1>1, <1>3, <2>1, <2>2 DEF Subscribed
<1>8. Subscribed' => \A i \in DOMAIN toPool' : toPool'[i].kind # "configure"
  BY <1>1, <1>2, <1>4, <1>7 DEF RequestsOK, Subscribed
<1>9. pc'["request"] \in Judging => Subscribed'
  BY <1>1, <1>2, <1>4 DEF RequestsOK, Subscribed
<1> QED
  BY <1>5, <1>6, <1>7, <1>8, <1>9 DEF RequestsOK

LEMMA SameRequests ==
  ASSUME RequestsOK, UNCHANGED <<toPool, asked>>,
         pc'["request"] \in Judging => pc["request"] \in Judging
  PROVE  RequestsOK' /\ (Subscribed' => Subscribed)
BY DEF RequestsOK, Subscribed

LEMMA EmptyRequests ==
  ASSUME toPool' = <<>>, asked' = {}, pc'["request"] = "rest"
  PROVE  RequestsOK' /\ ~Subscribed'
BY DEF RequestsOK, Subscribed, Judging

LEMMA NextRequests == IInv /\ RequestsOK /\ [Next]_vars => RequestsOK'
<1>1. SUFFICES ASSUME IInv, RequestsOK, [Next]_vars PROVE RequestsOK'
  OBVIOUS
<1>2. ThreadsOK /\ "request" \in Thread
  BY <1>1 DEF IInv, Thread
<1>3. CASE ConfigureMinimumDiff
  <2>1. Receive("configure") /\ asked' = asked /\ pc' = pc /\ pc["request"] = "rest"
    BY <1>3 DEF ConfigureMinimumDiff, Receive, Free, At
  <2> QED
    BY <1>1, <2>1, ReceiveOrder DEF Judging
<1>4. CASE OnSubscribe
  <2>1. Receive("subscribe") /\ asked' = asked /\ pc'["request"] = "announce"
    BY <1>2, <1>4, GotoEffect DEF OnSubscribe
  <2> QED
    BY <1>1, <2>1, ReceiveOrder DEF Judging
<1>5. CASE OnAuthorize
  <2>1. Receive("authorize") /\ asked' = asked /\ pc'["request"] = "static"
    BY <1>2, <1>5, GotoEffect DEF OnAuthorize
  <2> QED
    BY <1>1, <2>1, ReceiveOrder DEF Judging
<1>6. CASE OnSuggestDifficulty
  <2>1. Receive("suggest") /\ asked' = asked /\ pc["request"] = "rest" /\ "suggest" \in Thread
    BY <1>6, Threads DEF OnSuggestDifficulty, Receive, Free, At
  <2>2. pc'["request"] = "rest"
    BY <1>2, <1>6, <2>1, GotoEffect DEF OnSuggestDifficulty
  <2> QED
    BY <1>1, <2>1, <2>2, ReceiveOrder DEF Judging
<1>7. CASE OnSubmit
  <2>1. Receive("share") /\ asked' = asked
    BY <1>7 DEF OnSubmit
  <2> QED
    BY <1>1, <2>1, ReceiveOrder
<1>8. ASSUME NEW kind \in {"configure", "subscribe", "authorize", "suggest", "share"},
             NEW d \in Given \cup {None}, Ask(kind, d)
      PROVE  RequestsOK'
  BY <1>1, <1>8, AskOrder
<1>9. CASE Disconnect
  BY <1>2, <1>9, EmptyRequests DEF Disconnect
<1>10. CASE StaticDiff \/ Compare \/ CreditPrevious \/ Respond
  <2>1. UNCHANGED <<toPool, asked>>
    BY <1>10 DEF StaticDiff, Compare, CreditPrevious, Respond, miner
  <2>2. CASE StaticDiff
    BY <1>1, <1>2, <2>1, <2>2, GotoEffect, SameRequests DEF StaticDiff, Judging
  <2>3. CASE Compare \/ CreditPrevious \/ Respond
    <3>1. pc["request"] \in Judging
      BY <2>3 DEF Compare, CreditPrevious, Respond, At, Judging
    <3> QED
      BY <1>1, <2>1, <3>1, SameRequests
  <2> QED
    BY <1>10, <2>2, <2>3
<1>11. ASSUME NEW t \in Thread, Apply(t), ~Disconnect
       PROVE  RequestsOK'
  <2>1. UNCHANGED <<toPool, asked>>
    BY <1>11 DEF Apply, HasPending, TakeValue, Remember, Assign, Clear, Announce, Notify, Send, miner
  <2>2. \E step \in Step \ Judging : \E d : Goto(t, step, d)
    BY <1>11, Zenon DEF Apply, HasPending, TakeValue, Remember, Assign, Clear, Announce, Notify, Send, Step, Judging
  <2>3. PICK step \in Step \ Judging : \E d : Goto(t, step, d)
    BY <2>2
  <2>4. pc'["request"] \in Judging => pc["request"] \in Judging
    BY <1>2, <2>3, GotoEffect
  <2> QED
    BY <1>1, <2>1, <2>4, SameRequests
<1>12. ASSUME NEW t \in Thread, NEW d \in Difficulty, Retarget(t, d)
       PROVE  RequestsOK'
  <2>1. UNCHANGED <<toPool, asked>> /\ Goto(t, "check", None)
    BY <1>12 DEF Retarget, miner
  <2>2. pc'["request"] \in Judging => pc["request"] \in Judging
    BY <1>2, <2>1, GotoEffect DEF Judging
  <2> QED
    BY <1>1, <2>1, <2>2, SameRequests
<1>13. CASE OnNewJob \/ ((Learn \/ TakeOther) /\ ~Disconnect) \/ Transmit \/ Settle \/ UNCHANGED vars
  <2>1. UNCHANGED <<toPool, asked>>
    BY <1>13 DEF OnNewJob, Learn, TakeOther, Transmit, Settle, vars, miner
  <2>2. pc'["request"] = pc["request"]
    <3>1. "job" \in Thread
      BY DEF Thread
    <3> QED
      BY <1>2, <1>13, <3>1, GotoEffect DEF OnNewJob, Learn, TakeOther, Transmit, Settle, vars
  <2> QED
    BY <1>1, <2>1, <2>2, SameRequests
<1>14. ASSUME NEW t \in Posting, Post(t)
       PROVE  RequestsOK'
  <2>1. UNCHANGED <<toPool, asked>> /\ Goto(t, "notify", None) /\ t \in Thread
    BY <1>14, ConstantsAssumption DEF Post, miner, Thread
  <2>2. pc'["request"] \in Judging => pc["request"] \in Judging
    BY <1>2, <2>1, GotoEffect DEF Judging
  <2> QED
    BY <1>1, <2>1, <2>2, SameRequests
<1>15. {"request", "idle"} \subseteq Thread
  BY DEF Thread
<1> QED
  BY <1>1, <1>3, <1>4, <1>5, <1>6, <1>7, <1>8, <1>9, <1>10, <1>11, <1>12, <1>13, <1>14, <1>15
     DEF Next, Handle

-----------------------------------------------------------------------------
(* One retarget at a time, and at most two threads that apply it.                *)

Busy == {"check", "take", "remember", "assign", "clear"}
Holder == {"remember", "assign"}
Tells(t) == pc[t] = "announce" \/ Carries(t)

(* While a retarget may start nothing is being applied; a pending difficulty is  *)
(* in the hands of a thread that will clear it, and once it is cleared only one  *)
(* thread may still be about to apply it.                                        *)
RoundOK ==
  /\ ripe => /\ pending = None
             /\ \A t \in Thread : pc[t] \notin Busy
  /\ pending # None => \E t \in Thread : pc[t] \in Busy
  /\ pending = None => \A t, u \in Thread : pc[t] \in Busy /\ pc[u] \in Busy => t = u
  /\ ~(pc["request"] \in Busy /\ pc["idle"] \in Busy)
  /\ pc["suggest"] \notin Busy
  /\ \A t \in Thread : pc[t] \in {"rememberOwn", "assignOwn"} => apart
  /\ \A t \in Thread : pc[t] = "assign" => applied >= 1
  /\ \A t, u \in Thread : pc[t] = "assign" /\ pc[u] = "assign" => t = u \/ applied >= 2

(* The steps of the request handler that apply nothing.                          *)
Quieter == {"rest", "static", "compare", "credit", "accept", "refuse"}

LEMMA HandleRound ==
  ASSUME IInv, RoundOK, Handle
  PROVE  /\ RoundOK'
         /\ pc["request"] \in Quieter
         /\ \/ pc'["request"] \in Quieter
            \/ apart' = TRUE /\ pc'["request"] \in {"announce", "rememberOwn"}
         /\ \A u \in Thread : u # "request" =>
              \/ pc'[u] = pc[u] /\ val'[u] = val[u]
              \/ u = "suggest" /\ pc[u] = "rest" /\ pc'[u] = "rememberOwn" /\ apart' = TRUE
         /\ UNCHANGED <<pending, ripe, applied, sendQueue, wire, works>>
         /\ (apart => apart')
<1>1. /\ pc["request"] \in Quieter
      /\ \/ pc'["request"] \in Quieter
         \/ apart' = TRUE /\ pc'["request"] \in {"announce", "rememberOwn"}
      /\ \A u \in Thread : u # "request" =>
           \/ pc'[u] = pc[u] /\ val'[u] = val[u]
           \/ u = "suggest" /\ pc[u] = "rest" /\ pc'[u] = "rememberOwn" /\ apart' = TRUE
      /\ UNCHANGED <<pending, ripe, applied, sendQueue, wire, works>>
      /\ (apart => apart')
  <2> USE Threads DEF IInv, Quieter, line
  <2>1. CASE ConfigureMinimumDiff
    BY <2>1 DEF ConfigureMinimumDiff, Receive, Free, At
  <2>2. CASE OnSubscribe
    BY <2>2, GotoEffect DEF OnSubscribe, Receive, Free, At, context
  <2>3. CASE OnAuthorize
    BY <2>3, GotoEffect DEF OnAuthorize, Receive, Free, At, history
  <2>4. CASE StaticDiff
    BY <2>4, GotoEffect DEF StaticDiff, At, miner
  <2>5. CASE OnSuggestDifficulty
    BY <2>5, GotoEffect DEF OnSuggestDifficulty, Receive, Free, At, context
  <2>6. CASE OnSubmit
    BY <2>6, GotoEffect DEF OnSubmit, Receive, Free, At, context, history
  <2>7. CASE Compare
    BY <2>7, GotoEffect DEF Compare, At, context, history, miner
  <2>8. CASE CreditPrevious
    BY <2>8, GotoEffect DEF CreditPrevious, At, context, history, miner
  <2>9. CASE Respond
    BY <2>9, GotoEffect DEF Respond, At, context, history, miner
  <2> QED
    BY <2>1, <2>2, <2>3, <2>4, <2>5, <2>6, <2>7, <2>8, <2>9 DEF Handle
<1>2. \A u \in Thread : /\ pc'[u] \in Busy <=> pc[u] \in Busy
                        /\ pc'[u] = "assign" <=> pc[u] = "assign"
  BY <1>1 DEF Busy, Quieter
<1>3. "request" \in Thread /\ "suggest" \in Thread /\ "idle" \in Thread /\ "job" \in Thread
  BY Threads
<1>4. \A u \in Thread : pc'[u] \in {"rememberOwn", "assignOwn"} => apart'
  BY <1>1 DEF RoundOK, Quieter
<1> QED
  BY <1>1, <1>2, <1>3, <1>4 DEF RoundOK

(* What the steps of Apply do to the thread that takes them.                     *)
LEMMA ApplyEffect ==
  ASSUME IInv, NEW t \in Thread, Apply(t), ~Disconnect
  PROVE  /\ \A u \in Thread : u # t => pc'[u] = pc[u] /\ val'[u] = val[u]
         /\ UNCHANGED <<vardiff, ripe, share, toPool, asked, works, wire>>
         /\ \/ /\ pc[t] = "check" /\ pc'[t] = IF pending # None THEN "take" ELSE "rest"
               /\ UNCHANGED <<difficulty, previous, pending, sendQueue, apart, applied, crossed>>
            \/ /\ pc[t] = "take" /\ pc'[t] = "remember"
               /\ val'[t] = IF pending = None THEN 0 ELSE pending
               /\ UNCHANGED <<difficulty, previous, pending, sendQueue, apart, applied, crossed>>
            \/ /\ pc[t] = "take" /\ pc'[t] = "rest" /\ pending = None
               /\ UNCHANGED <<difficulty, previous, pending, sendQueue, apart, applied, crossed>>
            \/ /\ pc[t] = "remember" /\ pc'[t] = "assign" /\ val'[t] = val[t]
               /\ previous' = difficulty /\ applied' = applied + 1
               /\ UNCHANGED <<difficulty, pending, sendQueue, apart, crossed>>
            \/ /\ pc[t] = "rememberOwn" /\ pc'[t] = "assignOwn" /\ previous' = difficulty
               /\ UNCHANGED <<difficulty, pending, sendQueue, apart, applied, crossed>>
            \/ /\ pc[t] = "assign" /\ pc'[t] = "clear" /\ difficulty' = val[t]
               /\ crossed' = (crossed \/ Crosses(t, val[t]))
               /\ UNCHANGED <<previous, pending, sendQueue, apart, applied>>
            \/ /\ pc[t] = "assignOwn" /\ pc'[t] = "announce" /\ difficulty' = val[t]
               /\ crossed' = (crossed \/ Crosses(t, val[t]))
               /\ UNCHANGED <<previous, pending, sendQueue, apart, applied>>
            \/ /\ pc[t] = "clear" /\ pc'[t] = "announce" /\ pending' = None
               /\ UNCHANGED <<difficulty, previous, sendQueue, apart, applied, crossed>>
            \/ /\ pc[t] = "announce" /\ pc'[t] = "notify" /\ val'[t] = difficulty
               /\ crossed' = Crosses(t, difficulty)
               /\ UNCHANGED <<difficulty, previous, pending, sendQueue, apart, applied>>
            \/ /\ pc[t] = "notify" /\ pc'[t] = "send" /\ val'[t] = val[t]
               /\ UNCHANGED <<difficulty, previous, pending, sendQueue, apart, applied, crossed>>
            \/ /\ pc[t] = "notify" /\ pc'[t] = "rest"
               /\ apart' = (apart \/ val[t] # None) /\ crossed' = (crossed \/ val[t] # None)
               /\ UNCHANGED <<difficulty, previous, pending, sendQueue, applied>>
            \/ /\ pc[t] = "send" /\ pc'[t] = "rest" /\ val[t] = None
               /\ UNCHANGED <<difficulty, previous, pending, sendQueue, apart, applied, crossed>>
            \/ /\ pc[t] = "send" /\ pc'[t] = "rest" /\ val[t] \in Given
               /\ sendQueue' = Append(sendQueue, val[t])
               /\ UNCHANGED <<difficulty, previous, pending, apart, applied, crossed>>
<1> USE DEF IInv, At, line
<1>1. CASE HasPending(t)
  BY <1>1, GotoEffect DEF HasPending, context, miner, history
<1>2. CASE TakeValue(t)
  BY <1>2, GotoEffect DEF TakeValue, context, miner, history
<1>3. CASE Remember(t)
  BY <1>3, GotoEffect DEF Remember, miner
<1>4. CASE Assign(t)
  BY <1>4, GotoEffect DEF Assign, miner
<1>5. CASE Clear(t)
  BY <1>5, GotoEffect DEF Clear, miner, history
<1>6. CASE Announce(t)
  BY <1>6, GotoEffect DEF Announce, context, miner
<1>7. CASE Notify(t)
  BY <1>7, GotoEffect DEF Notify, context, miner, history
<1>8. CASE Send(t)
  <2>1. val[t] \in Given \cup {None}
    BY DEF TypeOK
  <2> QED
    BY <1>8, <2>1, GotoEffect DEF Send, context, miner, history
<1> QED
  BY <1>1, <1>2, <1>3, <1>4, <1>5, <1>6, <1>7, <1>8 DEF Apply

LEMMA ApplyRound ==
  ASSUME IInv, RoundOK, NEW t \in Thread, Apply(t), ~Disconnect
  PROVE  RoundOK'
<1> USE DEF Busy
<1>1. /\ \A u \in Thread : u # t => pc'[u] = pc[u]
      /\ ripe' = ripe /\ (apart => apart') /\ applied \in Nat /\ applied' \in {applied, applied + 1}
  BY ApplyEffect DEF IInv, TypeOK
<1>2. "request" \in Thread /\ "suggest" \in Thread /\ "idle" \in Thread /\ "job" \in Thread
      /\ \A u \in Thread : u \in {"request", "suggest", "idle", "job"}
  BY Threads
<1>3. pc[t] \notin Busy => pc'[t] \notin Busy
  BY ApplyEffect
<1>4. pc[t] \in Busy => ~ripe
  BY DEF RoundOK
<1>5. ripe' => pending' = None /\ \A u \in Thread : pc'[u] \notin Busy
  <2>1. pending' = pending \/ pending' = None
    BY ApplyEffect
  <2> QED
    BY <1>1, <1>3, <2>1 DEF RoundOK
<1>6. pending' # None => \E u \in Thread : pc'[u] \in Busy
  <2>1. SUFFICES ASSUME pending' # None PROVE \E u \in Thread : pc'[u] \in Busy
    OBVIOUS
  <2>2. pending # None /\ (pc[t] \in Busy => pc'[t] \in Busy)
    BY <2>1, ApplyEffect
  <2> QED
    BY <1>1, <2>2 DEF RoundOK
<1>7. pending' = None => \A u, v \in Thread : pc'[u] \in Busy /\ pc'[v] \in Busy => u = v
  <2>1. CASE pending = None
    BY <1>1, <1>3, <2>1 DEF RoundOK
  <2>2. CASE pending # None /\ pending' = None
    <3>1. pc[t] \in Busy /\ pc'[t] \notin Busy
      BY <2>2, ApplyEffect
    <3> QED
      BY <1>1, <1>2, <3>1 DEF RoundOK
  <2> QED
    BY <2>1, <2>2
<1>8. ~(pc'["request"] \in Busy /\ pc'["idle"] \in Busy) /\ pc'["suggest"] \notin Busy
  BY <1>1, <1>2, <1>3 DEF RoundOK
<1>9. \A u \in Thread : pc'[u] \in {"rememberOwn", "assignOwn"} => apart'
  <2>1. pc'[t] \in {"rememberOwn", "assignOwn"} => pc[t] = "rememberOwn"
    BY ApplyEffect
  <2> QED
    BY <1>1, <2>1 DEF RoundOK
<1>10. /\ \A u \in Thread : pc'[u] = "assign" => applied' >= 1
       /\ \A u, v \in Thread : pc'[u] = "assign" /\ pc'[v] = "assign" => u = v \/ applied' >= 2
  <2>1. pc'[t] = "assign" => applied' = applied + 1
    BY ApplyEffect
  <2> QED
    BY <1>1, <2>1 DEF RoundOK
<1> QED
  BY <1>5, <1>6, <1>7, <1>8, <1>9, <1>10 DEF RoundOK

LEMMA RetargetRound ==
  ASSUME IInv, RoundOK, NEW t \in {"request", "idle"}, NEW d \in Difficulty, Retarget(t, d)
  PROVE  RoundOK'
<1>1. /\ t \in Thread /\ "request" \in Thread /\ "idle" \in Thread /\ "job" \in Thread
      /\ ThreadsOK
  BY Threads DEF IInv
<1>2. /\ ripe /\ ripe' = FALSE /\ pending' = d /\ apart' = apart /\ Goto(t, "check", None)
  BY DEF Retarget
<1>3. /\ pc'[t] = "check"
      /\ \A u \in Thread : u # t => pc'[u] = pc[u]
  BY <1>1, <1>2, GotoEffect
<1>4. \A u \in Thread : pc[u] \notin Busy
  BY <1>2 DEF RoundOK
<1>5. d # None
  BY ConstantsAssumption DEF None
<1>6. \A u \in Thread : pc'[u] \in Busy => u = t
  BY <1>3, <1>4
<1>7. \A u \in Thread : pc'[u] \in {"rememberOwn", "assignOwn"} => apart'
  BY <1>2, <1>3 DEF RoundOK
<1>8. \A u \in Thread : pc'[u] # "assign"
  BY <1>3, <1>4 DEF Busy
<1>9. ~(pc'["request"] \in Busy /\ pc'["idle"] \in Busy) /\ pc'["suggest"] \notin Busy
  <2>1. "request" # "idle" /\ "suggest" \notin {"request", "idle"} /\ "suggest" \in Thread
    BY Threads
  <2> QED
    BY <1>1, <1>6, <2>1
<1> QED
  BY <1>1, <1>2, <1>3, <1>5, <1>6, <1>7, <1>8, <1>9 DEF RoundOK, Busy

LEMMA NextRound == IInv /\ RoundOK /\ [Next]_vars => RoundOK'
<1>1. SUFFICES ASSUME IInv, RoundOK, [Next]_vars PROVE RoundOK'
  OBVIOUS
<1>2. CASE Handle
  BY <1>1, <1>2, HandleRound
<1>3. CASE Disconnect
  BY <1>3, Threads DEF Disconnect, RoundOK, Busy
<1>4. ASSUME NEW t \in Thread, Apply(t), ~Disconnect
      PROVE  RoundOK'
  BY <1>1, <1>4, ApplyRound
<1>5. ASSUME NEW t \in {"request", "idle"}, NEW d \in Difficulty, Retarget(t, d)
      PROVE  RoundOK'
  BY <1>1, <1>5, RetargetRound
<1>6. CASE OnNewJob
  <2>1. /\ "job" \in Thread /\ "request" \in Thread /\ "idle" \in Thread /\ ThreadsOK
        /\ pc["job"] = "rest" /\ pending # None /\ Goto("job", "check", None)
        /\ UNCHANGED <<ripe, pending, apart, applied>>
    BY <1>1, <1>6, Threads DEF OnNewJob, At, IInv, context, history
  <2>2. /\ pc'["job"] = "check"
        /\ \A u \in Thread : u # "job" => pc'[u] = pc[u]
    BY <2>1, GotoEffect
  <2>3. \A u \in Thread : /\ pc[u] \in Busy => pc'[u] \in Busy
                          /\ pc'[u] = "assign" <=> pc[u] = "assign"
                          /\ pc'[u] \in {"rememberOwn", "assignOwn"} => pc[u] \in {"rememberOwn", "assignOwn"}
    BY <2>1, <2>2 DEF Busy
  <2>4. ~(pc'["request"] \in Busy /\ pc'["idle"] \in Busy) /\ pc'["suggest"] \notin Busy
    BY <1>1, <2>1, <2>2, Threads DEF RoundOK
  <2>5. ripe = FALSE
    BY <1>1, <2>1 DEF RoundOK, IInv, TypeOK
  <2> QED
    BY <1>1, <2>1, <2>2, <2>3, <2>4, <2>5 DEF RoundOK
<1>7. CASE Settle
  <2>1. \A t \in Thread : pc[t] = "rest" /\ pc'[t] = "rest"
    BY <1>7 DEF Settle, Quiet, Rest, At
  <2>2. pending = None /\ pending' = None
    BY <1>1, <1>7, <2>1 DEF Settle, RoundOK, Busy, context
  <2> QED
    BY <2>1, <2>2, Threads DEF RoundOK, Busy
<1>8. CASE ((Learn \/ TakeOther) /\ ~Disconnect) \/ Transmit \/ UNCHANGED vars \/
           \E kind \in {"configure", "subscribe", "authorize", "suggest", "share"},
              d \in Given \cup {None} : Ask(kind, d)
  <2>1. UNCHANGED <<pc, ripe, pending, apart, applied>>
    BY <1>8 DEF Learn, TakeOther, Transmit, Ask, vars, context, history
  <2> QED
    BY <1>1, <2>1 DEF RoundOK
<1>9. ASSUME NEW t \in Posting, Post(t)
      PROVE  RoundOK'
  <2>1. /\ t \in Thread /\ ThreadsOK /\ pc[t] = "rest" /\ Goto(t, "notify", None)
        /\ UNCHANGED <<ripe, pending, apart, applied>>
    BY <1>1, <1>9, ConstantsAssumption DEF Post, At, IInv, context, history, Thread
  <2>2. /\ pc'[t] = "notify"
        /\ \A u \in Thread : u # t => pc'[u] = pc[u]
    BY <2>1, GotoEffect
  <2>3. \A u \in Thread : /\ pc'[u] \in Busy <=> pc[u] \in Busy
                          /\ pc'[u] = "assign" <=> pc[u] = "assign"
                          /\ pc'[u] \in {"rememberOwn", "assignOwn"} => pc[u] \in {"rememberOwn", "assignOwn"}
    BY <2>1, <2>2 DEF Busy
  <2> QED
    BY <1>1, <2>1, <2>3, Threads DEF RoundOK
<1> QED
  BY <1>1, <1>2, <1>3, <1>4, <1>5, <1>6, <1>7, <1>8, <1>9 DEF Next

-----------------------------------------------------------------------------
(* From one settled connection to the next: a retarget and nothing else.         *)

(* Every difficulty a share may still come with, or already has.                 *)
MinerHas ==
  {works} \cup ({wire} \ {None}) \cup {sendQueue[i] : i \in DOMAIN sendQueue}
          \cup {toPool[i].diff : i \in {k \in DOMAIN toPool : toPool[k].kind = "share"}}

(* The difficulty the miner learns of last is met by the present one.            *)
LastTold == IF sendQueue # <<>> THEN sendQueue[Len(sendQueue)]
            ELSE IF wire # None THEN wire ELSE works
Told == LastTold >= difficulty

Undisturbed == Subscribed /\ apart = FALSE

(* Who takes the pending difficulty applies that one or, once it is cleared, at   *)
(* most the present one; what is announced is at least the present one; and until *)
(* the miner has been told, somebody is about to.                                *)
ChangeOK ==
  /\ works # None
  /\ ~ripe => vardiff = "used"
  /\ ripe => \A t \in Thread : ~Tells(t)
  /\ pending # None => \A t \in Thread :
       /\ pc[t] \in Holder => val[t] = pending
       /\ pc[t] = "clear" => difficulty = pending
       /\ ~Tells(t)
  /\ pending = None => \A t \in Thread : pc[t] \in Holder => val[t] <= difficulty
  /\ \A t \in Thread : Carries(t) => val[t] >= difficulty
  /\ \/ pending # None
     \/ \E t \in Thread : pc[t] \in Holder \cup {"clear"} \/ Tells(t)
     \/ Told

(* Every share meets the present difficulty ...                                  *)
Level ==
  /\ \A m \in MinerHas : m >= difficulty
  /\ pc["request"] \in Judging =>
       pc["request"] \in {"compare", "accept"} /\ share >= val["request"]

(* ... or, once the new one is set, the one before.                              *)
Changing ==
  /\ previous # None
  /\ \A m \in MinerHas : m >= difficulty \/ m >= previous
  /\ pc["request"] = "compare" => share >= val["request"] \/ share >= previous
  /\ pc["request"] = "credit" => share >= previous
  /\ pc["request"] = "accept" => share >= val["request"]
  /\ pc["request"] # "refuse"

Assigning == \E t \in Thread : pc[t] = "assign"

JudgedOK ==
  /\ ripe \/ applied = 0 => Level
  /\ ~ripe /\ applied = 1 /\ Assigning => Level /\ previous = difficulty
  /\ ~ripe /\ applied = 1 /\ ~Assigning => Changing

FairOK == Undisturbed => ChangeOK /\ JudgedOK

(* What the variables hold, as numbers.                                          *)
LEMMA Numbers ==
  ASSUME IInv
  PROVE  /\ difficulty \in Nat /\ Given \subseteq Nat
         /\ previous \in Nat \cup {None} /\ pending \in Nat \cup {None} /\ works \in Nat \cup {None}
         /\ \A t \in Thread : val[t] \in Nat \cup {None}
         /\ share \in Nat \cup {None} /\ applied \in Nat
         /\ \A t \in Thread : Carries(t) => val[t] \in Given
         /\ wire # None => wire \in Given
<1>1. Given \subseteq Nat /\ Difficulty \subseteq Nat
  BY ConstantsAssumption DEF Given
<1> QED
  BY <1>1 DEF IInv, TypeOK, Carries

LEMMA ReceiveHas ==
  ASSUME IInv, NEW kind, Receive(kind), UNCHANGED <<works, sendQueue, wire>>
  PROVE  /\ MinerHas' \subseteq MinerHas
         /\ kind = "share" => Head(toPool).diff \in MinerHas
<1>1. toPool \in Seq(Request) /\ toPool # <<>> /\ toPool' = Tail(toPool) /\ Head(toPool).kind = kind
  BY DEF IInv, TypeOK, Receive
<1>2. /\ 1 \in DOMAIN toPool /\ toPool[1] = Head(toPool)
      /\ \A i \in DOMAIN toPool' : i + 1 \in DOMAIN toPool /\ toPool'[i] = toPool[i + 1]
  BY <1>1, TailElements
<1> QED
  BY <1>1, <1>2 DEF MinerHas

LEMMA AskHas ==
  ASSUME IInv, NEW kind \in {"configure", "subscribe", "authorize", "suggest", "share"},
         NEW d \in Given \cup {None}, Ask(kind, d)
  PROVE  MinerHas' \subseteq MinerHas
<1> DEFINE request == [kind |-> kind, diff |-> d]
<1>1. /\ toPool \in Seq(Request) /\ toPool' = Append(toPool, request) /\ UNCHANGED <<works, sendQueue, wire>>
      /\ request \in Request /\ request.kind = kind /\ request.diff = d
      /\ kind = "share" => d = works
  BY DEF IInv, TypeOK, Ask, Request, line
<1> HIDE DEF request
<1>2. /\ Len(toPool) \in Nat /\ DOMAIN toPool = 1..Len(toPool)
      /\ DOMAIN toPool' = 1..Len(toPool) + 1
      /\ \A i \in 1..Len(toPool) : toPool'[i] = toPool[i]
      /\ toPool'[Len(toPool) + 1] = request
  BY <1>1, AppendElements
<1>3. \A i \in DOMAIN toPool' : \/ i \in DOMAIN toPool /\ toPool'[i] = toPool[i]
                                \/ i = Len(toPool) + 1 /\ toPool'[i] = request
  BY <1>2
<1> QED
  BY <1>1, <1>3 DEF MinerHas

LEMMA SendHas ==
  ASSUME IInv, NEW d \in Given, sendQueue' = Append(sendQueue, d), UNCHANGED <<works, toPool, wire>>
  PROVE  /\ MinerHas' \subseteq MinerHas \cup {d}
         /\ LastTold' = d
<1>1. sendQueue \in Seq(Given)
  BY DEF IInv, TypeOK
<1>2. /\ Len(sendQueue) \in Nat /\ DOMAIN sendQueue = 1..Len(sendQueue)
      /\ sendQueue' # <<>> /\ Len(sendQueue') = Len(sendQueue) + 1
      /\ DOMAIN sendQueue' = 1..Len(sendQueue) + 1
      /\ \A i \in 1..Len(sendQueue) : sendQueue'[i] = sendQueue[i]
      /\ sendQueue'[Len(sendQueue) + 1] = d
  BY <1>1, AppendElements
<1>3. \A i \in DOMAIN sendQueue' : (i \in DOMAIN sendQueue /\ sendQueue'[i] = sendQueue[i]) \/ sendQueue'[i] = d
  BY <1>2
<1>4. sendQueue'[Len(sendQueue')] = d
  BY <1>2
<1> QED
  BY <1>2, <1>3, <1>4 DEF MinerHas, LastTold

LEMMA TransmitHas ==
  ASSUME IInv, Transmit
  PROVE  /\ MinerHas' \subseteq MinerHas
         /\ LastTold' = LastTold /\ (Told => Told')
<1>1. sendQueue \in Seq(Given) /\ sendQueue # <<>> /\ sendQueue' = Tail(sendQueue) /\ wire = None /\ wire' = Head(sendQueue)
      /\ UNCHANGED <<toPool, works, difficulty>>
  BY DEF IInv, TypeOK, Transmit, context, miner
<1>2. /\ 1 \in DOMAIN sendQueue /\ sendQueue[1] = Head(sendQueue)
      /\ \A i \in DOMAIN sendQueue' : i + 1 \in DOMAIN sendQueue /\ sendQueue'[i] = sendQueue[i + 1]
  BY <1>1, TailElements
<1>3. /\ Tail(sendQueue) \in Seq(Given)
      /\ Len(Tail(sendQueue)) = Len(sendQueue) - 1
      /\ \A i \in 1..Len(Tail(sendQueue)) : Tail(sendQueue)[i] = sendQueue[i + 1]
      /\ Head(sendQueue) \in Given
  BY <1>1, HeadTailProperties
<1>4. Len(sendQueue) \in Nat \ {0} /\ (sendQueue' # <<>> => Len(sendQueue') \in Nat \ {0})
  BY <1>1, <1>3, EmptySeq
<1>5. sendQueue' = <<>> => Len(sendQueue) = 1
  <2>1. \A m \in Seq(Given) : m = <<>> => Len(m) = 0
    BY EmptySeq
  <2>2. Len(sendQueue') = Len(sendQueue) - 1 /\ sendQueue' \in Seq(Given)
    BY <1>1, <1>3, Zenon
  <2> QED
    BY <1>4, <2>1, <2>2
<1>6. sendQueue' # <<>> => sendQueue'[Len(sendQueue')] = sendQueue[Len(sendQueue)]
  BY <1>1, <1>3, <1>4
<1>7. wire' # None
  BY <1>1, <1>3, Numbers DEF None
<1>8. LastTold' = LastTold
  BY <1>1, <1>2, <1>5, <1>6, <1>7 DEF LastTold
<1> QED
  BY <1>1, <1>2, <1>7, <1>8 DEF MinerHas, Told

LEMMA LearnHas ==
  ASSUME IInv, Learn, ~Disconnect
  PROVE  /\ MinerHas' \subseteq MinerHas
         /\ works' \in Given
         /\ LastTold' = LastTold /\ (Told => Told')
<1>1. /\ wire \in Given /\ works' = wire /\ wire' = None /\ wire # None
      /\ UNCHANGED <<toPool, sendQueue, difficulty>>
  BY DEF IInv, TypeOK, Learn, context
<1> QED
  BY <1>1 DEF MinerHas, Told, LastTold

-----------------------------------------------------------------------------
(* The steps of the request handler: none but a share's judgement, as long as the *)
(* miner asks for nothing.                                                       *)
LEMMA HandleQuiet ==
  ASSUME IInv, RequestsOK, Undisturbed, Undisturbed', Handle
  PROVE  /\ UNCHANGED <<difficulty, previous, vardiff>>
         /\ pc'["request"] \in Quieter /\ MinerHas' \subseteq MinerHas
         /\ \A u \in Thread : u # "request" => pc'[u] = pc[u] /\ val'[u] = val[u]
         /\ \/ pc'["request"] \notin Judging
            \/ /\ pc'["request"] = "compare" /\ share' \in MinerHas /\ val'["request"] = difficulty
            \/ /\ pc["request"] = "compare" /\ share' = share /\ val'["request"] = val["request"]
               /\ pc'["request"] = IF share >= val["request"] THEN "accept"
                                   ELSE IF MeetsPrevious THEN "credit" ELSE "refuse"
            \/ /\ pc["request"] = "credit" /\ share' = share /\ val'["request"] = previous
               /\ pc'["request"] = "accept"
<1> USE Threads DEF IInv, Quieter, Judging, At, Free
<1>1. CASE ConfigureMinimumDiff
  <2>1. 1 \in DOMAIN toPool /\ toPool[1].kind = "configure"
    <3>1. toPool # <<>> /\ toPool \in Seq(Request) /\ Head(toPool).kind = "configure"
      BY <1>1 DEF ConfigureMinimumDiff, Receive, TypeOK
    <3> QED
      BY <3>1, TailElements
  <2> QED
    BY <2>1 DEF RequestsOK, Undisturbed
<1>2. CASE OnSubscribe
  BY <1>2 DEF OnSubscribe, Undisturbed
<1>3. CASE OnAuthorize
  <2>1. MinerHas' \subseteq MinerHas
    <3>1. Receive("authorize") /\ UNCHANGED <<works, sendQueue, wire>>
      BY <1>3 DEF OnAuthorize, line
    <3> QED
      BY <3>1, ReceiveHas
  <2> QED
    BY <1>3, <2>1, GotoEffect DEF OnAuthorize
<1>4. CASE StaticDiff
  BY <1>4, GotoEffect DEF StaticDiff, Undisturbed, MinerHas, miner, line
<1>5. CASE OnSuggestDifficulty
  <2>1. Receive("suggest") /\ UNCHANGED <<works, sendQueue, wire>>
    BY <1>5 DEF OnSuggestDifficulty, line
  <2>2. MinerHas' \subseteq MinerHas
    BY <2>1, ReceiveHas
  <2> QED
    BY <1>5, <2>1, <2>2 DEF OnSuggestDifficulty, Undisturbed, context, Receive
<1>6. CASE OnSubmit
  <2>1. Receive("share") /\ UNCHANGED <<works, sendQueue, wire>>
    BY <1>6 DEF OnSubmit, line
  <2>2. MinerHas' \subseteq MinerHas /\ Head(toPool).diff \in MinerHas
    BY <2>1, ReceiveHas
  <2> QED
    BY <1>6, <2>2, GotoEffect DEF OnSubmit, context
<1>7. CASE Compare
  <2> DEFINE next == IF share >= val["request"] THEN "accept"
                     ELSE IF MeetsPrevious THEN "credit" ELSE "refuse"
  <2>1. Goto("request", next, val["request"]) /\ pc["request"] = "compare"
        /\ UNCHANGED <<context, share, line, miner>>
    BY <1>7 DEF Compare
  <2>2. next \in Quieter
    OBVIOUS
  <2> HIDE DEF next
  <2>3. pc'["request"] = next /\ val'["request"] = val["request"]
    BY <2>1, GotoEffect
  <2> QED
    BY <2>1, <2>2, <2>3, GotoEffect DEF next, context, miner, line, MinerHas
<1>8. CASE CreditPrevious
  BY <1>8, GotoEffect DEF CreditPrevious, context, miner, line, MinerHas
<1>9. CASE Respond
  BY <1>9, GotoEffect DEF Respond, context, miner, line, MinerHas
<1> QED
  BY <1>1, <1>2, <1>3, <1>4, <1>5, <1>6, <1>7, <1>8, <1>9 DEF Handle

LEMMA HandleFair ==
  ASSUME IInv, IInv', RequestsOK, RoundOK, Undisturbed, Undisturbed', ChangeOK, JudgedOK, Handle
  PROVE  ChangeOK' /\ JudgedOK'
<1>1. /\ UNCHANGED <<difficulty, previous, vardiff, pending, ripe, applied, sendQueue, wire, works>>
      /\ pc["request"] \in Quieter /\ pc'["request"] \in Quieter
      /\ \A u \in Thread : u # "request" => pc'[u] = pc[u] /\ val'[u] = val[u]
      /\ MinerHas' \subseteq MinerHas
  BY HandleRound, HandleQuiet
<1>2. ChangeOK'
  <2>1. \A u \in Thread : /\ Tells(u)' <=> Tells(u)
                          /\ Carries(u)' => Carries(u) /\ val'[u] = val[u]
                          /\ pc'[u] \in Holder => pc[u] \in Holder /\ val'[u] = val[u]
                          /\ pc'[u] = "clear" <=> pc[u] = "clear"
                          /\ pc[u] \in Holder => pc'[u] \in Holder
    BY <1>1 DEF Tells, Carries, Quieter, Holder
  <2> QED
    BY <1>1, <2>1 DEF ChangeOK, Told, LastTold
<1>3. Assigning' <=> Assigning
  BY <1>1 DEF Assigning, Quieter
<1>4. Level => Level'
  BY <1>1, HandleQuiet, Numbers DEF Level, Judging
<1>5. ripe = FALSE /\ Changing => Changing'
  BY <1>1, HandleQuiet, Numbers DEF Changing, ChangeOK, MeetsPrevious, Judging
<1> QED
  BY <1>1, <1>2, <1>3, <1>4, <1>5 DEF JudgedOK, IInv, TypeOK

-----------------------------------------------------------------------------
(* The steps that apply a retarget.                                              *)

LEMMA ApplyChange ==
  ASSUME IInv, IInv', RoundOK, Undisturbed, Undisturbed', ChangeOK, NEW t \in Thread, Apply(t), ~Disconnect
  PROVE  ChangeOK'
<1>1. /\ \A u \in Thread : u # t => pc'[u] = pc[u] /\ val'[u] = val[u]
      /\ \A u \in Thread : u # t => (Tells(u)' <=> Tells(u)) /\ (Carries(u)' <=> Carries(u))
      /\ UNCHANGED <<vardiff, ripe, works, wire, toPool>>
  BY ApplyEffect DEF Tells, Carries
<1>2. /\ difficulty \in Nat /\ difficulty' \in Nat /\ pending \in Nat \cup {None}
      /\ (pending' = pending \/ (pending' = None /\ pc[t] = "clear" /\ pc'[t] = "announce"))
  BY Numbers, ApplyEffect DEF IInv, TypeOK, Given
<1>3. pc[t] # "rememberOwn" /\ pc[t] # "assignOwn"
  BY DEF RoundOK, Undisturbed
<1>a. /\ Tells(t)' => \/ Tells(t)
                      \/ pc[t] = "clear" /\ pc'[t] = "announce" /\ pending' = None
      /\ Carries(t)' => \/ Carries(t) /\ val'[t] = val[t] /\ difficulty' = difficulty
                        \/ pc[t] = "announce" /\ val'[t] = difficulty /\ difficulty' = difficulty
      /\ Tells(t) => \/ Tells(t)'
                     \/ /\ pc[t] = "send" /\ val[t] \in Given /\ sendQueue' = Append(sendQueue, val[t])
                        /\ difficulty' = difficulty
  <2>1. difficulty # None
    BY <1>2 DEF None
  <2>2. pc[t] = "notify" /\ pc'[t] = "rest" => val[t] = None
    BY ApplyEffect DEF Undisturbed
  <2> QED
    BY <1>3, <2>1, <2>2, ApplyEffect DEF Tells, Carries
<1>4. ripe' => \A u \in Thread : ~Tells(u)'
  <2>1. SUFFICES ASSUME ripe, \A u \in Thread : ~Tells(u) /\ pc[u] \notin Busy
                 PROVE  ~Tells(t)'
    BY <1>1 DEF ChangeOK, RoundOK
  <2> QED
    BY <1>a, <2>1 DEF Busy
<1>5. pending' # None => \A u \in Thread :
        /\ pc'[u] \in Holder => val'[u] = pending'
        /\ pc'[u] = "clear" => difficulty' = pending'
        /\ ~Tells(u)'
  <2>1. SUFFICES ASSUME pending' # None
                 PROVE  \A u \in Thread : /\ pc'[u] \in Holder => val'[u] = pending
                                          /\ pc'[u] = "clear" => difficulty' = pending
                                          /\ ~Tells(u)'
    BY <1>2
  <2>2. pending' = pending /\ pending # None
    BY <1>2, <2>1
  <2>3. \A u \in Thread : /\ pc[u] \in Holder => val[u] = pending
                          /\ pc[u] = "clear" => difficulty = pending
                          /\ ~Tells(u)
    BY <2>2 DEF ChangeOK
  <2>4. /\ pc'[t] \in Holder => val'[t] = pending
        /\ pc'[t] = "clear" => difficulty' = pending
        /\ ~Tells(t)'
    BY <1>a, <1>3, <2>1, <2>2, <2>3, ApplyEffect DEF Holder
  <2>5. difficulty' = difficulty \/ difficulty' = pending
    BY <1>3, <2>3, ApplyEffect DEF Holder
  <2> QED
    BY <1>1, <2>3, <2>4, <2>5
<1>6. pending' = None => \A u \in Thread : pc'[u] \in Holder => val'[u] <= difficulty'
  <2>1. CASE pending # None /\ pending' = None
    <3>1. pc[t] = "clear" /\ pc'[t] = "announce" /\ difficulty' = difficulty /\ difficulty = pending
      BY <1>2, <2>1, ApplyEffect DEF ChangeOK
    <3> QED
      BY <1>1, <1>2, <2>1, <3>1 DEF ChangeOK, Holder
  <2>2. CASE pending = None /\ pending' = None
    <3>1. \A u \in Thread : pc[u] \in Holder => val[u] <= difficulty
      BY <2>2 DEF ChangeOK
    <3>2. CASE difficulty' = difficulty
      <4>1. pc'[t] \in Holder => val'[t] <= difficulty
        BY <1>2, <1>3, <2>2, <3>1, ApplyEffect DEF Holder
      <4> QED
        BY <1>1, <3>1, <3>2, <4>1
    <3>3. CASE difficulty' # difficulty
      <4>1. pc[t] = "assign" /\ pc'[t] = "clear"
        BY <1>3, <3>3, ApplyEffect
      <4>2. \A u \in Thread : u # t => pc[u] \notin Busy
        BY <2>2, <4>1 DEF RoundOK, Busy
      <4> QED
        BY <1>1, <4>1, <4>2 DEF Holder, Busy
    <3> QED
      BY <3>2, <3>3
  <2> QED
    BY <1>2, <2>1, <2>2
<1>7. \A u \in Thread : Carries(u)' => val'[u] >= difficulty'
  <2>1. CASE difficulty' = difficulty
    <3>1. Carries(t)' => val'[t] = difficulty \/ (Carries(t) /\ val'[t] = val[t])
      BY <1>a
    <3> QED
      BY <1>1, <1>2, <2>1, <3>1 DEF ChangeOK
  <2>2. CASE difficulty' # difficulty
    <3>1. pc[t] = "assign" /\ pc'[t] = "clear" /\ difficulty' = val[t]
      BY <1>3, <2>2, ApplyEffect
    <3>2. CASE pending # None
      BY <1>1, <1>a, <3>1, <3>2 DEF ChangeOK, Tells
    <3>3. CASE pending = None
      <4>1. difficulty' <= difficulty
        BY <3>1, <3>3 DEF ChangeOK, Holder
      <4>2. \A u \in Thread : Carries(u) => val[u] \in Nat /\ val[u] >= difficulty
        BY Numbers DEF ChangeOK
      <4>3. ~Carries(t)'
        BY <3>1 DEF Carries
      <4> QED
        BY <1>1, <1>2, <4>1, <4>2, <4>3
    <3> QED
      BY <3>2, <3>3
  <2> QED
    BY <2>1, <2>2
<1>8. \/ pending' # None
      \/ \E u \in Thread : pc'[u] \in Holder \cup {"clear"} \/ Tells(u)'
      \/ Told'
  <2>1. SUFFICES ASSUME pending' = None, pc'[t] \notin Holder \cup {"clear"}, ~Tells(t)'
                 PROVE  \/ \E u \in Thread : pc'[u] \in Holder \cup {"clear"} \/ Tells(u)'
                        \/ Told'
    OBVIOUS
  <2>2. CASE pc[t] = "send" /\ val[t] \in Given /\ sendQueue' = Append(sendQueue, val[t])
    <3>1. difficulty' = difficulty
      BY <2>2, ApplyEffect
    <3>2. val[t] >= difficulty
      <4>1. Carries(t)
        BY <2>2, Numbers DEF Carries, None
      <4> QED
        BY <4>1 DEF ChangeOK
    <3>3. LastTold' = val[t]
      BY <1>1, <2>2, SendHas
    <3> QED
      BY <3>1, <3>2, <3>3 DEF Told
  <2>3. CASE ~(pc[t] = "send" /\ val[t] \in Given /\ sendQueue' = Append(sendQueue, val[t]))
    <3>1. pc[t] \notin Holder \cup {"clear"} /\ ~Tells(t)
      BY <1>a, <1>3, <2>1, <2>3, ApplyEffect DEF Holder, Tells
    <3>2. pending = None /\ UNCHANGED <<difficulty, sendQueue>>
      BY <1>2, <1>3, <2>1, <2>3, <3>1, ApplyEffect DEF Holder
    <3>3. (\E u \in Thread : pc[u] \in Holder \cup {"clear"} \/ Tells(u)) \/ Told
      BY <3>2 DEF ChangeOK
    <3>4. CASE \E u \in Thread : pc[u] \in Holder \cup {"clear"} \/ Tells(u)
      <4>1. PICK u \in Thread : pc[u] \in Holder \cup {"clear"} \/ Tells(u)
        BY <3>4
      <4>2. u # t
        BY <3>1, <4>1
      <4> QED
        BY <1>1, <4>1, <4>2
    <3>5. CASE Told
      BY <1>1, <3>2, <3>5 DEF Told, LastTold
    <3> QED
      BY <3>3, <3>4, <3>5
  <2> QED
    BY <2>2, <2>3
<1>9. works' # None /\ (~ripe' => vardiff' = "used")
  BY <1>1 DEF ChangeOK
<1> QED
  BY <1>4, <1>5, <1>6, <1>7, <1>8, <1>9 DEF ChangeOK

LEMMA ApplyJudged ==
  ASSUME IInv, IInv', RoundOK, Undisturbed, ChangeOK, JudgedOK, NEW t \in Thread, Apply(t), ~Disconnect
  PROVE  JudgedOK'
<1>1. /\ \A u \in Thread : u # t => pc'[u] = pc[u] /\ val'[u] = val[u]
      /\ UNCHANGED <<ripe, share, works, wire, toPool>>
      /\ "request" \in Thread
  BY ApplyEffect, Threads
<1>2. \/ pc'["request"] \notin Judging
      \/ pc'["request"] = pc["request"] /\ val'["request"] = val["request"]
  <2>1. pc'[t] \notin Judging
    BY ApplyEffect DEF Judging
  <2> QED
    BY <1>1, <2>1
<1>3. pc[t] # "rememberOwn" /\ pc[t] # "assignOwn"
  BY DEF RoundOK, Undisturbed
<1>4. pc[t] \in Busy => ripe = FALSE
  BY DEF RoundOK, IInv, TypeOK
<1>5. ripe \in BOOLEAN /\ applied \in Nat /\ difficulty \in Nat
  BY Numbers DEF IInv, TypeOK
<1>6. CASE pc[t] = "remember"
  <2>1. /\ pc'[t] = "assign" /\ previous' = difficulty /\ applied' = applied + 1
        /\ UNCHANGED <<difficulty, sendQueue>> /\ ripe' = FALSE
    BY <1>1, <1>4, <1>6, ApplyEffect DEF Busy
  <2>2. Assigning'
    BY <2>1 DEF Assigning
  <2>3. Level => Level'
    BY <1>1, <1>2, <2>1 DEF Level, MinerHas
  <2>4. applied' = 1 => applied = 0
    BY <1>5, <2>1
  <2>5. applied' # 0
    BY <1>5, <2>1
  <2> QED
    BY <2>1, <2>2, <2>3, <2>4, <2>5 DEF JudgedOK
<1>7. CASE pc[t] = "assign"
  <2>1. /\ pc'[t] = "clear" /\ UNCHANGED <<previous, sendQueue, applied>> /\ ripe' = FALSE /\ ripe = FALSE
    BY <1>1, <1>4, <1>7, ApplyEffect DEF Busy
  <2>2. applied >= 1 /\ Assigning
    BY <1>7 DEF RoundOK, Assigning
  <2>3. CASE applied = 1
    <3>1. \A u \in Thread : u # t => pc[u] # "assign"
      BY <1>7, <2>3 DEF RoundOK
    <3>2. ~Assigning'
      BY <1>1, <2>1, <3>1 DEF Assigning
    <3>3. Level /\ previous = difficulty
      BY <2>1, <2>2, <2>3 DEF JudgedOK
    <3>4. MinerHas' = MinerHas /\ previous # None
      BY <1>1, <1>5, <2>1, <3>3 DEF MinerHas, None
    <3>5. Changing'
      BY <1>1, <1>2, <2>1, <3>3, <3>4 DEF Level, Changing, Judging
    <3> QED
      BY <2>1, <2>3, <3>2, <3>5 DEF JudgedOK
  <2>4. CASE applied # 1
    BY <1>5, <2>1, <2>2, <2>4 DEF JudgedOK
  <2> QED
    BY <2>3, <2>4
<1>8. CASE pc[t] \notin {"remember", "assign"}
  <2>1. UNCHANGED <<difficulty, previous, applied>> /\ pc'[t] # "assign"
    BY <1>3, <1>8, ApplyEffect
  <2>2. Assigning' <=> Assigning
    BY <1>1, <1>8, <2>1 DEF Assigning
  <2>3. \A m \in MinerHas' : m \in MinerHas \/ m >= difficulty
    <3>1. CASE pc[t] = "send" /\ val[t] \in Given /\ sendQueue' = Append(sendQueue, val[t])
      <4>1. Carries(t)
        BY <3>1, Numbers DEF Carries, None
      <4>2. val[t] >= difficulty
        BY <4>1 DEF ChangeOK
      <4>3. MinerHas' \subseteq MinerHas \cup {val[t]}
        BY <1>1, <3>1, SendHas
      <4> QED
        BY <4>2, <4>3
    <3>2. CASE sendQueue' = sendQueue
      BY <1>1, <3>2 DEF MinerHas
    <3> QED
      BY <3>1, <3>2, <1>8, ApplyEffect
  <2>4. Level => Level'
    BY <1>1, <1>2, <2>1, <2>3 DEF Level
  <2>5. Changing => Changing'
    BY <1>1, <1>2, <2>1, <2>3 DEF Changing, Judging
  <2> QED
    BY <1>1, <2>1, <2>2, <2>4, <2>5 DEF JudgedOK
<1> QED
  BY <1>6, <1>7, <1>8

-----------------------------------------------------------------------------
(* A retarget, a job, and the miner.                                             *)

LEMMA RetargetFair ==
  ASSUME IInv, RoundOK, ChangeOK, JudgedOK, NEW t \in {"request", "idle"}, NEW d \in Difficulty,
         Retarget(t, d)
  PROVE  ChangeOK' /\ JudgedOK'
<1>1. /\ t \in Thread /\ ThreadsOK /\ "request" \in Thread /\ d # None
  BY Threads, ConstantsAssumption DEF IInv, None
<1>2. /\ ripe /\ ripe' = FALSE /\ pending' = d /\ Goto(t, "check", None) /\ vardiff' = "used"
      /\ applied' = 0 /\ UNCHANGED <<difficulty, sendQueue, wire, works, toPool>>
      /\ share' = IF t = "request" THEN None ELSE share
  BY DEF Retarget, miner, line
<1>3. /\ pc'[t] = "check"
      /\ \A u \in Thread : u # t => pc'[u] = pc[u] /\ val'[u] = val[u]
  BY <1>1, <1>2, GotoEffect
<1>4. \A u \in Thread : pc'[u] \notin Holder \cup {"clear"} /\ ~Tells(u)'
  <2>1. \A u \in Thread : pc[u] \notin Busy /\ ~Tells(u)
    BY <1>2 DEF RoundOK, ChangeOK
  <2> QED
    BY <1>3, <2>1 DEF Busy, Holder, Tells, Carries
<1>5. ChangeOK'
  <2>1. \A u \in Thread : ~Carries(u)'
    BY <1>4 DEF Tells
  <2>2. works # None
    BY DEF ChangeOK
  <2> QED
    BY <1>1, <1>2, <1>4, <2>1, <2>2 DEF ChangeOK
<1>6. Level
  BY <1>2 DEF JudgedOK
<1>7. MinerHas' = MinerHas
  BY <1>2 DEF MinerHas
<1>8. Level'
  BY <1>1, <1>2, <1>3, <1>6, <1>7 DEF Level, Judging
<1> QED
  BY <1>2, <1>5, <1>8 DEF JudgedOK

LEMMA JobFair ==
  ASSUME IInv, ChangeOK, JudgedOK, OnNewJob
  PROVE  ChangeOK' /\ JudgedOK'
<1>1. /\ "job" \in Thread /\ "request" \in Thread /\ ThreadsOK /\ pc["job"] = "rest" /\ pending # None
      /\ Goto("job", "check", None)
      /\ UNCHANGED <<difficulty, previous, pending, vardiff, ripe, share, sendQueue, wire, toPool, works, applied>>
  BY Threads DEF OnNewJob, At, IInv, context, history, miner, line
<1>2. /\ pc'["job"] = "check"
      /\ \A u \in Thread : u # "job" => pc'[u] = pc[u] /\ val'[u] = val[u]
  BY <1>1, GotoEffect
<1>3. ChangeOK'
  <2>1. \A u \in Thread : /\ Tells(u)' <=> Tells(u)
                          /\ Carries(u)' => Carries(u) /\ val'[u] = val[u]
                          /\ pc'[u] \in Holder => pc[u] \in Holder /\ val'[u] = val[u]
                          /\ pc'[u] = "clear" <=> pc[u] = "clear"
    BY <1>1, <1>2 DEF Tells, Carries, Holder
  <2> QED
    BY <1>1, <2>1 DEF ChangeOK
<1>4. Assigning' <=> Assigning
  BY <1>1, <1>2 DEF Assigning
<1>5. MinerHas' = MinerHas /\ pc'["request"] = pc["request"] /\ val'["request"] = val["request"]
  BY <1>1, <1>2 DEF MinerHas
<1> QED
  BY <1>1, <1>3, <1>4, <1>5 DEF JudgedOK, Level, Changing

LEMMA PostFair ==
  ASSUME IInv, ChangeOK, JudgedOK, NEW t \in Posting, Post(t)
  PROVE  ChangeOK' /\ JudgedOK'
<1>1. /\ t \in Thread /\ "request" \in Thread /\ ThreadsOK /\ pc[t] = "rest"
      /\ Goto(t, "notify", None)
      /\ UNCHANGED <<difficulty, previous, pending, vardiff, ripe, share, sendQueue, wire, toPool, works, applied>>
  BY Threads, ConstantsAssumption DEF Post, At, IInv, context, history, miner, line
<1>2. /\ pc'[t] = "notify" /\ val'[t] = None
      /\ \A u \in Thread : u # t => pc'[u] = pc[u] /\ val'[u] = val[u]
  BY <1>1, GotoEffect
<1>3. ChangeOK'
  <2>1. \A u \in Thread : /\ Tells(u)' <=> Tells(u)
                          /\ Carries(u)' => Carries(u) /\ val'[u] = val[u]
                          /\ pc'[u] \in Holder => pc[u] \in Holder /\ val'[u] = val[u]
                          /\ pc[u] \in Holder => pc'[u] \in Holder
                          /\ pc'[u] = "clear" <=> pc[u] = "clear"
    BY <1>1, <1>2 DEF Tells, Carries, Holder
  <2>2. Told' <=> Told
    BY <1>1 DEF Told, LastTold
  <2> QED
    BY <1>1, <2>1, <2>2 DEF ChangeOK
<1>4. Assigning' <=> Assigning
  BY <1>1, <1>2 DEF Assigning
<1>5. /\ MinerHas' = MinerHas
      /\ \/ pc'["request"] = pc["request"] /\ val'["request"] = val["request"]
         \/ pc'["request"] \notin Judging
  BY <1>1, <1>2 DEF MinerHas, Judging
<1>6. (Level => Level') /\ (Changing => Changing')
  BY <1>1, <1>5 DEF Level, Changing, Judging
<1> QED
  BY <1>1, <1>3, <1>4, <1>6 DEF JudgedOK

LEMMA MinerFair ==
  ASSUME IInv, ChangeOK, JudgedOK,
         UNCHANGED <<difficulty, previous, pending, vardiff, ripe, pc, val, share, applied>>,
         MinerHas' \subseteq MinerHas, works' # None, Told => Told'
  PROVE  ChangeOK' /\ JudgedOK'
<1>1. ChangeOK'
  BY DEF ChangeOK, Tells, Carries
<1>2. (Level => Level') /\ (Changing => Changing') /\ (Assigning' <=> Assigning)
  BY DEF Level, Changing, Assigning
<1> QED
  BY <1>1, <1>2 DEF JudgedOK

(* What the miner works at when all is settled is met by the present difficulty:  *)
(* by its own wish, or because somebody has told it.                             *)
LEMMA SettleFair ==
  ASSUME IInv, IInv', RoundOK, Undisturbed => ChangeOK, Subscribed, Settle, apart' = FALSE
  PROVE  ChangeOK' /\ JudgedOK'
<1>1. /\ \A t \in Thread : pc[t] = "rest" /\ pc'[t] = "rest"
      /\ sendQueue = <<>> /\ sendQueue' = <<>> /\ wire = None /\ wire' = None
      /\ \A i \in DOMAIN toPool : toPool[i].kind = "share" => toPool[i].diff = works
      /\ UNCHANGED <<difficulty, pending, toPool, works>> /\ ripe'
  BY DEF Settle, Quiet, Rest, At, context, miner, line
<1>2. pending = None /\ pending' = None
  BY <1>1 DEF RoundOK, Busy
<1>3. works # None /\ works >= difficulty
  <2>1. CASE apart = FALSE
    <3>1. ChangeOK
      BY <2>1 DEF Undisturbed
    <3> QED
      BY <1>1, <1>2, <3>1 DEF ChangeOK, Told, LastTold, Holder, Tells, Carries
  <2>2. CASE apart = TRUE
    <3>1. works = difficulty
      BY <2>2 DEF Settle
    <3> QED
      BY <3>1, Numbers DEF None
  <2> QED
    BY <2>1, <2>2 DEF IInv, TypeOK
<1>4. \A m \in MinerHas' : m = works
  BY <1>1 DEF MinerHas
<1>5. "request" \in Thread
  BY Threads
<1>6. ChangeOK'
  BY <1>1, <1>2, <1>3, <1>5 DEF ChangeOK, Told, LastTold, Holder, Tells, Carries
<1>7. Level'
  BY <1>1, <1>3, <1>4, <1>5 DEF Level, Judging
<1> QED
  BY <1>1, <1>6, <1>7 DEF JudgedOK

LEMMA NextFair == IInv /\ IInv' /\ RequestsOK /\ RoundOK /\ FairOK /\ [Next]_vars => FairOK'
<1>1. SUFFICES ASSUME IInv, IInv', RequestsOK, RoundOK, FairOK, [Next]_vars, Undisturbed'
               PROVE  ChangeOK' /\ JudgedOK'
  BY DEF FairOK
<1>2. CASE Settle
  <2>1. Subscribed /\ apart' = FALSE
    BY <1>1, <1>2 DEF Undisturbed, Settle, Subscribed, miner
  <2> QED
    BY <1>1, <1>2, <2>1, SettleFair DEF FairOK
<1>3. ~Disconnect
  BY <1>1 DEF Disconnect, Undisturbed, Subscribed
<1>4. CASE Handle
  <2>1. apart = FALSE
    BY <1>1, <1>4, HandleRound DEF Undisturbed, IInv, TypeOK
  <2>2. Subscribed
    <3>1. CASE OnSubscribe
      BY <1>1, <3>1 DEF OnSubscribe, Undisturbed
    <3>2. CASE StaticDiff \/ Compare \/ CreditPrevious \/ Respond
      BY <1>1, <3>2 DEF StaticDiff, Compare, CreditPrevious, Respond, Undisturbed, Subscribed, miner
    <3>3. CASE ConfigureMinimumDiff \/ OnAuthorize \/ OnSuggestDifficulty \/ OnSubmit
      <4>1. PICK kind \in {"configure", "authorize", "suggest", "share"} : Receive(kind)
        BY <3>3 DEF ConfigureMinimumDiff, OnAuthorize, OnSuggestDifficulty, OnSubmit
      <4>2. asked' = asked
        BY <3>3 DEF ConfigureMinimumDiff, OnAuthorize, OnSuggestDifficulty, OnSubmit
      <4>3. toPool \in Seq(Request) /\ toPool # <<>> /\ toPool' = Tail(toPool) /\ Head(toPool).kind = kind
        BY <1>1, <4>1 DEF IInv, TypeOK, Receive
      <4>4. /\ toPool[1].kind = kind
            /\ \A i \in DOMAIN toPool : i = 1 \/ (i - 1 \in DOMAIN toPool' /\ toPool[i] = toPool'[i - 1])
        BY <4>3, TailElements
      <4> QED
        BY <1>1, <4>2, <4>4 DEF Undisturbed, Subscribed
    <3> QED
      BY <1>4, <3>1, <3>2, <3>3 DEF Handle
  <2>3. Undisturbed
    BY <2>1, <2>2 DEF Undisturbed
  <2> QED
    BY <1>1, <1>4, <2>3, HandleFair DEF FairOK
<1>5. ASSUME NEW t \in Thread, Apply(t)
      PROVE  ChangeOK' /\ JudgedOK'
  <2>1. UNCHANGED <<toPool, asked>> /\ (apart => apart') /\ apart \in BOOLEAN
    BY <1>1, <1>3, <1>5, ApplyEffect DEF IInv, TypeOK
  <2>2. Undisturbed
    BY <1>1, <2>1 DEF Undisturbed, Subscribed
  <2> QED
    BY <1>1, <1>3, <1>5, <2>2, ApplyChange, ApplyJudged DEF FairOK
<1>6. ASSUME NEW t \in {"request", "idle"}, NEW d \in Difficulty, Retarget(t, d)
      PROVE  ChangeOK' /\ JudgedOK'
  <2>1. Undisturbed
    BY <1>1, <1>6 DEF Retarget, Undisturbed, Subscribed, miner
  <2> QED
    BY <1>1, <1>6, <2>1, RetargetFair DEF FairOK
<1>7. CASE OnNewJob
  <2>1. Undisturbed
    BY <1>1, <1>7 DEF OnNewJob, Undisturbed, Subscribed, miner, history
  <2> QED
    BY <1>1, <1>7, <2>1, JobFair DEF FairOK
<1>8. ASSUME NEW kind \in {"configure", "subscribe", "authorize", "suggest", "share"},
             NEW d \in Given \cup {None}, Ask(kind, d)
      PROVE  ChangeOK' /\ JudgedOK'
  <2>1. UNCHANGED <<context, ripe, pc, val, share, line, works, history>>
    BY <1>8 DEF Ask
  <2>2. Undisturbed
    BY <1>1, <1>8, <2>1, AskOrder DEF Undisturbed, history
  <2>3. ChangeOK /\ JudgedOK
    BY <1>1, <2>2 DEF FairOK
  <2>4. MinerHas' \subseteq MinerHas
    BY <1>1, <1>8, AskHas
  <2>5. works' # None /\ (Told => Told')
    BY <2>1, <2>3 DEF ChangeOK, Told, LastTold, context, line
  <2> QED
    BY <1>1, <2>1, <2>3, <2>4, <2>5, MinerFair DEF context, history
<1>9. CASE Learn
  <2>1. Undisturbed
    BY <1>1, <1>3, <1>9 DEF Learn, Undisturbed, Subscribed, history
  <2>2. ChangeOK /\ JudgedOK
    BY <1>1, <2>1 DEF FairOK
  <2>3. works' # None /\ MinerHas' \subseteq MinerHas /\ (Told => Told')
    BY <1>1, <1>3, <1>9, LearnHas, Numbers DEF None
  <2> QED
    BY <1>1, <1>3, <1>9, <2>2, <2>3, MinerFair DEF Learn, context, history
<1>10. CASE TakeOther \/ Transmit
  <2>1. Undisturbed /\ UNCHANGED <<context, ripe, pc, val, share, miner, history>>
    BY <1>1, <1>3, <1>10 DEF TakeOther, Transmit, Undisturbed, Subscribed, history, miner
  <2>2. ChangeOK /\ JudgedOK
    BY <1>1, <2>1 DEF FairOK
  <2>3. MinerHas' \subseteq MinerHas /\ (Told => Told')
    <3>1. CASE TakeOther
      BY <1>3, <3>1 DEF TakeOther, MinerHas, Told, LastTold, miner, context
    <3> QED
      BY <1>1, <1>10, <3>1, TransmitHas
  <2>4. works' # None
    BY <2>1, <2>2 DEF ChangeOK, miner
  <2> QED
    BY <1>1, <2>1, <2>2, <2>3, <2>4, MinerFair DEF context, history
<1>11. ASSUME NEW t \in Posting, Post(t)
       PROVE  ChangeOK' /\ JudgedOK'
  <2>1. Undisturbed
    BY <1>1, <1>11 DEF Post, Undisturbed, Subscribed, miner, history
  <2> QED
    BY <1>1, <1>11, <2>1, PostFair DEF FairOK
<1>12. CASE UNCHANGED vars
  <2>1. Undisturbed /\ ChangeOK /\ JudgedOK
    BY <1>1, <1>12 DEF FairOK, Undisturbed, Subscribed, vars, miner, history
  <2>2. MinerHas' = MinerHas /\ Told' = Told
    BY <1>12 DEF MinerHas, Told, LastTold, vars, miner, context, line
  <2>3. works' # None
    BY <1>12, <2>1 DEF ChangeOK, vars, miner
  <2> QED
    BY <1>1, <1>12, <2>1, <2>2, <2>3, MinerFair DEF vars, context, history
<1> QED
  BY <1>1, <1>2, <1>3, <1>4, <1>5, <1>6, <1>7, <1>8, <1>9, <1>10, <1>11, <1>12 DEF Next

LEMMA InitFair == Init => RequestsOK /\ RoundOK /\ FairOK
<1>1. SUFFICES ASSUME Init PROVE RequestsOK /\ RoundOK /\ FairOK
  OBVIOUS
<1>2. RequestsOK
  BY <1>1, Threads DEF Init, RequestsOK, Subscribed, Judging
<1>3. RoundOK
  BY <1>1, Threads DEF Init, RoundOK, Busy
<1>4. FairOK
  BY <1>1 DEF Init, FairOK, Undisturbed, Subscribed
<1> QED
  BY <1>2, <1>3, <1>4

(* While the miner asks for nothing itself, no announcement is dropped and a      *)
(* retarget is applied once, a share that meets what the miner was told is        *)
(* neither refused nor credited at more than it met, however the threads          *)
(* interleave (ProcessShare against ApplyPendingDifficulty and SetDifficulty).    *)
THEOREM SharesAreFairlyJudged == Spec => []FairlyJudged
<1>1. Init => RequestsOK /\ RoundOK /\ FairOK
  BY InitFair
<1>2. IInv /\ RequestsOK /\ [Next]_vars => RequestsOK'
  BY NextRequests
<1>3. IInv /\ RoundOK /\ [Next]_vars => RoundOK'
  BY NextRound
<1>4. IInv /\ IInv' /\ RequestsOK /\ RoundOK /\ FairOK /\ [Next]_vars => FairOK'
  BY NextFair
<1>5. IInv /\ RequestsOK /\ FairOK => FairlyJudged
  <2>1. SUFFICES ASSUME IInv, RequestsOK, FairOK, apart = FALSE, ~(applied > 1),
                        At("request", "refuse") \/ (At("request", "accept") /\ val["request"] > share)
                 PROVE  FALSE
    BY DEF FairlyJudged, IInv, TypeOK
  <2>2. pc["request"] \in {"refuse", "accept"}
    BY <2>1 DEF At
  <2>3. Undisturbed
    BY <2>1, <2>2 DEF RequestsOK, Undisturbed, Judging
  <2>4. ripe \/ applied = 0 \/ applied = 1
    BY <2>1, Numbers
  <2>5. Level \/ Changing
    BY <2>1, <2>3, <2>4 DEF FairOK, JudgedOK
  <2>6. "request" \in Thread
    BY Threads
  <2> QED
    BY <2>1, <2>2, <2>5, <2>6, Numbers DEF Level, Changing, Judging, At, None
<1> QED
  BY <1>1, <1>2, <1>3, <1>4, <1>5, Typed, PTL DEF Spec
-----------------------------------------------------------------------------
(* Agreement.                                                                    *)

(* Unless something crossed an announcement, every thread that carries one carries *)
(* the present difficulty, ...                                                   *)
CarryOK == \A t \in Thread : Carries(t) => val[t] = difficulty

(* ... and somebody is about to announce it, or it is what was announced last.   *)
WillAgree ==
  \/ \E t \in Thread : pc[t] = "clear" \/ Tells(t)
  \/ LastTold = difficulty

AgreeOK == crossed = FALSE => CarryOK /\ (Subscribed => WillAgree)

(* A step that takes no thread to or from telling.                               *)
Untold ==
  \A t \in Thread :
    \/ pc'[t] = pc[t] /\ val'[t] = val[t]
    \/ pc[t] # "clear" /\ ~Tells(t) /\ ~Carries(t)'

(* If it queues nothing and sets nothing, too, agreement is as near as before.   *)
LEMMA SameAgree ==
  ASSUME AgreeOK, difficulty' = difficulty, crossed' = crossed, LastTold' = LastTold,
         Subscribed' => Subscribed, Untold
  PROVE  AgreeOK'
<1> USE DEF Untold
<1>1. CarryOK => CarryOK'
  BY DEF CarryOK, Carries
<1>2. WillAgree => WillAgree'
  <2>1. \A t \in Thread : pc[t] = "clear" \/ Tells(t) => pc'[t] = "clear" \/ Tells(t)'
    BY DEF Tells, Carries
  <2> QED
    BY <2>1 DEF WillAgree
<1> QED
  BY <1>1, <1>2 DEF AgreeOK

LEMMA SameTold ==
  ASSUME UNCHANGED <<sendQueue, wire, works>>
  PROVE  LastTold' = LastTold
BY DEF LastTold

LEMMA HandleAgree ==
  ASSUME IInv, RequestsOK, RoundOK, AgreeOK, Handle
  PROVE  AgreeOK'
<1>1. /\ pc["request"] \in Quieter
      /\ \A u \in Thread : u # "request" =>
           \/ pc'[u] = pc[u] /\ val'[u] = val[u]
           \/ pc[u] = "rest" /\ pc'[u] = "rememberOwn"
      /\ pc'["request"] \in Quieter \cup {"announce", "rememberOwn"}
      /\ LastTold' = LastTold /\ "request" \in Thread
  BY HandleRound, SameTold, Threads
<1>2. \A u \in Thread : \/ pc'[u] = pc[u] /\ val'[u] = val[u]
                        \/ pc[u] # "clear" /\ ~Tells(u) /\ ~Carries(u)'
  BY <1>1 DEF Tells, Carries, Quieter
<1>a. Untold
  BY <1>2 DEF Untold
<1>3. CASE ConfigureMinimumDiff
  <2>1. /\ toPool \in Seq(Request) /\ toPool # <<>> /\ Head(toPool).kind = "configure"
        /\ toPool' = Tail(toPool) /\ asked' = asked /\ UNCHANGED <<pc, val>> /\ pc["request"] = "rest"
    BY <1>3 DEF ConfigureMinimumDiff, Receive, Free, At, IInv, TypeOK
  <2>2. 1 \in DOMAIN toPool /\ toPool[1].kind = "configure"
        /\ \A i \in DOMAIN toPool : i = 1 \/ (i - 1 \in DOMAIN toPool' /\ toPool[i] = toPool'[i - 1])
    BY <2>1, TailElements
  <2>3. ~Subscribed'
    BY <2>1, <2>2 DEF Subscribed, RequestsOK
  <2>4. crossed' = FALSE => CarryOK'
    <3>1. CASE UNCHANGED <<difficulty, crossed>>
      BY <2>1, <3>1 DEF AgreeOK, CarryOK, Carries
    <3>2. CASE /\ difficulty' = Head(toPool).diff
               /\ crossed' = (crossed \/ Crosses("request", Head(toPool).diff))
      <4>1. ~Carries("request")
        BY <2>1 DEF Carries
      <4>2. crossed' = FALSE => \A u \in Thread : Carries(u) => val[u] = Head(toPool).diff
        BY <3>2, <4>1 DEF Crosses
      <4> QED
        BY <2>1, <3>2, <4>2 DEF CarryOK, Carries
    <3> QED
      BY <1>3, <3>1, <3>2 DEF ConfigureMinimumDiff
  <2> QED
    BY <2>3, <2>4 DEF AgreeOK
<1>4. CASE OnSubscribe
  <2>1. /\ Goto("request", "announce", None) /\ UNCHANGED <<difficulty, crossed>>
        /\ ThreadsOK
    BY <1>4 DEF OnSubscribe, context, IInv
  <2>2. pc'["request"] = "announce"
    BY <1>1, <2>1, GotoEffect
  <2>3. CarryOK => CarryOK'
    BY <1>2, <2>1 DEF CarryOK, Carries
  <2>4. WillAgree'
    BY <1>1, <2>2 DEF WillAgree, Tells
  <2> QED
    BY <2>1, <2>3, <2>4 DEF AgreeOK
<1>5. CASE StaticDiff \/ Compare \/ CreditPrevious \/ Respond
  <2>1. UNCHANGED <<difficulty, crossed, toPool, asked>>
    BY <1>5 DEF StaticDiff, Compare, CreditPrevious, Respond, context, history, miner
  <2>2. /\ difficulty' = difficulty /\ crossed' = crossed
        /\ LastTold' = LastTold /\ (Subscribed' => Subscribed)
    BY <1>1, <2>1 DEF Subscribed
  <2> QED
    BY <1>a, <2>2, SameAgree
<1>6. CASE OnAuthorize \/ OnSuggestDifficulty \/ OnSubmit
  <2>1. UNCHANGED <<difficulty, crossed, asked>>
    BY <1>6 DEF OnAuthorize, OnSuggestDifficulty, OnSubmit, context, history
  <2>2. PICK kind \in {"authorize", "suggest", "share"} : Receive(kind)
    BY <1>6 DEF OnAuthorize, OnSuggestDifficulty, OnSubmit
  <2>3. toPool \in Seq(Request) /\ toPool # <<>> /\ Head(toPool).kind = kind /\ toPool' = Tail(toPool)
    BY <2>2 DEF Receive, IInv, TypeOK
  <2>4. toPool[1].kind = kind
        /\ \A i \in DOMAIN toPool : i = 1 \/ (i - 1 \in DOMAIN toPool' /\ toPool[i] = toPool'[i - 1])
    BY <2>3, TailElements
  <2>5. Subscribed' => Subscribed
    BY <2>1, <2>4 DEF Subscribed
  <2>6. difficulty' = difficulty /\ crossed' = crossed /\ LastTold' = LastTold
    BY <1>1, <2>1
  <2> QED
    BY <1>a, <2>5, <2>6, SameAgree
<1> QED
  BY <1>3, <1>4, <1>5, <1>6 DEF Handle

LEMMA ApplyAgree ==
  ASSUME IInv, AgreeOK, NEW t \in Thread, Apply(t), ~Disconnect
  PROVE  AgreeOK'
<1>1. /\ \A u \in Thread : u # t => pc'[u] = pc[u] /\ val'[u] = val[u]
      /\ UNCHANGED <<toPool, asked, works, wire>>
      /\ Subscribed' = Subscribed
  BY ApplyEffect DEF Subscribed
<1>2. \A u \in Thread : u # t => (Tells(u)' <=> Tells(u)) /\ (Carries(u)' <=> Carries(u))
  BY <1>1 DEF Tells, Carries
<1>3. CASE pc[t] \in {"check", "take", "remember", "rememberOwn"} \/ (pc[t] = "send" /\ val[t] = None)
  <2>1. UNCHANGED <<difficulty, crossed, sendQueue>> /\ pc[t] # "clear" /\ ~Tells(t)
        /\ pc'[t] \notin {"notify", "send"}
    <3>1. val[t] \in Given => val[t] # None
      BY Numbers DEF None
    <3> QED
      BY <1>3, <3>1, ApplyEffect DEF Tells, Carries
  <2>2. Untold
    BY <1>1, <2>1 DEF Untold, Carries
  <2>3. /\ difficulty' = difficulty /\ crossed' = crossed
        /\ LastTold' = LastTold /\ (Subscribed' => Subscribed)
    BY <1>1, <2>1, SameTold
  <2> QED
    BY <2>2, <2>3, SameAgree
<1>4. CASE pc[t] \in {"assign", "assignOwn"}
  <2>1. /\ difficulty' = val[t] /\ crossed' = (crossed \/ Crosses(t, val[t]))
        /\ pc'[t] \in {"clear", "announce"}
    BY <1>4, ApplyEffect
  <2>2. crossed' = FALSE => CarryOK'
    <3>1. ~Carries(t)'
      BY <2>1 DEF Carries
    <3> QED
      BY <1>1, <1>2, <2>1, <3>1 DEF CarryOK, Crosses
  <2>3. WillAgree'
    BY <2>1 DEF WillAgree, Tells
  <2> QED
    BY <2>2, <2>3 DEF AgreeOK
<1>5. CASE pc[t] = "clear"
  <2>1. pc'[t] = "announce" /\ UNCHANGED <<difficulty, crossed>>
    BY <1>5, ApplyEffect
  <2>2. CarryOK => CarryOK'
    BY <1>1, <1>2, <2>1 DEF CarryOK, Carries
  <2>3. WillAgree'
    BY <2>1 DEF WillAgree, Tells
  <2> QED
    BY <2>1, <2>2, <2>3 DEF AgreeOK
<1>6. CASE pc[t] = "announce"
  <2>1. /\ pc'[t] = "notify" /\ val'[t] = difficulty /\ crossed' = Crosses(t, difficulty)
        /\ difficulty' = difficulty
    BY <1>6, ApplyEffect
  <2>2. crossed' = FALSE => CarryOK'
    BY <1>1, <1>2, <2>1 DEF CarryOK, Crosses
  <2>3. Tells(t)'
    BY <2>1, Numbers DEF Tells, Carries, None
  <2> QED
    BY <2>2, <2>3 DEF AgreeOK, WillAgree
<1>7. CASE pc[t] = "notify"
  <2>1. /\ UNCHANGED <<difficulty, sendQueue>>
        /\ \/ pc'[t] = "send" /\ val'[t] = val[t] /\ crossed' = crossed
           \/ pc'[t] = "rest" /\ crossed' = (crossed \/ val[t] # None)
    BY <1>7, ApplyEffect
  <2>2. LastTold' = LastTold
    BY <1>1, <2>1, SameTold
  <2>3. crossed' = FALSE => crossed = FALSE /\ (Carries(t) => Carries(t)')
    BY <1>7, <2>1 DEF Carries, IInv, TypeOK
  <2>4. Carries(t)' => Carries(t) /\ val'[t] = val[t]
    BY <1>7, <2>1 DEF Carries
  <2>5. CarryOK => CarryOK'
    BY <1>1, <1>2, <2>1, <2>4 DEF CarryOK
  <2>6. crossed' = FALSE /\ WillAgree => WillAgree'
    <3>1. SUFFICES ASSUME crossed' = FALSE, NEW u \in Thread, pc[u] = "clear" \/ Tells(u)
                   PROVE  WillAgree'
      BY <2>1, <2>2 DEF WillAgree
    <3>2. CASE u = t
      BY <1>7, <2>3, <3>1, <3>2 DEF WillAgree, Tells
    <3>3. CASE u # t
      BY <1>1, <1>2, <3>1, <3>3 DEF WillAgree
    <3> QED
      BY <3>2, <3>3
  <2> QED
    BY <1>1, <2>3, <2>5, <2>6 DEF AgreeOK
<1>8. CASE pc[t] = "send" /\ val[t] # None
  <2>1. /\ pc'[t] = "rest" /\ val[t] \in Given /\ sendQueue' = Append(sendQueue, val[t])
        /\ UNCHANGED <<difficulty, crossed>>
    BY <1>8, ApplyEffect
  <2>2. CarryOK => CarryOK'
    BY <1>1, <1>2, <2>1 DEF CarryOK, Carries
  <2>3. CarryOK => LastTold' = difficulty'
    <3>1. LastTold' = val[t]
      BY <1>1, <2>1, SendHas
    <3> QED
      BY <1>8, <2>1, <3>1 DEF CarryOK, Carries
  <2> QED
    BY <2>1, <2>2, <2>3 DEF AgreeOK, WillAgree
<1>9. pc[t] \in {"check", "take", "remember", "rememberOwn", "assign", "assignOwn", "clear",
                "announce", "notify", "send"}
  BY ApplyEffect
<1> QED
  BY <1>3, <1>4, <1>5, <1>6, <1>7, <1>8, <1>9

LEMMA NextAgree == IInv /\ RequestsOK /\ RoundOK /\ AgreeOK /\ [Next]_vars => AgreeOK'
<1>1. SUFFICES ASSUME IInv, RequestsOK, RoundOK, AgreeOK, [Next]_vars PROVE AgreeOK'
  OBVIOUS
<1>2. CASE Handle
  BY <1>1, <1>2, HandleAgree
<1>3. CASE Disconnect
  BY <1>3 DEF Disconnect, AgreeOK, CarryOK, Carries, Subscribed
<1>4. ASSUME NEW t \in Thread, Apply(t), ~Disconnect
      PROVE  AgreeOK'
  BY <1>1, <1>4, ApplyAgree
<1>5. ASSUME NEW t \in Thread, NEW step \in {"check", "notify"}, Goto(t, step, None),
             pc[t] \in {"rest", "accept"},
             UNCHANGED <<difficulty, crossed, line, miner>>
      PROVE  AgreeOK'
  <2>1. /\ pc'[t] = step /\ val'[t] = None
        /\ \A u \in Thread : u # t => pc'[u] = pc[u] /\ val'[u] = val[u]
    BY <1>1, <1>5, GotoEffect DEF IInv
  <2>2. pc[t] # "clear" /\ ~Tells(t) /\ ~Carries(t)'
    BY <1>5, <2>1 DEF Tells, Carries
  <2>3. LastTold' = LastTold /\ Subscribed' = Subscribed
    BY <1>5 DEF LastTold, Subscribed, line, miner
  <2>4. Untold
    BY <2>1, <2>2 DEF Untold
  <2>5. difficulty' = difficulty /\ crossed' = crossed
    BY <1>5
  <2> QED
    BY <1>1, <2>3, <2>4, <2>5, SameAgree
<1>6. ASSUME NEW t \in {"request", "idle"}, NEW d \in Difficulty, Retarget(t, d)
      PROVE  AgreeOK'
  <2>1. /\ t \in Thread /\ Goto(t, "check", None) /\ pc[t] \in {"rest", "accept"}
        /\ UNCHANGED <<difficulty, crossed, line, miner>>
    BY <1>6, Threads DEF Retarget, At
  <2> QED
    BY <1>5, <2>1
<1>7. CASE OnNewJob
  <2>1. /\ "job" \in Thread /\ Goto("job", "check", None) /\ pc["job"] \in {"rest", "accept"}
        /\ UNCHANGED <<difficulty, crossed, line, miner>>
    BY <1>7, Threads DEF OnNewJob, At, context, history
  <2> QED
    BY <1>5, <2>1
<1>8. ASSUME NEW t \in Posting, Post(t)
      PROVE  AgreeOK'
  <2>1. /\ t \in Thread /\ Goto(t, "notify", None) /\ pc[t] \in {"rest", "accept"}
        /\ UNCHANGED <<difficulty, crossed, line, miner>>
    BY <1>8, ConstantsAssumption DEF Post, At, Thread, context, history
  <2> QED
    BY <1>5, <2>1
<1>9. CASE ((Learn \/ TakeOther) /\ ~Disconnect) \/ Transmit \/ UNCHANGED vars
  <2>1. UNCHANGED <<difficulty, crossed, pc, val, toPool, asked>>
    BY <1>9 DEF Learn, TakeOther, Transmit, vars, context, history, miner
  <2>2. LastTold' = LastTold
    <3>1. CASE TakeOther /\ ~Disconnect
      BY <3>1 DEF TakeOther, LastTold, miner
    <3>2. CASE UNCHANGED vars
      BY <3>2 DEF vars, LastTold, miner, line
    <3> QED
      BY <1>1, <1>9, <3>1, <3>2, LearnHas, TransmitHas
  <2>3. /\ difficulty' = difficulty /\ crossed' = crossed
        /\ (Subscribed' => Subscribed) /\ Untold
    BY <2>1 DEF Subscribed, Untold
  <2> QED
    BY <1>1, <2>2, <2>3, SameAgree
<1>10. ASSUME NEW kind \in {"configure", "subscribe", "authorize", "suggest", "share"},
              NEW d \in Given \cup {None}, Ask(kind, d)
       PROVE  AgreeOK'
  <2>1. UNCHANGED <<difficulty, crossed, pc, val, sendQueue, wire, works>>
    BY <1>10 DEF Ask, context, history, line
  <2>2. Subscribed' => Subscribed
    BY <1>1, <1>10, AskOrder
  <2>3. /\ difficulty' = difficulty /\ crossed' = crossed /\ Untold /\ LastTold' = LastTold
    BY <2>1, SameTold DEF Untold
  <2> QED
    BY <1>1, <2>2, <2>3, SameAgree
<1>11. CASE Settle
  <2>1. /\ \A t \in Thread : pc[t] = "rest" /\ pc'[t] = "rest"
        /\ sendQueue' = <<>> /\ wire' = None /\ UNCHANGED <<difficulty, works, toPool, asked>>
        /\ sendQueue = <<>> /\ wire = None
        /\ crossed' = (crossed /\ works # difficulty)
    BY <1>11 DEF Settle, Quiet, Rest, At, context, miner, line
  <2>2. CarryOK'
    BY <2>1 DEF CarryOK, Carries
  <2>3. CASE crossed = FALSE
    <3>1. Subscribed' => LastTold' = difficulty'
      BY <1>1, <2>1, <2>3 DEF AgreeOK, WillAgree, Subscribed, LastTold, Tells, Carries
    <3> QED
      BY <2>2, <3>1 DEF AgreeOK, WillAgree
  <2>4. CASE crossed = TRUE
    BY <2>1, <2>2, <2>4 DEF AgreeOK, WillAgree, LastTold
  <2> QED
    BY <1>1, <2>3, <2>4 DEF IInv, TypeOK
<1> QED
  BY <1>1, <1>2, <1>3, <1>4, <1>6, <1>7, <1>8, <1>9, <1>10, <1>11 DEF Next

(* The miner works at the difficulty the pool has for it whenever everything has  *)
(* come to rest, although request handler, idle sweep and job broadcast set, read *)
(* and queue it without a lock (SetDifficulty, OnVarDiffUpdateAsync, SendAsync),  *)
(* unless it was set while another thread carried an older one to the queue, or   *)
(* the queue was full, and nothing was announced since.                           *)
THEOREM MinersAgree == Spec => []Agreed
<1>1. Init => RequestsOK /\ RoundOK /\ AgreeOK
  <2>1. Init => AgreeOK
    BY DEF Init, AgreeOK, CarryOK, Carries, Subscribed
  <2> QED
    BY <2>1, InitFair
<1>2. IInv /\ RequestsOK /\ [Next]_vars => RequestsOK'
  BY NextRequests
<1>3. IInv /\ RoundOK /\ [Next]_vars => RoundOK'
  BY NextRound
<1>4. IInv /\ RequestsOK /\ RoundOK /\ AgreeOK /\ [Next]_vars => AgreeOK'
  BY NextAgree
<1>5. IInv /\ AgreeOK => Agreed
  <2>1. SUFFICES ASSUME IInv, AgreeOK, Subscribed, Rest, crossed = FALSE
                 PROVE  works = difficulty
    BY DEF Agreed, IInv, TypeOK
  <2>2. \A t \in Thread : pc[t] = "rest"
    BY <2>1 DEF Rest, At
  <2> QED
    BY <2>1, <2>2 DEF AgreeOK, WillAgree, LastTold, Rest, Tells, Carries
<1> QED
  BY <1>1, <1>2, <1>3, <1>4, <1>5, Typed, PTL DEF Spec
=============================================================================
