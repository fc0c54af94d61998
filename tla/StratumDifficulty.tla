-------------------------- MODULE StratumDifficulty --------------------------
(***************************************************************************)
(* The difficulty of one Stratum connection of the Alpha pool: what the    *)
(* pool asks for, what the miner works at, and how shares are judged in    *)
(* between.                                                                *)
(*                                                                         *)
(* Three threads change the difficulty of a connection without a lock: the *)
(* one that handles its requests (which are handled one after the other),  *)
(* the sweep that adjusts idle connections, and the broadcast of a new     *)
(* job, which applies whatever difficulty is pending.  Each of them writes *)
(* the previous difficulty, then the current one, and announces what it    *)
(* then reads: it looks whether the send queue has room, and then puts the *)
(* announcement into it.  Replies and jobs take room in the same queue; a  *)
(* loop of the connection's own empties it and gives up when it is full.   *)
(* Announcements and requests travel in order, each way at its own pace;   *)
(* that some miners change over with the next job only is a slow           *)
(* announcement.                                                           *)
(*                                                                         *)
(* The miner is honest: a share has at least the difficulty the miner      *)
(* works at, and here exactly that one, which is the worst case.           *)
(***************************************************************************)
EXTENDS Integers, Sequences

CONSTANTS
  Difficulty,     (* the difficulties a miner may ask for or be given       *)
  Base,           (* poolEndpoint.Difficulty                                *)
  MinDiff,        (* VarDiff.MinDiff of the endpoint                        *)
  QueueCapacity,  (* SendQueueCapacity, 16                                  *)
  Posting,        (* bound: the threads that send anything but announcements *)
  MaxRequests,    (* bound: requests on their way to the pool or handled    *)
  Orderly         (* bound: whether the miner authorises after it subscribed *)

ASSUME ConstantsAssumption ==
  /\ Difficulty \subseteq Nat \ {0}
  /\ Base \in Difficulty
  /\ MinDiff \in Nat
  /\ QueueCapacity \in Nat \ {0}
  /\ Posting \subseteq {"request", "idle", "job"}
  /\ MaxRequests \in Nat \ {0}
  /\ Orderly \in BOOLEAN

None == -1                    \* null
Given == Difficulty \cup {0}  \* 0: half of a Nullable<double>, see TakeValue

(* The request handler, which is "suggest" while it sets a suggested difficulty; *)
(* the idle sweep; the broadcast of jobs.                                        *)
Thread == {"request", "suggest", "idle", "job"}
(* Where an exception is caught and logged; elsewhere it ends the connection.    *)
Catching == {"suggest", "idle"}

Request ==
  [kind : {"configure", "subscribe", "authorize", "suggest", "share"},
   diff : Given \cup {None}]

VARIABLES
  difficulty,  (* context.Difficulty                                        *)
  previous,    (* context.PreviousDifficulty                                *)
  pending,     (* context.pendingDifficulty                                 *)
  vardiff,     (* context.VarDiff: "new" (LastUpdate null), "used", "off" (null) *)
  authorized,  (* context.IsAuthorized                                      *)
  ripe,        (* RetargetTime has passed since VarDiff last changed anything *)
  pc, val,     (* per thread: its next step, the difficulty in its hands    *)
  share,       (* the difficulty of the share being judged                  *)
  toPool,      (* requests on their way                                     *)
  sendQueue,   (* announced difficulties in the send queue                  *)
  others,      (* number of replies and jobs in the send queue; which kind is sent *)
               (* next is left open, as their order makes no difference here *)
  wire,        (* the announcement that the loop which empties it sends; bound: *)
               (* the miner has it when SendMessage is done, buffers are a slow one *)
  asked,       (* handshake requests the miner has sent                     *)
  works,       (* the difficulty the miner works at                         *)
  apart,       (* history: a request of the miner's own set or announced a difficulty, *)
               (* or an announcement was dropped, and the two have not been seen *)
               (* to agree since                                            *)
  applied,     (* history: how often the last retarget was applied          *)
  crossed      (* history: a difficulty was set while another thread was about to *)
               (* queue an older one, or an announcement was dropped, and none *)
               (* was begun since                                           *)

context == <<difficulty, previous, pending, vardiff, authorized>>
miner == <<toPool, asked, works>>
line == <<sendQueue, others, wire>>
history == <<apart, applied, crossed>>
vars == <<context, ripe, pc, val, share, line, miner, history>>

(* A connection that was just accepted. *)
Init ==
  /\ difficulty = Base
  /\ previous = None
  /\ pending = None
  /\ vardiff = "new"
  /\ authorized = FALSE
  /\ ripe = FALSE
  /\ pc = [t \in Thread |-> "rest"]
  /\ val = [t \in Thread |-> None]
  /\ share = None
  /\ toPool = <<>>
  /\ sendQueue = <<>> /\ others = 0
  /\ wire = None
  /\ asked = {}
  /\ works = None
  /\ apart = FALSE /\ crossed = FALSE
  /\ applied = 0

(* The connection ends, for whatever reason, and the miner opens another one; a  *)
(* thread that is still busy with the old one has an object of its own.          *)
Disconnect ==
  /\ difficulty' = Base
  /\ previous' = None
  /\ pending' = None
  /\ vardiff' = "new"
  /\ authorized' = FALSE
  /\ ripe' = FALSE
  /\ pc' = [t \in Thread |-> "rest"]
  /\ val' = [t \in Thread |-> None]
  /\ share' = None
  /\ toPool' = <<>>
  /\ sendQueue' = <<>> /\ others' = 0
  /\ wire' = None
  /\ asked' = {}
  /\ works' = None
  /\ apart' = FALSE /\ crossed' = FALSE
  /\ applied' = 0

At(t, step) == pc[t] = step
Free == At("request", "rest") /\ At("suggest", "rest")  \* no request is handled

(* Thread t goes on at a step with a difficulty in its hands. *)
Goto(t, step, d) ==
  /\ pc' = [pc EXCEPT ![t] = step]
  /\ val' = [val EXCEPT ![t] = d]

(* Some other thread is about to queue an announcement of another difficulty.   *)
Carries(t) == pc[t] \in {"notify", "send"} /\ val[t] # None
Crosses(t, d) == \E u \in Thread \ {t} : Carries(u) /\ val[u] # d

-----------------------------------------------------------------------------
(* The miner and time. *)

(* mining.configure comes first, a share after the handshake; the rest at any   *)
(* time: a connection may authorise several workers, each with a password that  *)
(* may ask for a static difficulty.  Bound: the miner asks for another difficulty *)
(* only once it agrees with the pool.                                           *)
Ask(kind, d) ==
  /\ Len(toPool) + (IF Free THEN 0 ELSE 1) < MaxRequests
  /\ kind = "configure" => asked = {} /\ works = None
  /\ kind = "subscribe" => "subscribe" \notin asked
  /\ kind = "share" => {"subscribe", "authorize"} \subseteq asked /\ works # None /\ d = works
  /\ kind = "authorize" /\ Orderly => "subscribe" \in asked
  /\ kind = "subscribe" => d = None
  /\ kind \in {"suggest", "authorize"} /\ d # None => ~apart
  /\ kind = "authorize" => d \in Difficulty \/ (d = None /\ "authorize" \notin asked)
  /\ kind \in {"configure", "suggest"} => d \in Difficulty
  /\ toPool' = Append(toPool, [kind |-> kind, diff |-> d])
  /\ asked' = asked \cup ({kind} \cap {"subscribe", "authorize"})
  /\ UNCHANGED <<context, ripe, pc, val, share, line, works, history>>

(* No thread is busy and no announcement under way; at most shares found at the  *)
(* miner's present difficulty are, and requests nobody has looked at.            *)
Rest ==
  /\ \A t \in Thread : At(t, "rest")
  /\ sendQueue = <<>> /\ wire = None
Quiet ==
  /\ Rest
  /\ \A i \in DOMAIN toPool : toPool[i].kind = "share" => toPool[i].diff = works

(* RetargetTime (90 s and more) is long against threads and messages: at some time *)
(* between two retargets everything the first one set in motion is over.          *)
Settle ==
  /\ Quiet
  /\ ripe' = TRUE
  /\ apart' = (apart /\ works # difficulty)
  /\ crossed' = (crossed /\ works # difficulty)
  /\ UNCHANGED <<context, pc, val, share, line, miner, applied>>

-----------------------------------------------------------------------------
(* Requests. *)

(* The next request is read. *)
Receive(kind) ==
  /\ Free
  /\ toPool # <<>>
  /\ Head(toPool).kind = kind
  /\ toPool' = Tail(toPool)

(* The minimum-difficulty extension: no VarDiff, and nothing is announced.  No   *)
(* other thread looks at a connection that is not authorised.                    *)
ConfigureMinimumDiff ==
  /\ Receive("configure")
  /\ IF Head(toPool).diff > Base
     THEN /\ vardiff' = "off"
          /\ previous' = difficulty
          /\ difficulty' = Head(toPool).diff
          /\ crossed' = (crossed \/ Crosses("request", Head(toPool).diff))
     ELSE UNCHANGED <<vardiff, previous, difficulty, crossed>>
  /\ UNCHANGED <<pending, authorized, ripe, pc, val, share, line, asked, works, apart, applied>>

OnSubscribe ==
  /\ Receive("subscribe")
  /\ apart' = TRUE
  /\ Goto("request", "announce", None)
  /\ UNCHANGED <<context, ripe, share, line, asked, works, applied, crossed>>

OnAuthorize ==
  /\ Receive("authorize")
  /\ authorized' = TRUE
  /\ Goto("request", "static", Head(toPool).diff)
  /\ UNCHANGED <<difficulty, previous, pending, vardiff, ripe, share, line, asked, works, history>>

(* The password may set a static difficulty, after the answer was sent. *)
StaticDiff ==
  /\ At("request", "static")
  /\ LET d == val["request"] IN
     IF \/ vardiff # "off" /\ d >= MinDiff
        \/ vardiff = "off" /\ d > difficulty
     THEN vardiff' = "off" /\ apart' = TRUE /\ Goto("request", "rememberOwn", d)
     ELSE UNCHANGED <<vardiff, apart>> /\ Goto("request", "rest", None)
  /\ UNCHANGED <<difficulty, previous, pending, authorized, ripe, share, line, miner, applied, crossed>>

OnSuggestDifficulty ==
  /\ Receive("suggest")
  /\ LET d == Head(toPool).diff IN
     IF d > Base
     THEN apart' = TRUE /\ Goto("suggest", "rememberOwn", d)
     ELSE UNCHANGED <<apart, pc, val>>
  /\ UNCHANGED <<context, ripe, share, line, asked, works, applied, crossed>>

(* ProcessShare computes the share's difficulty and reads the connection's. *)
OnSubmit ==
  /\ Receive("share")
  /\ share' = Head(toPool).diff
  /\ Goto("request", "compare", difficulty)
  /\ UNCHANGED <<context, ripe, line, asked, works, history>>

(* A share below the current difficulty may meet the previous one, once VarDiff  *)
(* has changed the difficulty.                                                   *)
MeetsPrevious ==
  /\ vardiff = "used"
  /\ previous # None
  /\ share >= previous

Compare ==
  /\ At("request", "compare")
  /\ LET next == IF share >= val["request"] THEN "accept"
                 ELSE IF MeetsPrevious THEN "credit" ELSE "refuse"
     IN Goto("request", next, val["request"])
  /\ UNCHANGED <<context, ripe, share, line, miner, history>>

(* Mutant: it is credited at the current difficulty. *)
CreditCurrent ==
  /\ At("request", "credit")
  /\ Goto("request", "accept", val["request"])
  /\ UNCHANGED <<context, ripe, share, line, miner, history>>

(* Such a share is worth the previous difficulty, which is read again. *)
CreditPrevious ==
  /\ At("request", "credit")
  /\ Goto("request", "accept", previous)
  /\ UNCHANGED <<context, ripe, share, line, miner, history>>

(* The share is answered; if it was accepted, Retarget may follow instead. *)
Respond ==
  /\ At("request", "accept") \/ At("request", "refuse")
  /\ share' = None
  /\ Goto("request", "rest", None)
  /\ UNCHANGED <<context, ripe, line, miner, history>>

-----------------------------------------------------------------------------
(* Retargets and their application. *)

(* VarDiffManager.Update after a share, or IdleUpdate in the sweep, and the new  *)
(* difficulty becomes the pending one.                                           *)
Retarget(t, d) ==
  /\ \/ t = "request" /\ At(t, "accept")
     \/ t = "idle" /\ At(t, "rest") /\ authorized
  /\ vardiff # "off"
  /\ ripe
  /\ d >= MinDiff
  /\ d # difficulty
  /\ vardiff' = "used"
  /\ ripe' = FALSE
  /\ pending' = d
  /\ applied' = 0
  /\ Goto(t, "check", None)
  /\ share' = (IF t = "request" THEN None ELSE share)
  /\ UNCHANGED <<difficulty, previous, authorized, line, miner, apart, crossed>>

(* A job is broadcast: the pending difficulty of an authorised connection is     *)
(* applied first.                                                                *)
OnNewJob ==
  /\ At("job", "rest")
  /\ authorized
  /\ pending # None
  /\ Goto("job", "check", None)
  /\ UNCHANGED <<context, ripe, share, line, miner, history>>

(* ApplyPendingDifficulty: HasValue ... *)
HasPending(t) ==
  /\ At(t, "check")
  /\ Goto(t, IF pending # None THEN "take" ELSE "rest", None)
  /\ UNCHANGED <<context, ripe, share, line, miner, history>>

(* ... and Value.  If another thread has reset the field in the meantime, reading *)
(* it throws, or finds the flag still set and the number already zero.           *)
TakeValue(t) ==
  /\ At(t, "take")
  /\ \/ /\ Goto(t, "remember", IF pending = None THEN 0 ELSE pending)
        /\ UNCHANGED <<context, ripe, share, line, miner, history>>
     \/ /\ pending = None
        /\ \/ t \notin Catching /\ Disconnect
           \/ /\ t \in Catching
              /\ Goto(t, "rest", None)
              /\ UNCHANGED <<context, ripe, share, line, miner, history>>

(* SetDifficulty, by ApplyPendingDifficulty or on the miner's behalf: first half ... *)
Remember(t) ==
  /\ previous' = difficulty
  /\ \/ /\ At(t, "remember")
        /\ Goto(t, "assign", val[t])
        /\ applied' = applied + 1
     \/ /\ At(t, "rememberOwn")
        /\ Goto(t, "assignOwn", val[t])
        /\ UNCHANGED applied
  /\ UNCHANGED <<difficulty, pending, vardiff, authorized, ripe, share, line, miner, apart, crossed>>

(* ... and second half. *)
Assign(t) ==
  /\ difficulty' = val[t]
  /\ crossed' = (crossed \/ Crosses(t, val[t]))
  /\ \/ At(t, "assign") /\ Goto(t, "clear", None)
     \/ At(t, "assignOwn") /\ Goto(t, "announce", None)
  /\ UNCHANGED <<previous, pending, vardiff, authorized, ripe, share, line, miner, apart, applied>>

(* Mutant: what is announced is the difficulty that was pending, not the one that *)
(* the connection has by then.                                                    *)
ClearAndTell(t) ==
  /\ At(t, "clear")
  /\ pending' = None
  /\ Goto(t, "notify", pending)
  /\ UNCHANGED <<difficulty, previous, vardiff, authorized, ripe, share, line, miner, history>>

Clear(t) ==
  /\ At(t, "clear")
  /\ pending' = None
  /\ Goto(t, "announce", None)
  /\ UNCHANGED <<difficulty, previous, vardiff, authorized, ripe, share, line, miner, history>>

(* mining.set_difficulty carries the difficulty read now ... *)
Announce(t) ==
  /\ At(t, "announce")
  /\ Goto(t, "notify", difficulty)
  /\ crossed' = Crosses(t, difficulty)
  /\ UNCHANGED <<context, ripe, share, line, miner, apart, applied>>

(* ... and is sent.  So are replies and jobs, None in the thread's hands.  (The  *)
(* job that follows an announcement is one that may be sent.)                    *)
Post(t) ==
  /\ At(t, "rest")
  /\ IF t = "request" THEN Free ELSE authorized
  /\ Goto(t, "notify", None)
  /\ UNCHANGED <<context, ripe, share, line, miner, history>>

Count == Len(sendQueue) + others

(* Mutant: nobody looks at the length of the queue. *)
NotifyAnyway(t) ==
  /\ At(t, "notify")
  /\ Goto(t, "send", val[t])
  /\ UNCHANGED <<context, ripe, share, line, miner, history>>

(* SendAsync: a full queue throws ... *)
Notify(t) ==
  /\ At(t, "notify")
  /\ \/ /\ Count < QueueCapacity
        /\ Goto(t, "send", val[t])
        /\ UNCHANGED <<context, ripe, share, line, miner, history>>
     \/ /\ Count >= QueueCapacity
        /\ \/ t \notin Catching /\ Disconnect
           \/ /\ t \in Catching
              /\ Goto(t, "rest", None)
              /\ apart' = (apart \/ val[t] # None)
              /\ crossed' = (crossed \/ val[t] # None)
              /\ UNCHANGED <<context, ripe, share, line, miner, applied>>

(* ... and where there was room the message is queued, whoever was faster. *)
Send(t) ==
  /\ At(t, "send")
  /\ IF val[t] = None
     THEN others' = others + 1 /\ UNCHANGED sendQueue
     ELSE sendQueue' = Append(sendQueue, val[t]) /\ UNCHANGED others
  /\ Goto(t, "rest", None)
  /\ UNCHANGED <<context, ripe, share, wire, miner, history>>

(* ProcessSendQueueAsync: the next message is taken out of the queue ... *)
TakeOther ==
  /\ wire = None
  /\ others > 0
  /\ IF Count - 1 >= QueueCapacity
     THEN Disconnect
     ELSE /\ others' = others - 1
          /\ UNCHANGED <<context, ripe, pc, val, share, sendQueue, wire, miner, history>>

Transmit ==
  /\ wire = None
  /\ sendQueue # <<>>
  /\ wire' = Head(sendQueue)
  /\ sendQueue' = Tail(sendQueue)
  /\ UNCHANGED <<context, ripe, pc, val, share, others, miner, history>>

(* ... and sent, and the miner changes over.  Then the loop looks at the queue    *)
(* again and gives up when it is full.                                            *)
Learn ==
  /\ wire # None
  /\ IF Count >= QueueCapacity
     THEN Disconnect
     ELSE /\ works' = wire
          /\ wire' = None
          /\ UNCHANGED <<context, ripe, pc, val, share, sendQueue, others, toPool, asked, history>>

-----------------------------------------------------------------------------
Apply(t) ==
  \/ HasPending(t)
  \/ TakeValue(t)
  \/ Remember(t)
  \/ Assign(t)
  \/ Clear(t)
  \/ Announce(t)
  \/ Notify(t)
  \/ Send(t)

Handle ==
  \/ ConfigureMinimumDiff
  \/ OnSubscribe
  \/ OnAuthorize
  \/ StaticDiff
  \/ OnSuggestDifficulty
  \/ OnSubmit
  \/ Compare
  \/ CreditPrevious
  \/ Respond

Next ==
  \/ Handle
  \/ \E t \in Thread : Apply(t)
  \/ \E t \in {"request", "idle"}, d \in Difficulty : Retarget(t, d)
  \/ OnNewJob
  \/ \E t \in Posting : Post(t)
  \/ TakeOther
  \/ Transmit
  \/ \E kind \in {"configure", "subscribe", "authorize", "suggest", "share"},
        d \in Given \cup {None} : Ask(kind, d)
  \/ Learn
  \/ Settle
  \/ Disconnect

Spec == Init /\ [][Next]_vars
-----------------------------------------------------------------------------
Step == {"rest", "static", "compare", "credit", "accept", "refuse",
         "check", "take", "remember", "assign",
         "rememberOwn", "assignOwn", "clear", "announce", "notify", "send"}

(* The subscription has been handled: a difficulty was announced or is about to be. *)
Subscribed ==
  /\ "subscribe" \in asked
  /\ \A i \in DOMAIN toPool : toPool[i].kind # "subscribe"

(* The types of the variables; requests and messages never take more room than    *)
(* they are given: threads that see room at the same time exceed the capacity of  *)
(* the send queue by at most two messages.                                        *)
TypeOK ==
  /\ difficulty \in Given
  /\ previous \in Given \cup {None}
  /\ pending \in Difficulty \cup {None}
  /\ vardiff \in {"new", "used", "off"}
  /\ authorized \in BOOLEAN
  /\ ripe \in BOOLEAN
  /\ pc \in [Thread -> Step]
  /\ val \in [Thread -> Given \cup {None}]
  /\ share \in Given \cup {None}
  /\ toPool \in Seq(Request)
  /\ Len(toPool) <= MaxRequests
  /\ sendQueue \in Seq(Given)
  /\ others \in Nat
  /\ Count <= QueueCapacity + 2
  /\ wire \in Given \cup {None}
  /\ asked \subseteq {"subscribe", "authorize"}
  /\ works \in Given \cup {None}
  /\ apart \in BOOLEAN
  /\ applied \in Nat
  /\ crossed \in BOOLEAN

(* A share that meets what its miner was told is never refused as too low, and   *)
(* never credited at more than it met (ProcessShare reads the current difficulty *)
(* once and the previous one up to three times, while the other threads write    *)
(* them), but in three cases: the miner has just set a difficulty itself, an     *)
(* announcement was dropped by a full queue, or two threads applied one retarget, *)
(* so that previous is the new one, too.                                         *)
FairlyJudged ==
  \/ At("request", "refuse")
  \/ At("request", "accept") /\ val["request"] > share
  => apart \/ applied > 1

(* Whenever everything has come to rest, the miner works at the difficulty the   *)
(* pool has for it, whoever set and announced it: the three threads read and     *)
(* queue announcements without a lock, and several different ones may be under   *)
(* way at once.  The only ways to leave the two apart are a change that falls    *)
(* between another thread's reading of the difficulty and its queueing, and a    *)
(* full queue; and the next announcement heals both.                             *)
Agreed == Subscribed /\ Rest => works = difficulty \/ crossed
=============================================================================
