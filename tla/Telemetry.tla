------------------------------ MODULE Telemetry ------------------------------
(***************************************************************************)
(* The telemetry of an exported package: the delivery queue in the page    *)
(* (scorm/template/app/telemetry/telemetry.js), the network, and the       *)
(* handlers that file what arrives (server/routes/scorm-telemetry.ts).     *)
(*                                                                         *)
(* An item is sent at once; a transient failure queues it, a refusal ends  *)
(* delivery for the session.  One drain at a time empties the queue, armed *)
(* by a backoff timer.  The length of the backoff (retryRound) is not      *)
(* modelled: the timer fires at any time after it is armed.  Requests may  *)
(* be lost, served late or served after the page gave up on them, and the  *)
(* page may be closed and opened again, which begins another session.      *)
(***************************************************************************)
EXTENDS Integers, Sequences, FiniteSets, SequencesExt

CONSTANTS
  MAX_RETRIES,  \* retry budget of an item
  MAX_BUFFER,   \* length of the queue
  MaxItems,     \* bound: items sent in all
  MaxRuns,      \* bound: attempts begun on one page
  MaxSessions,  \* bound: times the page is opened
  MaxLate,      \* bound: requests under way that the page gave up on
  keepalive     \* canKeepalive() of the browser

ASSUME TelemetryAssumption ==
  /\ MAX_RETRIES \in Nat
  /\ MAX_BUFFER \in Nat \ {0}
  /\ MaxItems \in Nat
  /\ MaxRuns \in Nat
  /\ MaxSessions \in Nat \ {0}
  /\ MaxLate \in Nat
  /\ keepalive \in BOOLEAN

VARIABLES
  session,   \* sessionId
  run,       \* attempts the learner has begun on this page (0 before the first)
  number,    \* currentAttemptNumber
  stopped,   \* a refusal was seen
  buffer,    \* offlineBuffer
  sending,   \* a drain is running
  hand,      \* the item the drain is delivering
  armed,     \* retryTimer
  direct,    \* items whose first delivery is not answered yet
  log,       \* every item ever sent: what it carries and what became of it
  net,       \* requests that are not over
  attempts   \* rows of scorm_attempts: <<session, attempt number>>

page   == <<session, run, number, stopped, buffer, sending, hand, armed, direct>>
vars   == <<page, log, net, attempts>>

Kinds == {"start", "answer", "finish"}
Ids   == 1 .. MaxItems

(* `acked` and the counters `tries` and `stored` record what happened to the *)
(* item; the program keeps none of them.                                    *)
Item ==
  [session : 1 .. MaxSessions, run : Nat, number : Nat, kind : Kinds,
   beacon : BOOLEAN, tries : Nat, stored : Nat, acked : BOOLEAN]

Entry  == [id : Ids, retryCount : Nat]
Nobody == [id |-> 0, retryCount |-> 0]

(* A beacon being handed to the browser, a request on its way, a start that  *)
(* found no row, or a reply.                                                *)
Request ==
  [id : Ids, try : Nat, step : {"queueing", "going", "creating", "ok", "stop", "retry"}]

TypeOK ==
  /\ session \in 1 .. MaxSessions
  /\ run \in Nat /\ number \in Nat
  /\ stopped \in BOOLEAN /\ sending \in BOOLEAN /\ armed \in BOOLEAN
  /\ buffer \in Seq(Entry)
  /\ hand \in Entry \cup {Nobody}
  /\ direct \in SUBSET Ids
  /\ log \in Seq(Item) /\ Len(log) <= MaxItems
  /\ net \in SUBSET Request
  /\ attempts \in SUBSET ((1 .. MaxSessions) \X Nat)

(* The page is waiting for the end of a delivery, and for this answer.      *)
Delivering(id) == id \in direct \/ id = hand.id
Awaited(r)     == Delivering(r.id) /\ r.try = log[r.id].tries
Late           == {r \in net : ~Awaited(r)}

-----------------------------------------------------------------------------
(* The page: sending                                                        *)

(* attempt(): the request of delivery try of an item.                       *)
Attempt(id, try, beacon) ==
  [id |-> id, try |-> try, step |-> IF beacon THEN "queueing" ELSE "going"]

(* Mutant: items are sent after delivery was stopped. *)
SendAlways(kind, r, n, beacon) ==
  /\ Len(log) < MaxItems
  /\ log' = Append(log, [session |-> session, run |-> r, number |-> n, kind |-> kind,
                         beacon |-> beacon, tries |-> 1, stored |-> 0, acked |-> FALSE])
  /\ direct' = direct \cup {Len(log) + 1}
  /\ net' = net \cup {Attempt(Len(log) + 1, 1, beacon)}

(* send() of an item of attempt r labelled n.                               *)
Send(kind, r, n, beacon) ==
  IF stopped
  THEN UNCHANGED <<log, direct, net>>
  ELSE /\ Len(log) < MaxItems
       /\ log' = Append(log, [session |-> session, run |-> r, number |-> n, kind |-> kind,
                              beacon |-> beacon, tries |-> 1, stored |-> 0, acked |-> FALSE])
       /\ direct' = direct \cup {Len(log) + 1}
       /\ net' = net \cup {Attempt(Len(log) + 1, 1, beacon)}

Start ==
  /\ run = 0
  /\ run' = 1
  /\ Send("start", 1, number, FALSE)
  /\ UNCHANGED <<session, number, stopped, buffer, sending, hand, armed, attempts>>

startNewAttempt ==
  /\ run > 0 /\ run < MaxRuns
  /\ run' = run + 1
  /\ number' = number + 1
  /\ Send("start", run + 1, number + 1, FALSE)
  /\ UNCHANGED <<session, stopped, buffer, sending, hand, armed, attempts>>

answer ==
  /\ run > 0
  /\ Send("answer", run, number, FALSE)
  /\ UNCHANGED <<session, run, number, stopped, buffer, sending, hand, armed, attempts>>

(* A result goes out as a beacon where fetch has no keepalive.  One that is *)
(* too large goes out as an ordinary request, like an answer.               *)
finish ==
  /\ run > 0
  /\ Send("finish", run, number, ~keepalive)
  /\ UNCHANGED <<session, run, number, stopped, buffer, sending, hand, armed, attempts>>

-----------------------------------------------------------------------------
(* The page: the retry queue                                                *)

(* The oldest items of a queue that is too long are dropped.                *)
trimmed(b) == SubSeq(b, Len(b) - MAX_BUFFER + 1, Len(b))

enqueue(id, retryCount) ==
  LET b == Append(buffer, [id |-> id, retryCount |-> retryCount])
  IN  IF stopped \/ retryCount > MAX_RETRIES THEN buffer
      ELSE IF Len(b) > MAX_BUFFER THEN trimmed(b) ELSE b

(* Mutant: a timer is armed only by a drain that ends. *)
scheduleRetryAtEnd(busy, b) == armed \/ (sending /\ ~busy /\ ~stopped /\ b # <<>>)

scheduleRetry(busy, b) == armed \/ (~busy /\ ~stopped /\ b # <<>>)

halt ==
  /\ stopped' = TRUE
  /\ buffer' = <<>>
  /\ armed' = FALSE

(* One turn of the drain: the head leaves the queue and is delivered.       *)
takeHead ==
  /\ sending' = TRUE
  /\ hand' = Head(buffer)
  /\ buffer' = Tail(buffer)
  /\ log' = [log EXCEPT ![Head(buffer).id].tries = @ + 1]
  /\ LET id == Head(buffer).id
     IN  net' = net \cup {Attempt(id, log[id].tries + 1, log[id].beacon)}

processBuffer ==
  IF sending \/ stopped \/ buffer = <<>>
  THEN UNCHANGED <<sending, hand, buffer, log, net>>
  ELSE takeHead

RetryTimer ==
  /\ armed
  /\ armed' = FALSE
  /\ processBuffer
  /\ UNCHANGED <<session, run, number, stopped, direct, attempts>>

(* The browser's online event, whether or not a timer is armed.             *)
Online ==
  /\ processBuffer
  /\ UNCHANGED <<session, run, number, stopped, armed, direct, attempts>>

(* The 100 ms between two deliveries are over: the loop goes on, or ends.   *)
PauseOver ==
  /\ sending /\ hand = Nobody
  /\ IF buffer # <<>> /\ ~stopped
     THEN takeHead /\ UNCHANGED armed
     ELSE /\ sending' = FALSE
          /\ armed' = scheduleRetry(FALSE, buffer)
          /\ UNCHANGED <<hand, buffer, log, net>>
  /\ UNCHANGED <<session, run, number, stopped, direct, attempts>>

-----------------------------------------------------------------------------
(* The page: what becomes of one delivery                                   *)

Delivered(id) ==
  /\ log' = [log EXCEPT ![id].acked = TRUE]
  /\ UNCHANGED <<stopped, buffer, armed>>
  /\ IF id \in direct
     THEN direct' = direct \ {id} /\ UNCHANGED <<sending, hand>>
     ELSE hand' = Nobody /\ UNCHANGED <<direct, sending>>

Refused(id) ==
  /\ halt
  /\ UNCHANGED log
  /\ IF id \in direct
     THEN direct' = direct \ {id} /\ UNCHANGED <<sending, hand>>
     ELSE hand' = Nobody /\ sending' = FALSE /\ UNCHANGED direct

(* Mutant: a drain that ends its round does not arm the timer again. *)
FailedWithoutTimer(id) ==
  /\ UNCHANGED <<stopped, log>>
  /\ IF id \in direct
     THEN /\ direct' = direct \ {id}
          /\ buffer' = enqueue(id, 1)
          /\ armed' = scheduleRetry(sending, buffer')
          /\ UNCHANGED <<sending, hand>>
     ELSE /\ buffer' = enqueue(id, hand.retryCount + 1)
          /\ hand' = Nobody
          /\ sending' = FALSE
          /\ UNCHANGED <<direct, armed>>

(* A transient failure: the item is queued, and a drain ends its round.     *)
Failed(id) ==
  /\ UNCHANGED <<stopped, log>>
  /\ IF id \in direct
     THEN /\ direct' = direct \ {id}
          /\ buffer' = enqueue(id, 1)
          /\ armed' = scheduleRetry(sending, buffer')
          /\ UNCHANGED <<sending, hand>>
     ELSE /\ buffer' = enqueue(id, hand.retryCount + 1)
          /\ hand' = Nobody
          /\ sending' = FALSE
          /\ armed' = scheduleRetry(FALSE, buffer')
          /\ UNCHANGED direct

(* The delivery fails in the browser, on the way there or back, or the      *)
(* server answers 5xx or 408.  The request may still be served.             *)
TransientFailure(r) ==
  /\ Awaited(r) /\ r.step # "queueing"
  /\ \/ net' = net \ {r}
     \/ /\ r.step \in {"going", "creating"} /\ Cardinality(Late) < MaxLate
        /\ UNCHANGED net
  /\ Failed(r.id)
  /\ UNCHANGED <<session, run, number, attempts>>

(* SubtleCrypto is missing or broken: the request never leaves.             *)
SignFails(r) ==
  /\ Awaited(r) /\ r.step \in {"queueing", "going"}
  /\ net' = net \ {r}
  /\ Refused(r.id)
  /\ UNCHANGED <<session, run, number, attempts>>

(* sendBeacon: queued, which counts as sent, or refused by the browser.     *)
Beacon(r) ==
  /\ Awaited(r) /\ r.step = "queueing"
  /\ \/ /\ net' = (net \ {r}) \cup {[r EXCEPT !.step = "going"]}
        /\ Delivered(r.id)
     \/ /\ net' = net \ {r}
        /\ Failed(r.id)
  /\ UNCHANGED <<session, run, number, attempts>>

(* Success.  The reply of a start sets the attempt number of the page.      *)
ReplyOk(r) ==
  /\ Awaited(r) /\ r.step = "ok"
  /\ net' = net \ {r}
  /\ Delivered(r.id)
  /\ number' = IF log[r.id].kind = "start" THEN log[r.id].number ELSE number
  /\ UNCHANGED <<session, run, attempts>>

(* A 4xx other than 408.                                                    *)
ReplyRefused(r) ==
  /\ Awaited(r) /\ r.step = "stop"
  /\ net' = net \ {r}
  /\ Refused(r.id)
  /\ UNCHANGED <<session, run, number, attempts>>

(* The page is closed and opened again: it restores the attempt that was    *)
(* running, without a start, or shows the start page.  What was under way   *)
(* is lost or arrives late.                                                 *)
Reopen ==
  /\ session < MaxSessions
  /\ session' = session + 1
  /\ run' \in {0} \cup (IF run > 0 THEN {1} ELSE {})
  /\ number' = 1
  /\ stopped' = FALSE
  /\ buffer' = <<>>
  /\ sending' = FALSE
  /\ hand' = Nobody
  /\ armed' = FALSE
  /\ direct' = {}
  /\ net' \in {late \in SUBSET {r \in net : r.step \in {"going", "creating"}} :
                 Cardinality(late) <= MaxLate}
  /\ UNCHANGED <<log, attempts>>

-----------------------------------------------------------------------------
(* The server                                                               *)

(* The reply is on its way if the page still waits for it.                  *)
Answered(r, v) ==
  net' = (net \ {r}) \cup (IF Awaited(r) THEN {[r EXCEPT !.step = v]} ELSE {})

AttemptOf(r) == <<log[r.id].session, log[r.id].number>>

(* The package is inactive (404), the key or the timestamp is not accepted  *)
(* (401), or a rate limit of the session or the package is reached (429).   *)
(* An author may deactivate the package or change its key, and other        *)
(* traffic may exhaust the limits, at any time.                             *)
Refuse(r) ==
  /\ r.step = "going"
  /\ Answered(r, "stop")
  /\ UNCHANGED <<page, log, attempts>>

(* POST /start: the row exists, or it is to be created.                     *)
HandleStart(r) ==
  /\ r.step = "going" /\ log[r.id].kind = "start"
  /\ IF AttemptOf(r) \in attempts
     THEN Answered(r, "ok")
     ELSE net' = (net \ {r}) \cup {[r EXCEPT !.step = "creating"]}
  /\ UNCHANGED <<page, log, attempts>>

(* createScormAttempt: the unique index refuses a second row (500).         *)
CreateAttempt(r) ==
  /\ r.step = "creating"
  /\ IF AttemptOf(r) \in attempts
     THEN Answered(r, "retry") /\ UNCHANGED <<attempts, log>>
     ELSE /\ attempts' = attempts \cup {AttemptOf(r)}
          /\ log' = [log EXCEPT ![r.id].stored = @ + 1]
          /\ Answered(r, "ok")
  /\ UNCHANGED page

(* Mutant: an item without its attempt is acknowledged and not filed. *)
HandleItemLenient(r) ==
  /\ r.step = "going" /\ log[r.id].kind # "start"
  /\ IF AttemptOf(r) \in attempts
     THEN /\ log' = [log EXCEPT ![r.id].stored = @ + 1]
          /\ Answered(r, "ok") \/ Answered(r, "retry")
     ELSE Answered(r, "ok") /\ UNCHANGED log
  /\ UNCHANGED <<page, attempts>>

(* Mutant: a request whose write failed late is served again by the server. *)
HandleItemAgain(r) ==
  /\ r.step = "going" /\ log[r.id].kind # "start"
  /\ IF AttemptOf(r) \in attempts
     THEN /\ log' = [log EXCEPT ![r.id].stored = @ + 1]
          /\ Answered(r, "ok") \/ UNCHANGED net
     ELSE Answered(r, "stop") /\ UNCHANGED log
  /\ UNCHANGED <<page, attempts>>

(* POST /answer, POST /finish: refused without the attempt; otherwise the   *)
(* row is written, and an error after that asks for another try.            *)
HandleItem(r) ==
  /\ r.step = "going" /\ log[r.id].kind # "start"
  /\ IF AttemptOf(r) \in attempts
     THEN /\ log' = [log EXCEPT ![r.id].stored = @ + 1]
          /\ Answered(r, "ok") \/ Answered(r, "retry")
     ELSE Answered(r, "stop") /\ UNCHANGED log
  /\ UNCHANGED <<page, attempts>>

-----------------------------------------------------------------------------
Init ==
  /\ session = 1 /\ run = 0 /\ number = 1
  /\ stopped = FALSE /\ sending = FALSE /\ armed = FALSE
  /\ buffer = <<>> /\ hand = Nobody /\ direct = {}
  /\ log = <<>> /\ net = {} /\ attempts = {}

Page   == Start \/ startNewAttempt \/ answer \/ finish \/ Reopen
Timers == RetryTimer \/ Online \/ PauseOver

Outcome(r) ==
  \/ TransientFailure(r) \/ SignFails(r) \/ Beacon(r)
  \/ ReplyOk(r) \/ ReplyRefused(r)
Ends       == \E r \in net : Outcome(r)
Handle(r)  == Refuse(r) \/ HandleStart(r) \/ CreateAttempt(r) \/ HandleItem(r)

Next == Page \/ Timers \/ Ends \/ \E r \in net : Handle(r)

Spec == Init /\ [][Next]_vars

(* Timers fire, and every delivery the page waits for comes to an end.      *)
Fairness ==
  /\ WF_vars(RetryTimer)
  /\ WF_vars(PauseOver)
  /\ WF_vars(Ends)

FairSpec == Spec /\ Fairness

-----------------------------------------------------------------------------
(* Where an item may wait in the page.                                      *)
Queued(id)  == \E i \in DOMAIN buffer : buffer[i].id = id
Pending(id) == id \in direct \/ id = hand.id \/ Queued(id)

(* An item is in one place only: in its first delivery, in the hand of the  *)
(* drain, or once in the queue (telemetry.js:107, the version that queued   *)
(* it twice never spent its budget).                                        *)
SingleCopy ==
  /\ \A i, j \in DOMAIN buffer : buffer[i].id = buffer[j].id => i = j
  /\ \A i \in DOMAIN buffer : buffer[i].id \notin direct \cup {hand.id}
  /\ hand.id \notin direct

(* Whatever the network does, an item is sent at most MAX_RETRIES times more *)
(* than once.                                                               *)
BudgetSpent == \A id \in DOMAIN log : log[id].tries <= MAX_RETRIES + 1

(* The server files an item at most once for every time it was sent: the     *)
(* budget of the page bounds the copies in the analytics, where nothing     *)
(* removes duplicates.                                                      *)
CopiesBounded == BudgetSpent /\ \A id \in DOMAIN log : log[id].stored <= log[id].tries

(* The queue never outgrows its limit, however long the link is down.       *)
QueueBounded == Len(buffer) <= MAX_BUFFER

(* What is queued always has something that will deliver it: the drain that *)
(* is running, or the timer.  Nothing else looks at the queue.              *)
NothingStranded == buffer # <<>> => sending \/ armed

(* After a refusal nothing is queued and nothing is armed, whatever other   *)
(* deliveries were under way when it was seen.                              *)
QuietWhenStopped == stopped => buffer = <<>> /\ ~armed

(* The queue is sound: bounded, never forgotten, silent after a refusal.     *)
BufferSound == QueueBounded /\ NothingStranded /\ QuietWhenStopped

(* After a refusal no delivery begins in this session.                      *)
NoDeliveryAfterRefusal ==
  [][ (stopped /\ session' = session) =>
        /\ Len(log') = Len(log)
        /\ \A id \in DOMAIN log : log'[id].tries = log[id].tries ]_vars

(* What an acknowledged item stands for is on the server: the row of the    *)
(* attempt, or at least one copy of the answer or the result.               *)
Backed(id) ==
  IF log[id].kind = "start" THEN <<log[id].session, log[id].number>> \in attempts
  ELSE log[id].stored > 0

(* What the page takes for delivered is filed on the server; the browser's  *)
(* beacon queue alone is trusted without a reply.                           *)
AckMeansStored ==
  \A id \in DOMAIN log : log[id].acked /\ ~log[id].beacon => Backed(id)

(* Nothing is filed under an attempt the learner has not begun: late and    *)
(* repeated replies of /start only move the number back.                    *)
FiledNoLater ==
  /\ number <= IF run = 0 THEN 1 ELSE run
  /\ \A id \in DOMAIN log : log[id].number <= log[id].run

(* Delivery of an item comes to an end: it is delivered, dropped for good,  *)
(* refused, or the page is closed.                                          *)
Settles == \A id \in Ids : Pending(id) ~> ~Pending(id)

=============================================================================
