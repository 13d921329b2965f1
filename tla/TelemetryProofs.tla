--------------------------- MODULE TelemetryProofs ---------------------------
(***************************************************************************)
(* Proofs about Telemetry, for any budget, queue length and bounds.        *)
(***************************************************************************)
EXTENDS Telemetry, SequenceTheorems, FiniteSetTheorems, TLAPS

(* Every item the page or the network speaks of has been sent.              *)
Known ==
  /\ direct \subseteq DOMAIN log
  /\ hand.id # 0 => hand.id \in DOMAIN log
  /\ \A i \in DOMAIN buffer : buffer[i].id \in DOMAIN log
  /\ \A r \in net : r.id \in DOMAIN log

TypeInv == TypeOK /\ Known

(* Sequence e is what is left of b when some of its head is dropped.        *)
Suffix(e, b) ==
  \E k \in Nat : Len(e) + k = Len(b) /\ \A i \in 1 .. Len(e) : e[i] = b[i + k]

(* What enqueue returns: the queue as it was, or a suffix of the queue with *)
(* the item at its end, within the limit.                                   *)
Enqueued(e, b) ==
  \/ e = buffer
  \/ ~stopped /\ e # <<>> /\ Len(e) <= MAX_BUFFER /\ Suffix(e, b)

LEMMA TrimmedFacts ==
  ASSUME NEW b \in Seq(Entry), Len(b) > MAX_BUFFER
  PROVE  /\ trimmed(b) \in Seq(Entry)
         /\ Len(trimmed(b)) = MAX_BUFFER
         /\ Suffix(trimmed(b), b)
<1> DEFINE k == Len(b) - MAX_BUFFER
<1>1. k \in Nat /\ MAX_BUFFER \in Nat \ {0} /\ Len(b) \in Nat /\ k + 1 \in 1 .. Len(b) + 1
  BY TelemetryAssumption
<1>2. trimmed(b) = SubSeq(b, k + 1, Len(b))
  BY DEF trimmed
<1> HIDE DEF k
<1>3. /\ SubSeq(b, k + 1, Len(b)) \in Seq(Entry)
      /\ Len(SubSeq(b, k + 1, Len(b))) = Len(b) - k
      /\ \A i \in 1 .. Len(b) - k : SubSeq(b, k + 1, Len(b))[i] = b[i + k]
  BY <1>1, SubSeqProperties
<1>4. Len(b) - k = MAX_BUFFER
  BY <1>1 DEF k
<1> QED
  BY <1>1, <1>2, <1>3, <1>4 DEF Suffix

LEMMA EnqueueFacts ==
  ASSUME TypeOK, NEW id \in Ids, NEW c \in Nat
  PROVE  /\ enqueue(id, c) \in Seq(Entry)
         /\ Enqueued(enqueue(id, c), Append(buffer, [id |-> id, retryCount |-> c]))
         /\ enqueue(id, c) # buffer => c <= MAX_RETRIES
<1> DEFINE x == [id |-> id, retryCount |-> c]
           b == Append(buffer, x)
<1>1. x \in Entry /\ buffer \in Seq(Entry)
  BY DEF TypeOK, Entry
<1>2. b \in Seq(Entry) /\ Len(b) = Len(buffer) + 1 /\ Len(buffer) \in Nat
  BY <1>1
<1>3. stopped \in BOOLEAN /\ MAX_RETRIES \in Nat /\ MAX_BUFFER \in Nat \ {0}
  BY TelemetryAssumption DEF TypeOK
<1>4. CASE stopped \/ c > MAX_RETRIES
  BY <1>1, <1>4 DEF enqueue, Enqueued
<1>5. CASE ~(stopped \/ c > MAX_RETRIES) /\ Len(b) <= MAX_BUFFER
  <2>1. enqueue(id, c) = b
    BY <1>2, <1>3, <1>5 DEF enqueue
  <2> HIDE DEF b
  <2>2. Suffix(b, b)
    <3>1. Len(b) + 0 = Len(b) /\ \A i \in 1 .. Len(b) : b[i] = b[i + 0]
      BY <1>2
    <3> QED
      BY <3>1 DEF Suffix
  <2>3. b # <<>>
    BY <1>2
  <2> QED
    BY <1>2, <1>3, <1>5, <2>1, <2>2, <2>3 DEF Enqueued, b
<1>6. CASE ~(stopped \/ c > MAX_RETRIES) /\ Len(b) > MAX_BUFFER
  <2>1. enqueue(id, c) = trimmed(b)
    BY <1>6 DEF enqueue
  <2> HIDE DEF b
  <2>2. trimmed(b) \in Seq(Entry) /\ Len(trimmed(b)) = MAX_BUFFER /\ Suffix(trimmed(b), b)
    BY <1>2, <1>6, TrimmedFacts
  <2>3. trimmed(b) # <<>>
    BY <2>2, <1>3
  <2> QED
    BY <1>3, <1>6, <2>1, <2>2, <2>3 DEF Enqueued, b
<1> QED
  BY <1>2, <1>3, <1>4, <1>5, <1>6

(* The log after a step that changes one item: it keeps its length and what *)
(* the items carry; the item is sent once more, filed once more or marked.  *)
SameItem(x, y) ==
  /\ x.session = y.session /\ x.run = y.run /\ x.number = y.number
  /\ x.kind = y.kind /\ x.beacon = y.beacon

LogKept(L) ==
  /\ L \in Seq(Item) /\ Len(L) = Len(log) /\ DOMAIN L = DOMAIN log
  /\ \A j \in DOMAIN log : SameItem(L[j], log[j])

Tried(L, id) ==
  \A j \in DOMAIN log : /\ L[j].tries = IF j = id THEN log[j].tries + 1 ELSE log[j].tries
                        /\ L[j].stored = log[j].stored /\ L[j].acked = log[j].acked

Filed(L, id) ==
  \A j \in DOMAIN log : /\ L[j].stored = IF j = id THEN log[j].stored + 1 ELSE log[j].stored
                        /\ L[j].tries = log[j].tries /\ L[j].acked = log[j].acked

Acked(L, id) ==
  \A j \in DOMAIN log : /\ L[j].acked = (j = id \/ log[j].acked)
                        /\ L[j].tries = log[j].tries /\ L[j].stored = log[j].stored

LEMMA LogUpdates ==
  ASSUME TypeOK, NEW id \in DOMAIN log
  PROVE  /\ LogKept([log EXCEPT ![id].tries = @ + 1]) /\ Tried([log EXCEPT ![id].tries = @ + 1], id)
         /\ LogKept([log EXCEPT ![id].stored = @ + 1]) /\ Filed([log EXCEPT ![id].stored = @ + 1], id)
         /\ LogKept([log EXCEPT ![id].acked = TRUE]) /\ Acked([log EXCEPT ![id].acked = TRUE], id)
<1>1. log \in Seq(Item) /\ log[id] \in Item /\ \A j \in DOMAIN log : log[j] \in Item
  BY DEF TypeOK
<1>2. ASSUME NEW x \in Item
      PROVE  /\ [log EXCEPT ![id] = x] \in Seq(Item)
             /\ Len([log EXCEPT ![id] = x]) = Len(log)
             /\ DOMAIN [log EXCEPT ![id] = x] = DOMAIN log
             /\ \A j \in DOMAIN log : [log EXCEPT ![id] = x][j] = IF j = id THEN x ELSE log[j]
  BY <1>1, ExceptSeq
<1>3. log[id].tries + 1 \in Nat /\ log[id].stored + 1 \in Nat
  BY <1>1 DEF Item
<1>4. ASSUME NEW n \in Nat
      PROVE  /\ [log[id] EXCEPT !.tries = n] \in Item
             /\ [log[id] EXCEPT !.stored = n] \in Item
             /\ [log[id] EXCEPT !.acked = TRUE] \in Item
  BY <1>1 DEF Item
<1>5. LogKept([log EXCEPT ![id].tries = @ + 1]) /\ Tried([log EXCEPT ![id].tries = @ + 1], id)
  <2> DEFINE x == [log[id] EXCEPT !.tries = @ + 1]
  <2>1. x \in Item /\ SameItem(x, log[id]) /\ x.tries = log[id].tries + 1
        /\ x.stored = log[id].stored /\ x.acked = log[id].acked
    BY <1>1, <1>3, <1>4 DEF Item, SameItem
  <2> HIDE DEF x
  <2>2. LogKept([log EXCEPT ![id] = x]) /\ Tried([log EXCEPT ![id] = x], id)
    BY <1>1, <1>2, <2>1 DEF LogKept, SameItem, Tried
  <2> QED
    BY <2>2 DEF x
<1>6. LogKept([log EXCEPT ![id].stored = @ + 1]) /\ Filed([log EXCEPT ![id].stored = @ + 1], id)
  <2> DEFINE x == [log[id] EXCEPT !.stored = @ + 1]
  <2>1. x \in Item /\ SameItem(x, log[id]) /\ x.stored = log[id].stored + 1
        /\ x.tries = log[id].tries /\ x.acked = log[id].acked
    BY <1>1, <1>3, <1>4 DEF Item, SameItem
  <2> HIDE DEF x
  <2>2. LogKept([log EXCEPT ![id] = x]) /\ Filed([log EXCEPT ![id] = x], id)
    BY <1>1, <1>2, <2>1 DEF LogKept, SameItem, Filed
  <2> QED
    BY <2>2 DEF x
<1>7. LogKept([log EXCEPT ![id].acked = TRUE]) /\ Acked([log EXCEPT ![id].acked = TRUE], id)
  <2> DEFINE x == [log[id] EXCEPT !.acked = TRUE]
  <2>1. x \in Item /\ SameItem(x, log[id]) /\ x.acked = TRUE
        /\ x.tries = log[id].tries /\ x.stored = log[id].stored
    BY <1>1, <1>3, <1>4 DEF Item, SameItem
  <2>2. \A j \in DOMAIN log : log[j].acked \in BOOLEAN
    BY <1>1 DEF Item
  <2> HIDE DEF x
  <2>3. LogKept([log EXCEPT ![id] = x]) /\ Acked([log EXCEPT ![id] = x], id)
    BY <1>1, <1>2, <2>1, <2>2 DEF LogKept, SameItem, Acked
  <2> QED
    BY <2>3 DEF x
<1> QED
  BY <1>5, <1>6, <1>7

(* The log and the network after a new item was sent.                       *)
Sent(new, kind, r, n, beacon) ==
  /\ new = Len(log) + 1 /\ new \in Ids /\ new \notin DOMAIN log
  /\ log' \in Seq(Item) /\ Len(log') = new /\ DOMAIN log' = DOMAIN log \cup {new}
  /\ log'[new].session = session /\ log'[new].run = r /\ log'[new].number = n
  /\ log'[new].kind = kind /\ log'[new].beacon = beacon
  /\ log'[new].tries = 1 /\ log'[new].stored = 0 /\ log'[new].acked = FALSE
  /\ \A j \in DOMAIN log : log'[j] = log[j]
  /\ direct' = direct \cup {new}
  /\ \E q \in Request : /\ net' = net \cup {q} /\ q.id = new /\ q.try = 1
                        /\ q.step = IF beacon THEN "queueing" ELSE "going"

LEMMA SendFacts ==
  ASSUME TypeInv, NEW kind \in Kinds, NEW r \in Nat, NEW n \in Nat, NEW beacon \in BOOLEAN,
         Send(kind, r, n, beacon), ~stopped
  PROVE  Sent(Len(log) + 1, kind, r, n, beacon)
<1> DEFINE x == [session |-> session, run |-> r, number |-> n, kind |-> kind,
                 beacon |-> beacon, tries |-> 1, stored |-> 0, acked |-> FALSE]
           new == Len(log) + 1
           q == Attempt(new, 1, beacon)
<1>1. log \in Seq(Item) /\ Len(log) < MaxItems /\ log' = Append(log, x)
      /\ direct' = direct \cup {new} /\ net' = net \cup {q}
  BY DEF Send, TypeInv, TypeOK
<1>2. x \in Item
  BY DEF Item, TypeInv, TypeOK
<1>3. new \in Ids /\ new \notin DOMAIN log
  BY <1>1, TelemetryAssumption DEF Ids
<1>4. q \in Request /\ q.id = new /\ q.try = 1
      /\ q.step = IF beacon THEN "queueing" ELSE "going"
  BY <1>3 DEF Attempt, Request
<1>5. log' \in Seq(Item) /\ Len(log') = new /\ log'[new] = x
      /\ \A j \in DOMAIN log : log'[j] = log[j]
  <2> HIDE DEF x
  <2> QED
    BY <1>1, <1>2, AppendProperties
<1>6. DOMAIN log' = DOMAIN log \cup {new}
  BY <1>1, <1>5
<1>7. /\ log'[new].session = session /\ log'[new].run = r /\ log'[new].number = n
      /\ log'[new].kind = kind /\ log'[new].beacon = beacon
      /\ log'[new].tries = 1 /\ log'[new].stored = 0 /\ log'[new].acked = FALSE
  BY <1>5
<1> HIDE DEF x, q
<1> QED
  BY <1>1, <1>3, <1>4, <1>5, <1>6, <1>7 DEF Sent

(* The head of the queue is taken.                                          *)
LEMMA TakeFacts ==
  ASSUME TypeInv, buffer # <<>>, takeHead
  PROVE  /\ sending' = TRUE
         /\ hand' = buffer[1] /\ hand' \in Entry /\ hand'.id \in DOMAIN log
         /\ buffer' \in Seq(Entry) /\ Len(buffer') = Len(buffer) - 1
         /\ \A i \in DOMAIN buffer' : i + 1 \in DOMAIN buffer /\ buffer'[i] = buffer[i + 1]
         /\ LogKept(log') /\ Tried(log', hand'.id)
         /\ \E q \in Request : /\ net' = net \cup {q} /\ q.id = hand'.id
                               /\ q.try = log[hand'.id].tries + 1
                               /\ q.step = IF log[hand'.id].beacon THEN "queueing" ELSE "going"
<1>1. buffer \in Seq(Entry) /\ log \in Seq(Item)
  BY DEF TypeInv, TypeOK
<1>2. Head(buffer) = buffer[1] /\ buffer[1] \in Entry /\ 1 \in DOMAIN buffer
  BY <1>1
<1>3. buffer[1].id \in DOMAIN log
  BY <1>2 DEF TypeInv, Known
<1>4. /\ buffer' \in Seq(Entry) /\ Len(buffer') = Len(buffer) - 1
      /\ \A i \in DOMAIN buffer' : i + 1 \in DOMAIN buffer /\ buffer'[i] = buffer[i + 1]
  BY <1>1, HeadTailProperties DEF takeHead
<1>5. LogKept(log') /\ Tried(log', buffer[1].id)
  BY <1>2, <1>3, LogUpdates DEF takeHead, TypeInv
<1>6. PICK q : q = Attempt(buffer[1].id, log[buffer[1].id].tries + 1, log[buffer[1].id].beacon)
  OBVIOUS
<1>7. q \in Request /\ q.id = buffer[1].id /\ q.try = log[buffer[1].id].tries + 1
      /\ q.step = IF log[buffer[1].id].beacon THEN "queueing" ELSE "going"
  <2>1. log[buffer[1].id] \in Item
    BY <1>1, <1>3
  <2>2. log[buffer[1].id].tries + 1 \in Nat /\ buffer[1].id \in Ids
    BY <1>2, <2>1 DEF Item, Entry
  <2> QED
    BY <1>6, <2>2 DEF Attempt, Request
<1>8. net' = net \cup {q}
  BY <1>2, <1>6 DEF takeHead
<1> QED
  BY <1>2, <1>3, <1>4, <1>5, <1>7, <1>8 DEF takeHead

(* The item of a delivery that ends leaves the hand or the first deliveries. *)
Leaves(id) ==
  \/ id \in direct /\ direct' = direct \ {id} /\ hand' = hand
  \/ id \notin direct /\ id = hand.id /\ direct' = direct /\ hand' = Nobody

(* The counter an item is queued with when its delivery fails.              *)
NextCount(id) == IF id \in direct THEN 1 ELSE hand.retryCount + 1

LEMMA EndFacts ==
  ASSUME TypeInv, NEW r \in net, Awaited(r)
  PROVE  /\ r.id \in Ids /\ r.id \in DOMAIN log
         /\ Delivered(r.id) => /\ Leaves(r.id) /\ buffer' = buffer /\ stopped' = stopped
                               /\ armed' = armed /\ sending' = sending
                               /\ LogKept(log') /\ Acked(log', r.id)
         /\ Refused(r.id) => /\ Leaves(r.id) /\ buffer' = <<>> /\ stopped' /\ ~armed'
                             /\ sending' = (sending /\ r.id \in direct)
                             /\ stopped' \in BOOLEAN /\ armed' \in BOOLEAN
                             /\ log' = log
         /\ Failed(r.id) => /\ Leaves(r.id) /\ stopped' = stopped /\ log' = log
                            /\ sending' = (sending /\ r.id \in direct)
                            /\ buffer' \in Seq(Entry)
                            /\ NextCount(r.id) \in Nat
                            /\ Enqueued(buffer', Append(buffer,
                                 [id |-> r.id, retryCount |-> NextCount(r.id)]))
                            /\ buffer' # buffer => NextCount(r.id) <= MAX_RETRIES
                            /\ armed' = scheduleRetry(sending', buffer')
<1>1. r.id \in DOMAIN log /\ r.id \in Ids
  BY DEF TypeInv, TypeOK, Known, Request
<1>2. r.id \in direct \/ r.id = hand.id
  BY DEF Awaited, Delivering
<1>3. sending \in BOOLEAN /\ hand.retryCount \in Nat
  BY DEF TypeInv, TypeOK, Entry, Nobody
<1>4. NextCount(r.id) \in Nat
  BY <1>3 DEF NextCount
<1>5. Delivered(r.id) => /\ Leaves(r.id) /\ buffer' = buffer /\ stopped' = stopped
                         /\ armed' = armed /\ sending' = sending
                         /\ LogKept(log') /\ Acked(log', r.id)
  BY <1>1, <1>2, LogUpdates DEF Delivered, Leaves, TypeInv
<1>6. Refused(r.id) => /\ Leaves(r.id) /\ buffer' = <<>> /\ stopped' /\ ~armed'
                       /\ sending' = (sending /\ r.id \in direct)
                       /\ stopped' \in BOOLEAN /\ armed' \in BOOLEAN
                       /\ log' = log
  BY <1>2, <1>3 DEF Refused, halt, Leaves
<1>7. Failed(r.id) => /\ Leaves(r.id) /\ stopped' = stopped /\ log' = log
                      /\ sending' = (sending /\ r.id \in direct)
                      /\ buffer' = enqueue(r.id, NextCount(r.id))
                      /\ armed' = scheduleRetry(sending', buffer')
  BY <1>2, <1>3 DEF Failed, Leaves, NextCount
<1>8. /\ enqueue(r.id, NextCount(r.id)) \in Seq(Entry)
      /\ Enqueued(enqueue(r.id, NextCount(r.id)),
                  Append(buffer, [id |-> r.id, retryCount |-> NextCount(r.id)]))
      /\ enqueue(r.id, NextCount(r.id)) # buffer => NextCount(r.id) <= MAX_RETRIES
  BY <1>1, <1>4, EnqueueFacts DEF TypeInv
<1> QED
  BY <1>1, <1>4, <1>5, <1>6, <1>7, <1>8

(* Every entry of the queue after a failure was in it, or is the new one.   *)
LEMMA EnqueuedEntries ==
  ASSUME NEW x \in Entry, NEW e \in Seq(Entry), buffer \in Seq(Entry),
         Enqueued(e, Append(buffer, x)), NEW i \in DOMAIN e
  PROVE  e[i] = x \/ \E j \in DOMAIN buffer : e[i] = buffer[j]
<1>1. CASE e = buffer
  BY <1>1
<1>2. CASE Suffix(e, Append(buffer, x))
  <2> DEFINE b == Append(buffer, x)
  <2>1. b \in Seq(Entry) /\ Len(b) = Len(buffer) + 1 /\ b[Len(buffer) + 1] = x
        /\ \A j \in 1 .. Len(buffer) : b[j] = buffer[j]
    BY AppendProperties
  <2>2. PICK k \in Nat : Len(e) + k = Len(b) /\ \A j \in 1 .. Len(e) : e[j] = b[j + k]
    BY <1>2 DEF Suffix
  <2> HIDE DEF b
  <2>3. i \in 1 .. Len(e) /\ e[i] = b[i + k] /\ i + k \in 1 .. Len(buffer) + 1
    BY <2>1, <2>2
  <2> QED
    BY <2>1, <2>3
<1> QED
  BY <1>1, <1>2 DEF Enqueued

-----------------------------------------------------------------------------
(* The ends of a delivery and the handlers leave the rest of the page alone, *)
(* and the network with nothing new but replies.                            *)

LEMMA OutcomeFacts ==
  ASSUME TypeInv, NEW r \in net, Outcome(r)
  PROVE  /\ Awaited(r)
         /\ \/ Delivered(r.id) /\ r.step \in {"ok", "queueing"}
            \/ Refused(r.id)
            \/ Failed(r.id)
         /\ session' = session /\ run' = run /\ attempts' = attempts
         /\ number' = number \/ number' = log[r.id].number
         /\ \/ net' = net \ {r}
            \/ net' = net
            \/ \E q \in Request : /\ net' = (net \ {r}) \cup {q} /\ q.step = "going"
                                  /\ q.id = r.id /\ q.try = r.try
<1>1. r \in Request
  BY DEF TypeInv, TypeOK
<1>2. [r EXCEPT !.step = "going"] \in Request /\ [r EXCEPT !.step = "going"].step = "going"
      /\ [r EXCEPT !.step = "going"].id = r.id /\ [r EXCEPT !.step = "going"].try = r.try
  BY <1>1 DEF Request
<1>3. CASE TransientFailure(r)
  BY <1>3 DEF TransientFailure
<1>4. CASE SignFails(r)
  BY <1>4 DEF SignFails
<1>5. CASE Beacon(r)
  BY <1>2, <1>5 DEF Beacon
<1>6. CASE ReplyOk(r)
  BY <1>6 DEF ReplyOk
<1>7. CASE ReplyRefused(r)
  BY <1>7 DEF ReplyRefused
<1> QED
  BY <1>3, <1>4, <1>5, <1>6, <1>7 DEF Outcome

LEMMA HandleFacts ==
  ASSUME TypeInv, NEW r \in net, Handle(r)
  PROVE  /\ UNCHANGED <<session, run, number, stopped, buffer, sending, hand, armed, direct>>
         /\ log' = log \/ (LogKept(log') /\ Filed(log', r.id))
         /\ attempts \subseteq attempts'
         /\ attempts' \subseteq attempts \cup {AttemptOf(r)}
         /\ AttemptOf(r) \in (1 .. MaxSessions) \X Nat
         /\ r.step \in {"going", "creating"}
         /\ \/ net' = net \ {r}
            \/ \E q \in Request : /\ net' = (net \ {r}) \cup {q}
                                  /\ q.step \in {"creating", "ok", "stop", "retry"}
                                  /\ q.id = r.id /\ q.try = r.try
                                  /\ q.step = "ok" => IF log[r.id].kind = "start"
                                                      THEN AttemptOf(r) \in attempts'
                                                      ELSE LogKept(log') /\ Filed(log', r.id)
<1>1. r \in Request /\ r.id \in DOMAIN log /\ log[r.id] \in Item
  BY DEF TypeInv, TypeOK, Known
<1>2. AttemptOf(r) \in (1 .. MaxSessions) \X Nat
  BY <1>1 DEF AttemptOf, Item
<1>3. ASSUME NEW v \in {"creating", "ok", "stop", "retry"}
      PROVE  /\ [r EXCEPT !.step = v] \in Request /\ [r EXCEPT !.step = v].step = v
             /\ [r EXCEPT !.step = v].id = r.id /\ [r EXCEPT !.step = v].try = r.try
  BY <1>1 DEF Request
<1>4. LogKept([log EXCEPT ![r.id].stored = @ + 1]) /\ Filed([log EXCEPT ![r.id].stored = @ + 1], r.id)
  BY <1>1, LogUpdates DEF TypeInv
<1>5. ASSUME NEW v \in {"ok", "stop", "retry"}, Answered(r, v)
      PROVE  \/ net' = net \ {r}
             \/ \E q \in Request : /\ net' = (net \ {r}) \cup {q}
                                   /\ q.step = v /\ q.id = r.id /\ q.try = r.try
  BY <1>3, <1>5 DEF Answered
<1>6. CASE Refuse(r)
  BY <1>2, <1>5, <1>6 DEF Refuse, page
<1>7. CASE HandleStart(r)
  BY <1>2, <1>3, <1>5, <1>7 DEF HandleStart, page
<1>8. CASE CreateAttempt(r)
  BY <1>2, <1>4, <1>5, <1>8 DEF CreateAttempt, page
<1>9. CASE HandleItem(r)
  BY <1>2, <1>4, <1>5, <1>9 DEF HandleItem, page
<1> QED
  BY <1>6, <1>7, <1>8, <1>9 DEF Handle

-----------------------------------------------------------------------------
(* Type correctness.                                                        *)

LEMMA TypeInit == Init => TypeInv
<1> SUFFICES ASSUME Init PROVE TypeInv
  OBVIOUS
<1>1. buffer \in Seq(Entry) /\ log \in Seq(Item) /\ Len(log) <= MaxItems
      /\ DOMAIN buffer = {} /\ DOMAIN log = {}
  BY TelemetryAssumption DEF Init
<1>2. hand \in Entry \cup {Nobody} /\ direct \in SUBSET Ids
  BY DEF Init
<1>3. net \in SUBSET Request /\ attempts \in SUBSET ((1 .. MaxSessions) \X Nat)
  BY DEF Init
<1>4. session \in 1 .. MaxSessions /\ run \in Nat /\ number \in Nat
  BY TelemetryAssumption DEF Init
<1>5. TypeOK
  BY <1>1, <1>2, <1>3, <1>4 DEF Init, TypeOK
<1>6. Known
  BY <1>1 DEF Init, Known, Nobody
<1> QED
  BY <1>5, <1>6 DEF TypeInv

LEMMA TypeSend ==
  ASSUME TypeInv, NEW kind \in Kinds, NEW r \in Nat, NEW n \in Nat, NEW beacon \in BOOLEAN,
         Send(kind, r, n, beacon),
         UNCHANGED <<session, stopped, buffer, sending, hand, armed, attempts>>,
         run' \in Nat, number' \in Nat
  PROVE  TypeInv'
<1>1. CASE stopped
  BY <1>1 DEF Send, TypeInv, TypeOK, Known, Awaited, Delivering
<1>2. CASE ~stopped
  <2> DEFINE new == Len(log) + 1
  <2>1. Sent(new, kind, r, n, beacon)
    BY <1>2, SendFacts
  <2> HIDE DEF new
  <2>2. direct' \in SUBSET Ids /\ net' \in SUBSET Request
    BY <2>1 DEF Sent, TypeInv, TypeOK
  <2>4. log' \in Seq(Item) /\ Len(log') <= MaxItems
    BY <2>1, TelemetryAssumption DEF Sent, Ids
  <2>5. TypeOK'
    BY <2>2, <2>4 DEF TypeInv, TypeOK
  <2>3. Known'
    BY <2>1 DEF Sent, TypeInv, Known
  <2> QED
    BY <2>3, <2>5 DEF TypeInv
<1> QED
  BY <1>1, <1>2 DEF TypeInv, TypeOK

LEMMA TypeTake ==
  ASSUME TypeInv, buffer # <<>>, takeHead, armed' \in BOOLEAN,
         UNCHANGED <<session, run, number, stopped, direct, attempts>>
  PROVE  TypeInv'
<1>1. /\ sending' = TRUE
      /\ hand' = buffer[1] /\ hand' \in Entry /\ hand'.id \in DOMAIN log
      /\ buffer' \in Seq(Entry)
      /\ \A i \in DOMAIN buffer' : i + 1 \in DOMAIN buffer /\ buffer'[i] = buffer[i + 1]
      /\ LogKept(log')
  BY TakeFacts
<1>2. PICK q \in Request : net' = net \cup {q} /\ q.id = hand'.id
  BY TakeFacts
<1>3. TypeOK'
  BY <1>1, <1>2 DEF TypeInv, TypeOK, LogKept
<1>4. Known'
  BY <1>1, <1>2 DEF TypeInv, Known, LogKept
<1> QED
  BY <1>3, <1>4 DEF TypeInv

LEMMA TypeOutcome ==
  ASSUME TypeInv, NEW r \in net, Outcome(r)
  PROVE  TypeInv'
<1> USE OutcomeFacts, EndFacts
<1>1. Awaited(r) /\ r.id \in Ids /\ r.id \in DOMAIN log
  OBVIOUS
<1>2. session' = session /\ run' = run /\ attempts' = attempts /\ number' \in Nat
  <2>1. log[r.id] \in Item /\ number \in Nat
    BY <1>1 DEF TypeInv, TypeOK
  <2>2. log[r.id].number \in Nat
    BY <2>1 DEF Item
  <2> QED
    BY <2>1, <2>2
<1>3. /\ net' \in SUBSET Request
      /\ \A q \in net' : q.id = r.id \/ q \in net
  BY DEF TypeInv, TypeOK
<1>4. Leaves(r.id)
  OBVIOUS
<1>5. direct' \subseteq direct /\ hand' \in {hand, Nobody}
  BY <1>4 DEF Leaves
<1>6. log' = log \/ LogKept(log')
  OBVIOUS
<1>7. log' \in Seq(Item) /\ Len(log') <= MaxItems /\ DOMAIN log' = DOMAIN log
  BY <1>6 DEF LogKept, TypeInv, TypeOK
<1>8. /\ buffer' \in Seq(Entry) /\ \A i \in DOMAIN buffer' : buffer'[i].id \in DOMAIN log
      /\ stopped' \in BOOLEAN /\ armed' \in BOOLEAN /\ sending' \in BOOLEAN
  <2>1. CASE Delivered(r.id)
    BY <2>1 DEF TypeInv, TypeOK, Known
  <2>2. CASE Refused(r.id)
    <3>1. /\ buffer' = <<>> /\ stopped' \in BOOLEAN /\ armed' \in BOOLEAN
          /\ sending' = (sending /\ r.id \in direct)
      BY <2>2
    <3> QED
      BY <3>1
  <2>3. CASE Failed(r.id)
    <3> DEFINE x == [id |-> r.id, retryCount |-> NextCount(r.id)]
    <3>1. /\ buffer' \in Seq(Entry) /\ NextCount(r.id) \in Nat
          /\ Enqueued(buffer', Append(buffer, x)) /\ stopped' = stopped
          /\ sending' = (sending /\ r.id \in direct)
          /\ armed' = scheduleRetry(sending', buffer')
      BY <2>3
    <3>2. x \in Entry /\ buffer \in Seq(Entry) /\ x.id \in DOMAIN log
      BY <1>1, <3>1 DEF Entry, TypeInv, TypeOK
    <3> HIDE DEF x
    <3>3. \A i \in DOMAIN buffer' : buffer'[i] = x \/ \E j \in DOMAIN buffer : buffer'[i] = buffer[j]
      BY <3>1, <3>2, EnqueuedEntries
    <3>4. \A i \in DOMAIN buffer' : buffer'[i].id \in DOMAIN log
      BY <3>2, <3>3 DEF TypeInv, Known
    <3> QED
      BY <3>1, <3>4 DEF TypeInv, TypeOK, scheduleRetry
  <2> QED
    BY <2>1, <2>2, <2>3
<1>9. TypeOK'
  BY <1>2, <1>3, <1>5, <1>7, <1>8 DEF TypeInv, TypeOK
<1>10. Known'
  BY <1>1, <1>3, <1>5, <1>7, <1>8 DEF TypeInv, Known, Nobody
<1> QED
  BY <1>9, <1>10 DEF TypeInv

LEMMA TypeNext == TypeInv /\ [Next]_vars => TypeInv'
<1> SUFFICES ASSUME TypeInv, [Next]_vars PROVE TypeInv'
  OBVIOUS
<1>0. /\ run \in Nat /\ number \in Nat /\ 1 \in Nat /\ armed \in BOOLEAN /\ FALSE \in BOOLEAN
      /\ run + 1 \in Nat /\ number + 1 \in Nat
  BY DEF TypeInv, TypeOK
<1>1. CASE Start
  BY <1>0, <1>1, TypeSend DEF Start, Kinds
<1>2. CASE startNewAttempt
  BY <1>0, <1>2, TypeSend DEF startNewAttempt, Kinds
<1>3. CASE answer
  BY <1>0, <1>3, TypeSend DEF answer, Kinds
<1>4. CASE finish
  BY <1>0, <1>4, TypeSend, TelemetryAssumption DEF finish, Kinds
<1>5. CASE Reopen
  <2>1. session' \in 1 .. MaxSessions
    BY <1>5, TelemetryAssumption DEF Reopen, TypeInv, TypeOK
  <2>2. run' \in Nat /\ number' \in Nat /\ net' \subseteq net
    BY <1>5 DEF Reopen
  <2>3. /\ buffer' = <<>> /\ hand' = Nobody /\ direct' = {} /\ log' = log
        /\ stopped' \in BOOLEAN /\ sending' \in BOOLEAN /\ armed' \in BOOLEAN
        /\ attempts' = attempts
    BY <1>5 DEF Reopen
  <2>4. TypeOK'
    BY <2>1, <2>2, <2>3 DEF TypeInv, TypeOK
  <2>5. Known'
    BY <2>2, <2>3 DEF TypeInv, Known, Nobody
  <2> QED
    BY <2>4, <2>5 DEF TypeInv
<1>6. CASE processBuffer /\ UNCHANGED <<session, run, number, stopped, direct, attempts>>
           /\ armed' \in BOOLEAN
  <2>1. CASE sending \/ stopped \/ buffer = <<>>
    BY <1>6, <2>1 DEF processBuffer, TypeInv, TypeOK, Known
  <2>2. CASE ~(sending \/ stopped \/ buffer = <<>>)
    BY <1>6, <2>2, TypeTake DEF processBuffer
  <2> QED
    BY <2>1, <2>2
<1>7. CASE RetryTimer
  BY <1>6, <1>7 DEF RetryTimer
<1>8. CASE Online
  BY <1>0, <1>6, <1>8 DEF Online
<1>9. CASE PauseOver
  <2>1. CASE buffer # <<>> /\ ~stopped
    BY <1>0, <1>9, <2>1, TypeTake DEF PauseOver
  <2>2. CASE ~(buffer # <<>> /\ ~stopped)
    BY <1>9, <2>2 DEF PauseOver, scheduleRetry, TypeInv, TypeOK, Known
  <2> QED
    BY <2>1, <2>2
<1>10. ASSUME NEW r \in net, Outcome(r) PROVE TypeInv'
  BY <1>10, TypeOutcome
<1>11. ASSUME NEW r \in net, Handle(r) PROVE TypeInv'
  <2>1. /\ log' = log \/ LogKept(log')
        /\ attempts' \subseteq attempts \cup {AttemptOf(r)}
        /\ AttemptOf(r) \in (1 .. MaxSessions) \X Nat
    BY <1>11, HandleFacts
  <2>2. net' \in SUBSET Request /\ \A q \in net' : q.id = r.id \/ q \in net
    BY <1>11, HandleFacts DEF TypeInv, TypeOK
  <2>3. log' \in Seq(Item) /\ Len(log') <= MaxItems /\ DOMAIN log' = DOMAIN log
    BY <2>1 DEF LogKept, TypeInv, TypeOK
  <2>4. UNCHANGED <<session, run, number, stopped, buffer, sending, hand, armed, direct>>
    BY <1>11, HandleFacts
  <2>5. TypeOK'
    BY <2>1, <2>2, <2>3, <2>4 DEF TypeInv, TypeOK
  <2>6. Known'
    BY <2>2, <2>3, <2>4, <1>11 DEF TypeInv, Known
  <2> QED
    BY <2>5, <2>6 DEF TypeInv
<1>12. CASE UNCHANGED vars
  BY <1>12 DEF vars, page, TypeInv, TypeOK, Known
<1> QED
  BY <1>1, <1>2, <1>3, <1>4, <1>5, <1>7, <1>8, <1>9, <1>10, <1>11, <1>12
     DEF Next, Page, Timers, Ends

(* Every variable keeps its type, in every behaviour. *)
THEOREM TypeCorrect == Spec => []TypeOK
<1>1. Spec => []TypeInv
  BY TypeInit, TypeNext, PTL DEF Spec
<1>2. TypeInv => TypeOK
  BY DEF TypeInv
<1> QED
  BY <1>1, <1>2, PTL

-----------------------------------------------------------------------------
(* The queue always has something that will deliver it, and is quiet after  *)
(* a refusal.  The invariant adds that a drain with an item in its hand is  *)
(* running: that is what lets a failure skip arming the timer.              *)
QueueInv ==
  /\ QueueBounded
  /\ NothingStranded
  /\ QuietWhenStopped
  /\ hand # Nobody => sending

LEMMA QueueOutcome ==
  ASSUME TypeInv, QueueInv, NEW r \in net, Outcome(r)
  PROVE  QueueInv'
<1> USE OutcomeFacts, EndFacts
<1>0. Awaited(r) /\ Leaves(r.id)
  OBVIOUS
<1>1. sending \in BOOLEAN /\ stopped \in BOOLEAN /\ armed \in BOOLEAN
      /\ MAX_BUFFER \in Nat \ {0}
  BY TelemetryAssumption DEF TypeInv, TypeOK
<1>2. CASE Delivered(r.id)
  <2>1. UNCHANGED <<buffer, stopped, armed, sending>>
    BY <1>0, <1>2
  <2> QED
    BY <1>0, <2>1 DEF QueueInv, QueueBounded, NothingStranded, QuietWhenStopped, Leaves
<1>3. CASE Refused(r.id)
  <2>1. buffer' = <<>> /\ stopped' /\ ~armed' /\ sending' = (sending /\ r.id \in direct)
    BY <1>0, <1>3
  <2>2. Len(buffer') = 0
    BY <2>1
  <2> QED
    BY <1>0, <1>1, <2>1, <2>2 DEF QueueInv, QueueBounded, NothingStranded, QuietWhenStopped, Leaves
<1>4. CASE Failed(r.id)
  <2>1. /\ stopped' = stopped /\ sending' = (sending /\ r.id \in direct)
        /\ armed' = scheduleRetry(sending', buffer')
        /\ buffer' = buffer \/ (~stopped /\ Len(buffer') <= MAX_BUFFER)
    BY <1>0, <1>4 DEF Enqueued
  <2>2. armed' = (armed \/ (~sending' /\ ~stopped /\ buffer' # <<>>))
    BY <2>1 DEF scheduleRetry
  <2>3. QueueBounded' /\ NothingStranded' /\ QuietWhenStopped'
    BY <1>1, <2>1, <2>2 DEF QueueInv, QueueBounded, NothingStranded, QuietWhenStopped
  <2> QED
    BY <1>0, <2>1, <2>3 DEF QueueInv, Leaves
<1> QED
  BY <1>2, <1>3, <1>4

LEMMA QueueNext == TypeInv /\ QueueInv /\ [Next]_vars => QueueInv'
<1> SUFFICES ASSUME TypeInv, QueueInv, [Next]_vars PROVE QueueInv'
  OBVIOUS
<1> USE DEF QueueInv, QueueBounded, NothingStranded, QuietWhenStopped
<1>0. stopped \in BOOLEAN /\ sending \in BOOLEAN /\ armed \in BOOLEAN /\ MAX_BUFFER \in Nat \ {0}
      /\ buffer \in Seq(Entry)
  BY TelemetryAssumption DEF TypeInv, TypeOK
<1>1. CASE Page
  <2>1. CASE Reopen
    BY <1>0, <2>1 DEF Reopen
  <2>2. CASE Start \/ startNewAttempt \/ answer \/ finish
    <3>1. UNCHANGED <<stopped, buffer, sending, hand, armed>>
      BY <2>2 DEF Start, startNewAttempt, answer, finish
    <3> QED
      BY <3>1
  <2> QED
    BY <1>1, <2>1, <2>2 DEF Page
<1>2. CASE takeHead /\ buffer # <<>> /\ ~stopped /\ stopped' = stopped
  BY <1>0, <1>2, TakeFacts
<1>3. CASE RetryTimer \/ Online
  BY <1>0, <1>2, <1>3 DEF RetryTimer, Online, processBuffer
<1>4. CASE PauseOver
  BY <1>0, <1>2, <1>4 DEF PauseOver, scheduleRetry
<1>5. ASSUME NEW r \in net, Outcome(r) PROVE QueueInv'
  BY <1>5, QueueOutcome
<1>6. ASSUME NEW r \in net, Handle(r) PROVE QueueInv'
  BY <1>6, HandleFacts
<1>7. CASE UNCHANGED vars
  BY <1>7 DEF vars, page
<1> QED
  BY <1>1, <1>3, <1>4, <1>5, <1>6, <1>7 DEF Next, Timers, Ends

(* The queue never outgrows its limit; what is queued is always about to be *)
(* delivered; after a refusal nothing is queued and nothing is armed.       *)
THEOREM QueueCorrect == Spec => []BufferSound
<1>1. Init => TypeInv /\ QueueInv
  <2>1. Init => Len(buffer) <= MAX_BUFFER
    BY TelemetryAssumption DEF Init
  <2> QED
    BY <2>1, TypeInit DEF Init, QueueInv, QueueBounded, NothingStranded, QuietWhenStopped
<1>2. TypeInv /\ QueueInv /\ [Next]_vars => (TypeInv /\ QueueInv)'
  BY TypeNext, QueueNext
<1>3. QueueInv => BufferSound
  BY DEF QueueInv, BufferSound
<1> QED
  BY <1>1, <1>2, <1>3, PTL DEF Spec

-----------------------------------------------------------------------------
(* After a refusal no delivery begins.                                      *)

LEMMA RefusalStep ==
  ASSUME TypeInv, QueueInv, [Next]_vars, stopped, session' = session
  PROVE  Len(log') = Len(log) /\ \A id \in DOMAIN log : log'[id].tries = log[id].tries
<1>0. buffer = <<>>
  BY DEF QueueInv, QuietWhenStopped
<1>1. CASE Page
  BY <1>1 DEF Page, Start, startNewAttempt, answer, finish, Reopen, Send, TypeInv, TypeOK
<1>2. CASE Timers
  BY <1>0, <1>2 DEF Timers, RetryTimer, Online, PauseOver, processBuffer
<1>3. ASSUME NEW r \in net, Outcome(r)
      PROVE  Len(log') = Len(log) /\ \A id \in DOMAIN log : log'[id].tries = log[id].tries
  BY <1>3, OutcomeFacts, EndFacts DEF LogKept, Acked
<1>4. ASSUME NEW r \in net, Handle(r)
      PROVE  Len(log') = Len(log) /\ \A id \in DOMAIN log : log'[id].tries = log[id].tries
  BY <1>4, HandleFacts DEF LogKept, Filed
<1>5. CASE UNCHANGED vars
  BY <1>5 DEF vars
<1> QED
  BY <1>1, <1>2, <1>3, <1>4, <1>5 DEF Next, Ends

(* Once a refusal was seen nothing is sent any more in that session, neither *)
(* a new item nor one that was already on its way through the queue.        *)
THEOREM RefusalIsFinal == Spec => NoDeliveryAfterRefusal
<1>1. Init => TypeInv /\ QueueInv
  <2>1. Init => Len(buffer) <= MAX_BUFFER
    BY TelemetryAssumption DEF Init
  <2> QED
    BY <2>1, TypeInit DEF Init, QueueInv, QueueBounded, NothingStranded, QuietWhenStopped
<1>2. TypeInv /\ QueueInv /\ [Next]_vars => (TypeInv /\ QueueInv)'
  BY TypeNext, QueueNext
<1>3. TypeInv /\ QueueInv /\ [Next]_vars =>
        [ (stopped /\ session' = session) =>
            /\ Len(log') = Len(log)
            /\ \A id \in DOMAIN log : log'[id].tries = log[id].tries ]_vars
  BY RefusalStep
<1> QED
  BY <1>1, <1>2, <1>3, PTL DEF Spec, NoDeliveryAfterRefusal

-----------------------------------------------------------------------------
(* One copy of an item, and its counter.  The counter an item carries is    *)
(* the number of times it was sent: that is why spending the one spends the *)
(* other, and it holds because no second copy carries an older counter.     *)
CopyInv ==
  /\ SingleCopy
  /\ BudgetSpent
  /\ \A id \in direct : log[id].tries = 1
  /\ hand.id # 0 => /\ log[hand.id].tries = hand.retryCount + 1
                    /\ hand.retryCount <= MAX_RETRIES
  /\ \A i \in DOMAIN buffer : /\ log[buffer[i].id].tries = buffer[i].retryCount
                              /\ buffer[i].retryCount <= MAX_RETRIES

(* What CopyInv says of the queue alone.                                    *)
QueueOf(b, L, d, h) ==
  /\ \A i, j \in DOMAIN b : b[i].id = b[j].id => i = j
  /\ \A i \in DOMAIN b : b[i].id \notin d /\ b[i].id # h
  /\ \A i \in DOMAIN b : L[b[i].id].tries = b[i].retryCount /\ b[i].retryCount <= MAX_RETRIES

LEMMA CopySend ==
  ASSUME TypeInv, CopyInv,
         NEW kind \in Kinds, NEW r \in Nat, NEW n \in Nat, NEW beacon \in BOOLEAN,
         Send(kind, r, n, beacon), UNCHANGED <<buffer, hand>>
  PROVE  CopyInv'
<1> USE DEF CopyInv, SingleCopy, BudgetSpent
<1>1. CASE stopped
  BY <1>1 DEF Send
<1>2. CASE ~stopped
  <2> DEFINE new == Len(log) + 1
  <2>1. Sent(new, kind, r, n, beacon)
    BY <1>2, SendFacts
  <2> HIDE DEF new
  <2>2. /\ new \notin DOMAIN log /\ DOMAIN log' = DOMAIN log \cup {new} /\ direct' = direct \cup {new}
        /\ log'[new].tries = 1 /\ \A j \in DOMAIN log : log'[j] = log[j]
        /\ new # 0
    BY <2>1 DEF Sent, Ids
  <2>3. /\ direct \subseteq DOMAIN log /\ (hand.id # 0 => hand.id \in DOMAIN log)
        /\ \A i \in DOMAIN buffer : buffer[i].id \in DOMAIN log
    BY DEF TypeInv, Known
  <2>4. MAX_RETRIES \in Nat
    BY TelemetryAssumption
  <2> QED
    BY <2>2, <2>3, <2>4
<1> QED
  BY <1>1, <1>2 DEF TypeInv, TypeOK

LEMMA CopyTake ==
  ASSUME TypeInv, CopyInv, buffer # <<>>, takeHead, hand = Nobody, UNCHANGED direct
  PROVE  CopyInv'
<1>1. /\ hand' = buffer[1] /\ hand' \in Entry /\ hand'.id \in DOMAIN log
      /\ \A i \in DOMAIN buffer' : i + 1 \in DOMAIN buffer /\ buffer'[i] = buffer[i + 1]
      /\ LogKept(log') /\ Tried(log', hand'.id) /\ buffer' \in Seq(Entry)
  BY TakeFacts
<1>2. 1 \in DOMAIN buffer /\ (\A i \in DOMAIN buffer' : i \in Nat /\ i >= 1) /\ buffer \in Seq(Entry)
  BY <1>1 DEF TypeInv, TypeOK
<1>3. /\ \A id \in DOMAIN log : log[id].tries \in Nat
      /\ direct \subseteq DOMAIN log
      /\ \A i \in DOMAIN buffer : buffer[i].id \in DOMAIN log
  <2>1. \A id \in DOMAIN log : log[id] \in Item
    BY DEF TypeInv, TypeOK
  <2>2. \A x \in Item : x.tries \in Nat
    BY DEF Item
  <2> QED
    BY <2>1, <2>2 DEF TypeInv, Known
<1>4. /\ hand'.retryCount <= MAX_RETRIES /\ log[hand'.id].tries = hand'.retryCount
      /\ hand'.retryCount \in Nat /\ hand'.id \notin direct /\ MAX_RETRIES \in Nat
  BY <1>1, <1>2, TelemetryAssumption DEF CopyInv, SingleCopy, Entry
<1>5. \A i \in DOMAIN buffer' : buffer'[i].id # hand'.id
  BY <1>1, <1>2 DEF CopyInv, SingleCopy
<1>6. SingleCopy'
  BY <1>1, <1>2, <1>4, <1>5 DEF CopyInv, SingleCopy
<1>7. BudgetSpent'
  BY <1>1, <1>3, <1>4 DEF CopyInv, BudgetSpent, LogKept, Tried
<1>8. \A id \in direct' : log'[id].tries = 1
  BY <1>1, <1>3, <1>4 DEF CopyInv, Tried
<1>9. log'[hand'.id].tries = hand'.retryCount + 1
  BY <1>1, <1>4 DEF Tried
<1>10. \A i \in DOMAIN buffer' : /\ log'[buffer'[i].id].tries = buffer'[i].retryCount
                                /\ buffer'[i].retryCount <= MAX_RETRIES
  BY <1>1, <1>3, <1>5 DEF CopyInv, Tried
<1> QED
  BY <1>4, <1>6, <1>7, <1>8, <1>9, <1>10 DEF CopyInv

LEMMA CopyOutcome ==
  ASSUME TypeInv, CopyInv, NEW r \in net, Outcome(r)
  PROVE  CopyInv'
<1>1. Awaited(r) /\ Leaves(r.id) /\ r.id \in DOMAIN log /\ r.id \in Ids
  BY OutcomeFacts, EndFacts
<1>2. /\ direct' \subseteq direct /\ r.id \notin direct'
      /\ hand' = Nobody \/ (hand' = hand /\ r.id # hand.id)
  BY <1>1 DEF Leaves, CopyInv, SingleCopy
<1>3. Nobody.id = 0 /\ 0 \notin Ids /\ direct \subseteq Ids
  BY DEF Nobody, Ids, TypeInv, TypeOK
<1>4. \A id \in DOMAIN log : DOMAIN log' = DOMAIN log /\ log'[id].tries = log[id].tries
  BY OutcomeFacts, EndFacts DEF LogKept, Acked
<1>5. /\ direct \subseteq DOMAIN log /\ (hand.id # 0 => hand.id \in DOMAIN log)
      /\ \A i \in DOMAIN buffer : buffer[i].id \in DOMAIN log
  BY DEF TypeInv, Known
<1>6. /\ \A id \in direct' : log'[id].tries = 1
      /\ hand'.id # 0 => /\ log'[hand'.id].tries = hand'.retryCount + 1
                         /\ hand'.retryCount <= MAX_RETRIES
      /\ hand'.id \notin direct'
  BY <1>2, <1>3, <1>4, <1>5 DEF CopyInv, SingleCopy
<1>7. BudgetSpent'
  BY <1>1, <1>4 DEF CopyInv, BudgetSpent
<1>8. \A i \in DOMAIN buffer : /\ buffer[i].id \notin direct' /\ buffer[i].id # hand'.id
                               /\ log'[buffer[i].id].tries = buffer[i].retryCount
                               /\ buffer[i].retryCount <= MAX_RETRIES
                               /\ buffer[i].id # r.id
  <2>1. \A i \in DOMAIN buffer : buffer[i].id # 0
    <3>1. \A i \in DOMAIN buffer : buffer[i] \in Entry
      BY DEF TypeInv, TypeOK
    <3> QED
      BY <3>1 DEF Entry, Ids
  <2>2. \A i \in DOMAIN buffer : buffer[i].id \notin direct \cup {hand.id}
    BY DEF CopyInv, SingleCopy
  <2>3. r.id \in direct \/ r.id = hand.id
    BY <1>1 DEF Awaited, Delivering
  <2> QED
    BY <1>2, <1>3, <1>4, <1>5, <2>1, <2>2, <2>3 DEF CopyInv
<1>9. QueueOf(buffer', log', direct', hand'.id)
  <2>1. CASE buffer' = buffer
    BY <1>8, <2>1 DEF QueueOf, CopyInv, SingleCopy
  <2>2. CASE buffer' = <<>>
    BY <2>2 DEF QueueOf
  <2>3. CASE buffer' # buffer /\ buffer' # <<>>
    <3> DEFINE x == [id |-> r.id, retryCount |-> NextCount(r.id)]
               b == Append(buffer, x)
    <3>1. /\ Failed(r.id) /\ Suffix(buffer', b) /\ buffer' \in Seq(Entry)
          /\ NextCount(r.id) <= MAX_RETRIES /\ NextCount(r.id) \in Nat
      BY <1>1, <2>3, OutcomeFacts, EndFacts DEF Enqueued
    <3>2. x \in Entry /\ buffer \in Seq(Entry) /\ x.id = r.id /\ x.retryCount = NextCount(r.id)
      BY <1>1, <3>1 DEF Entry, TypeInv, TypeOK
    <3>3. log[r.id].tries = NextCount(r.id)
      BY <1>1, <1>3 DEF NextCount, CopyInv, Awaited, Delivering
    <3>4. r.id # hand'.id
      BY <1>1, <1>2, <1>3
    <3> HIDE DEF x
    <3>5. /\ b \in Seq(Entry) /\ Len(b) = Len(buffer) + 1 /\ b[Len(buffer) + 1] = x
          /\ \A j \in 1 .. Len(buffer) : b[j] = buffer[j]
      BY <3>2, AppendProperties
    <3>6. QueueOf(b, log', direct', hand'.id)
      <4>0. DOMAIN b = 1 .. Len(buffer) + 1 /\ DOMAIN buffer = 1 .. Len(buffer) /\ Len(buffer) \in Nat
        BY <3>2, <3>5
      <4>1. \A i \in DOMAIN b : \/ i \in DOMAIN buffer /\ b[i] = buffer[i]
                                \/ i = Len(buffer) + 1 /\ b[i] = x
        <5> HIDE DEF b
        <5> QED
          BY <3>5, <4>0
      <4>2. \A i, j \in DOMAIN buffer : buffer[i].id = buffer[j].id => i = j
        BY DEF CopyInv, SingleCopy
      <4> HIDE DEF b
      <4> QED
        BY <1>1, <1>2, <1>4, <1>8, <3>1, <3>2, <3>3, <3>4, <4>1, <4>2 DEF QueueOf
    <3>7. PICK k \in Nat : Len(buffer') + k = Len(b) /\ \A i \in 1 .. Len(buffer') : buffer'[i] = b[i + k]
      BY <3>1 DEF Suffix
    <3> HIDE DEF b
    <3>8. \A i \in DOMAIN buffer' : i \in Nat /\ i + k \in DOMAIN b /\ buffer'[i] = b[i + k]
      BY <3>1, <3>5, <3>7
    <3> QED
      BY <3>6, <3>8 DEF QueueOf
  <2> QED
    BY <2>1, <2>2, <2>3
<1> QED
  BY <1>6, <1>7, <1>9 DEF QueueOf, CopyInv, SingleCopy

LEMMA CopyNext == TypeInv /\ QueueInv /\ CopyInv /\ [Next]_vars => CopyInv'
<1> SUFFICES ASSUME TypeInv, QueueInv, CopyInv, [Next]_vars PROVE CopyInv'
  OBVIOUS
<1>0. /\ run \in Nat /\ number \in Nat /\ 1 \in Nat /\ FALSE \in BOOLEAN
      /\ run + 1 \in Nat /\ number + 1 \in Nat
  BY DEF TypeInv, TypeOK
<1>1. CASE Start
  BY <1>0, <1>1, CopySend DEF Start, Kinds
<1>2. CASE startNewAttempt
  BY <1>0, <1>2, CopySend DEF startNewAttempt, Kinds
<1>3. CASE answer
  BY <1>0, <1>3, CopySend DEF answer, Kinds
<1>4. CASE finish
  BY <1>0, <1>4, CopySend, TelemetryAssumption DEF finish, Kinds
<1>5. CASE Reopen
  BY <1>5 DEF Reopen, CopyInv, SingleCopy, BudgetSpent, Nobody
<1>6. CASE RetryTimer \/ Online
  <2>1. CASE sending \/ stopped \/ buffer = <<>>
    BY <1>6, <2>1 DEF RetryTimer, Online, processBuffer, CopyInv, SingleCopy, BudgetSpent
  <2>2. CASE ~(sending \/ stopped \/ buffer = <<>>)
    BY <1>6, <2>2, CopyTake DEF RetryTimer, Online, processBuffer, QueueInv
  <2> QED
    BY <2>1, <2>2
<1>7. CASE PauseOver
  <2>1. CASE buffer # <<>> /\ ~stopped
    BY <1>7, <2>1, CopyTake DEF PauseOver
  <2>2. CASE ~(buffer # <<>> /\ ~stopped)
    BY <1>7, <2>2 DEF PauseOver, CopyInv, SingleCopy, BudgetSpent
  <2> QED
    BY <2>1, <2>2
<1>8. ASSUME NEW r \in net, Outcome(r) PROVE CopyInv'
  BY <1>8, CopyOutcome
<1>9. ASSUME NEW r \in net, Handle(r) PROVE CopyInv'
  <2>1. UNCHANGED <<buffer, hand, direct>>
    BY <1>9, HandleFacts
  <2>2. \A id \in DOMAIN log : DOMAIN log' = DOMAIN log /\ log'[id].tries = log[id].tries
    BY <1>9, HandleFacts DEF LogKept, Filed
  <2>3. /\ direct \subseteq DOMAIN log /\ (hand.id # 0 => hand.id \in DOMAIN log)
        /\ \A i \in DOMAIN buffer : buffer[i].id \in DOMAIN log
        /\ r.id \in DOMAIN log
    BY DEF TypeInv, Known
  <2> QED
    BY <2>1, <2>2, <2>3 DEF CopyInv, SingleCopy, BudgetSpent
<1>10. CASE UNCHANGED vars
  BY <1>10 DEF vars, page, CopyInv, SingleCopy, BudgetSpent
<1> QED
  BY <1>1, <1>2, <1>3, <1>4, <1>5, <1>6, <1>7, <1>8, <1>9, <1>10
     DEF Next, Page, Timers, Ends

(* An item is never in two places, and is never sent more often than its    *)
(* budget allows.                                                           *)
THEOREM BudgetCorrect == Spec => [](SingleCopy /\ BudgetSpent)
<1>1. Init => TypeInv /\ QueueInv /\ CopyInv
  <2>1. Init => Len(buffer) <= MAX_BUFFER
    BY TelemetryAssumption DEF Init
  <2>2. Init => CopyInv
    BY DEF Init, CopyInv, SingleCopy, BudgetSpent, Nobody
  <2> QED
    BY <2>1, <2>2, TypeInit DEF Init, QueueInv, QueueBounded, NothingStranded, QuietWhenStopped
<1>2. TypeInv /\ QueueInv /\ CopyInv /\ [Next]_vars => (TypeInv /\ QueueInv /\ CopyInv)'
  BY TypeNext, QueueNext, CopyNext
<1>3. CopyInv => SingleCopy /\ BudgetSpent
  BY DEF CopyInv
<1> QED
  BY <1>1, <1>2, <1>3, PTL DEF Spec

-----------------------------------------------------------------------------
(* The copies the server files.  Every delivery of an item is either still   *)
(* to be served, or was served at most once.                                *)
Unserved(id) ==
  {r \in net : r.id = id /\ r.step \in {"queueing", "going", "creating"}}

CopiesInv ==
  \A id \in DOMAIN log :
    /\ IsFiniteSet(Unserved(id))
    /\ log[id].stored + Cardinality(Unserved(id)) <= log[id].tries

(* Sets that gain, exchange or lose one request. *)
LEMMA CountGains ==
  ASSUME NEW U, IsFiniteSet(U), NEW q, NEW V \in SUBSET (U \cup {q})
  PROVE  /\ IsFiniteSet(V) /\ Cardinality(U) \in Nat /\ Cardinality(V) \in Nat
         /\ Cardinality(V) <= Cardinality(U) + 1
<1>1. Cardinality(U) \in Nat
  BY FS_CardinalityType
<1>2. /\ IsFiniteSet(U \cup {q})
      /\ Cardinality(U \cup {q}) = Cardinality(U) \/ Cardinality(U \cup {q}) = Cardinality(U) + 1
  BY FS_AddElement
<1>3. /\ IsFiniteSet(V) /\ Cardinality(V) \in Nat
      /\ Cardinality(V) <= Cardinality(U \cup {q})
  BY <1>2, FS_Subset, FS_CardinalityType
<1> QED
  BY <1>1, <1>2, <1>3

LEMMA CountLoses ==
  ASSUME NEW U, IsFiniteSet(U), NEW r \in U, NEW V \in SUBSET (U \ {r})
  PROVE  /\ IsFiniteSet(V) /\ Cardinality(U) \in Nat /\ Cardinality(V) \in Nat
         /\ Cardinality(V) + 1 <= Cardinality(U)
<1>1. Cardinality(U) \in Nat
  BY FS_CardinalityType
<1>2. IsFiniteSet(U \ {r}) /\ Cardinality(U \ {r}) = Cardinality(U) - 1
  BY FS_RemoveElement
<1>3. /\ IsFiniteSet(V) /\ Cardinality(V) \in Nat
      /\ Cardinality(V) <= Cardinality(U \ {r})
  BY <1>2, FS_Subset, FS_CardinalityType
<1> QED
  BY <1>1, <1>2, <1>3

LEMMA CountTrades ==
  ASSUME NEW U, IsFiniteSet(U), NEW r \in U, NEW q, NEW V \in SUBSET ((U \ {r}) \cup {q})
  PROVE  /\ IsFiniteSet(V) /\ Cardinality(U) \in Nat /\ Cardinality(V) \in Nat
         /\ Cardinality(V) <= Cardinality(U)
<1> DEFINE W == U \ {r}
<1>1. /\ IsFiniteSet(W) /\ Cardinality(W) \in Nat /\ Cardinality(U) \in Nat
      /\ Cardinality(W) + 1 <= Cardinality(U)
  BY CountLoses
<1>2. V \in SUBSET (W \cup {q})
  OBVIOUS
<1> HIDE DEF W
<1>3. IsFiniteSet(V) /\ Cardinality(V) \in Nat /\ Cardinality(V) <= Cardinality(W) + 1
  BY <1>1, <1>2, CountGains
<1> QED
  BY <1>1, <1>3

(* The counters of an item. *)
LEMMA LogCounts ==
  ASSUME TypeInv, NEW id \in DOMAIN log
  PROVE  log[id].stored \in Nat /\ log[id].tries \in Nat
<1>1. log[id] \in Item
  BY DEF TypeInv, TypeOK
<1>2. \A x \in Item : x.stored \in Nat /\ x.tries \in Nat
  BY DEF Item
<1> QED
  BY <1>1, <1>2

(* Nothing is filed and no request is added, for this item.                 *)
LEMMA CopiesFewer ==
  ASSUME TypeInv, NEW id \in DOMAIN log, CopiesInv,
         Unserved(id)' \subseteq Unserved(id),
         log'[id].stored = log[id].stored, log'[id].tries = log[id].tries
  PROVE  /\ IsFiniteSet(Unserved(id)')
         /\ log'[id].stored + Cardinality(Unserved(id)') <= log'[id].tries
<1>1. log[id].stored \in Nat /\ log[id].tries \in Nat
  BY LogCounts
<1>2. IsFiniteSet(Unserved(id)) /\ log[id].stored + Cardinality(Unserved(id)) <= log[id].tries
  BY DEF CopiesInv
<1>3. /\ IsFiniteSet(Unserved(id)') /\ Cardinality(Unserved(id)') <= Cardinality(Unserved(id))
      /\ Cardinality(Unserved(id)') \in Nat /\ Cardinality(Unserved(id)) \in Nat
  BY <1>2, FS_Subset, FS_CardinalityType
<1> QED
  BY <1>1, <1>2, <1>3

(* A handler serves a request once: it files at most one copy, and then the  *)
(* request is over but for the reply.                                       *)
LEMMA HandleServes ==
  ASSUME TypeInv, NEW r \in net, Handle(r)
  PROVE  /\ r.step \in {"going", "creating"}
         /\ \/ /\ log' = log
               /\ \E q : q.id = r.id /\ net' \subseteq (net \ {r}) \cup {q}
            \/ /\ LogKept(log') /\ Filed(log', r.id)
               /\ \A q \in net' : q \in net \ {r} \/ q.step \in {"ok", "stop", "retry"}
<1>1. r \in Request /\ r.id \in DOMAIN log
  BY DEF TypeInv, TypeOK, Known
<1>2. ASSUME NEW v \in {"creating", "ok", "stop", "retry"}
      PROVE  [r EXCEPT !.step = v].step = v /\ [r EXCEPT !.step = v].id = r.id
  BY <1>1 DEF Request
<1>3. LogKept([log EXCEPT ![r.id].stored = @ + 1]) /\ Filed([log EXCEPT ![r.id].stored = @ + 1], r.id)
  BY <1>1, LogUpdates DEF TypeInv
<1>4. ASSUME NEW v \in {"ok", "stop", "retry"}, Answered(r, v)
      PROVE  /\ \E q : q.id = r.id /\ net' \subseteq (net \ {r}) \cup {q}
             /\ \A q \in net' : q \in net \ {r} \/ q.step \in {"ok", "stop", "retry"}
  <2>1. net' \subseteq (net \ {r}) \cup {[r EXCEPT !.step = v]}
    BY <1>4 DEF Answered
  <2> QED
    BY <1>2, <2>1
<1>5. CASE Refuse(r)
  BY <1>4, <1>5 DEF Refuse
<1>6. CASE HandleStart(r)
  <2>1. CASE Answered(r, "ok")
    BY <1>4, <1>6, <2>1 DEF HandleStart
  <2>2. CASE net' = (net \ {r}) \cup {[r EXCEPT !.step = "creating"]}
    BY <1>2, <1>6, <2>2 DEF HandleStart
  <2> QED
    BY <1>6, <2>1, <2>2 DEF HandleStart
<1>7. CASE CreateAttempt(r)
  BY <1>3, <1>4, <1>7 DEF CreateAttempt
<1>8. CASE HandleItem(r)
  BY <1>3, <1>4, <1>8 DEF HandleItem
<1> QED
  BY <1>5, <1>6, <1>7, <1>8 DEF Handle

(* A handler serves one of them. *)
LEMMA CopiesHandle ==
  ASSUME TypeInv, CopiesInv, NEW r \in net, Handle(r)
  PROVE  CopiesInv'
<1>1. r.id \in DOMAIN log /\ r \in Unserved(r.id)
  BY HandleServes DEF TypeInv, Known, Unserved
<1>2. DOMAIN log' = DOMAIN log
  BY HandleServes DEF LogKept
<1>3. ASSUME NEW id \in DOMAIN log
      PROVE  /\ IsFiniteSet(Unserved(id)')
             /\ log'[id].stored + Cardinality(Unserved(id)') <= log'[id].tries
  <2>1. log[id].stored \in Nat /\ log[id].tries \in Nat
    BY LogCounts
  <2>2. IsFiniteSet(Unserved(id)) /\ log[id].stored + Cardinality(Unserved(id)) <= log[id].tries
    BY DEF CopiesInv
  <2>3. CASE log' = log
    <3>1. PICK q : q.id = r.id /\ net' \subseteq (net \ {r}) \cup {q}
      <4>1. \/ \E q : q.id = r.id /\ net' \subseteq (net \ {r}) \cup {q}
            \/ Filed(log', r.id)
        BY HandleServes
      <4>2. log[r.id].stored \in Nat
        BY <1>1, LogCounts
      <4>3. ~Filed(log', r.id)
        BY <1>1, <2>3, <4>2 DEF Filed
      <4> QED
        BY <4>1, <4>3
    <3>2. CASE id = r.id
      <4>1. Unserved(id)' \subseteq (Unserved(id) \ {r}) \cup {q}
        BY <3>1 DEF Unserved
      <4>2. r \in Unserved(id)
        BY <1>1, <3>2
      <4>3. /\ IsFiniteSet(Unserved(id)') /\ Cardinality(Unserved(id)') <= Cardinality(Unserved(id))
            /\ Cardinality(Unserved(id)') \in Nat /\ Cardinality(Unserved(id)) \in Nat
        BY <2>2, <4>1, <4>2, CountTrades
      <4> QED
        BY <2>1, <2>2, <2>3, <4>3
    <3>3. CASE id # r.id
      <4>1. Unserved(id)' \subseteq Unserved(id)
        BY <3>1, <3>3 DEF Unserved
      <4> QED
        BY <2>3, <4>1, CopiesFewer
    <3> QED
      BY <3>2, <3>3
  <2>4. CASE /\ Filed(log', r.id)
             /\ \A q \in net' : q \in net \ {r} \/ q.step \in {"ok", "stop", "retry"}
    <3>1. Unserved(id)' \subseteq Unserved(id) \ {r}
      BY <2>4 DEF Unserved
    <3>2. CASE id = r.id
      <4>1. /\ IsFiniteSet(Unserved(id)') /\ Cardinality(Unserved(id)') + 1 <= Cardinality(Unserved(id))
            /\ Cardinality(Unserved(id)') \in Nat /\ Cardinality(Unserved(id)) \in Nat
        BY <1>1, <2>2, <3>1, <3>2, CountLoses
      <4>2. log'[id].stored = log[id].stored + 1 /\ log'[id].tries = log[id].tries
        BY <2>4, <3>2 DEF Filed
      <4> QED
        BY <2>1, <2>2, <4>1, <4>2
    <3>3. CASE id # r.id
      <4>1. log'[id].stored = log[id].stored /\ log'[id].tries = log[id].tries
        BY <2>4, <3>3 DEF Filed
      <4> QED
        BY <3>1, <4>1, CopiesFewer
    <3> QED
      BY <3>2, <3>3
  <2> QED
    BY <2>3, <2>4, HandleServes
<1> QED
  BY <1>2, <1>3 DEF CopiesInv

(* The end of a delivery in the page serves nothing. *)
LEMMA CopiesOutcome ==
  ASSUME TypeInv, CopiesInv, NEW r \in net, Outcome(r)
  PROVE  CopiesInv'
<1>1. r.id \in DOMAIN log /\ r \in Request
  BY DEF TypeInv, TypeOK, Known
<1>2. /\ DOMAIN log' = DOMAIN log
      /\ \A id \in DOMAIN log : log'[id].stored = log[id].stored /\ log'[id].tries = log[id].tries
  BY OutcomeFacts, EndFacts DEF LogKept, Acked
<1>3. \/ net' \subseteq net
      \/ r.step = "queueing" /\ \E q : q.id = r.id /\ net' \subseteq (net \ {r}) \cup {q}
  <2>1. [r EXCEPT !.step = "going"].id = r.id
    BY <1>1 DEF Request
  <2> QED
    BY <2>1 DEF Outcome, TransientFailure, SignFails, Beacon, ReplyOk, ReplyRefused
<1>4. ASSUME NEW id \in DOMAIN log
      PROVE  /\ IsFiniteSet(Unserved(id)')
             /\ log'[id].stored + Cardinality(Unserved(id)') <= log'[id].tries
  <2>1. CASE Unserved(id)' \subseteq Unserved(id)
    BY <1>2, <2>1, CopiesFewer
  <2>2. CASE ~(Unserved(id)' \subseteq Unserved(id))
    <3>1. r.step = "queueing"
      BY <1>3, <2>2 DEF Unserved
    <3>2. PICK q : q.id = r.id /\ net' \subseteq (net \ {r}) \cup {q}
      BY <1>3, <2>2 DEF Unserved
    <3>3. id = r.id
      BY <2>2, <3>2 DEF Unserved
    <3>4. r \in Unserved(id) /\ Unserved(id)' \subseteq (Unserved(id) \ {r}) \cup {q}
      BY <3>1, <3>2, <3>3 DEF Unserved
    <3>5. IsFiniteSet(Unserved(id)) /\ log[id].stored + Cardinality(Unserved(id)) <= log[id].tries
      BY DEF CopiesInv
    <3>6. /\ IsFiniteSet(Unserved(id)') /\ Cardinality(Unserved(id)') <= Cardinality(Unserved(id))
          /\ Cardinality(Unserved(id)') \in Nat /\ Cardinality(Unserved(id)) \in Nat
      BY <3>4, <3>5, CountTrades
    <3>7. log[id].stored \in Nat /\ log[id].tries \in Nat
      BY LogCounts
    <3> QED
      BY <1>2, <3>5, <3>6, <3>7
  <2> QED
    BY <2>1, <2>2
<1> QED
  BY <1>2, <1>4 DEF CopiesInv

(* A new item has one delivery to be served. *)
LEMMA CopiesSend ==
  ASSUME TypeInv, CopiesInv,
         NEW kind \in Kinds, NEW r \in Nat, NEW n \in Nat, NEW beacon \in BOOLEAN,
         Send(kind, r, n, beacon)
  PROVE  CopiesInv'
<1>1. CASE stopped
  BY <1>1 DEF Send, CopiesInv, Unserved
<1>2. CASE ~stopped
  <2>1. PICK new : Sent(new, kind, r, n, beacon)
    BY <1>2, SendFacts
  <2>2. PICK q \in Request : net' = net \cup {q} /\ q.id = new
    BY <2>1 DEF Sent
  <2>3. /\ new \notin DOMAIN log /\ DOMAIN log' = DOMAIN log \cup {new}
        /\ log'[new].tries = 1 /\ log'[new].stored = 0
        /\ \A j \in DOMAIN log : log'[j] = log[j]
    BY <2>1 DEF Sent
  <2>4. \A x \in net : x.id \in DOMAIN log
    BY DEF TypeInv, Known
  <2>5. ASSUME NEW id \in DOMAIN log
        PROVE  /\ IsFiniteSet(Unserved(id)')
               /\ log'[id].stored + Cardinality(Unserved(id)') <= log'[id].tries
    <3>1. Unserved(id)' \subseteq Unserved(id)
      BY <2>2, <2>3 DEF Unserved
    <3> QED
      BY <2>3, <3>1, CopiesFewer
  <2>6. /\ IsFiniteSet(Unserved(new)')
        /\ log'[new].stored + Cardinality(Unserved(new)') <= log'[new].tries
    <3>1. Unserved(new)' \in SUBSET ({} \cup {q})
      BY <2>2, <2>3, <2>4 DEF Unserved
    <3>2. IsFiniteSet({}) /\ Cardinality({}) = 0
      BY FS_EmptySet
    <3>3. IsFiniteSet(Unserved(new)') /\ Cardinality(Unserved(new)') <= 1
          /\ Cardinality(Unserved(new)') \in Nat
      BY <3>1, <3>2, CountGains
    <3> QED
      BY <2>3, <3>3
  <2> QED
    BY <2>3, <2>5, <2>6 DEF CopiesInv
<1> QED
  BY <1>1, <1>2 DEF TypeInv, TypeOK

(* A retry has one more. *)
LEMMA CopiesTake ==
  ASSUME TypeInv, CopiesInv, buffer # <<>>, takeHead
  PROVE  CopiesInv'
<1>1. PICK h \in DOMAIN log : h = hand'.id
  BY TakeFacts
<1>2. PICK q \in Request : net' = net \cup {q} /\ q.id = h
  BY <1>1, TakeFacts
<1>3. LogKept(log') /\ Tried(log', h)
  BY <1>1, TakeFacts
<1>4. ASSUME NEW id \in DOMAIN log
      PROVE  /\ IsFiniteSet(Unserved(id)')
             /\ log'[id].stored + Cardinality(Unserved(id)') <= log'[id].tries
  <2>1. log[id].stored \in Nat /\ log[id].tries \in Nat
    BY LogCounts
  <2>2. IsFiniteSet(Unserved(id)) /\ log[id].stored + Cardinality(Unserved(id)) <= log[id].tries
    BY DEF CopiesInv
  <2>3. CASE id = h
    <3>1. Unserved(id)' \in SUBSET (Unserved(id) \cup {q})
      BY <1>2 DEF Unserved
    <3>2. /\ IsFiniteSet(Unserved(id)')
          /\ Cardinality(Unserved(id)') <= Cardinality(Unserved(id)) + 1
          /\ Cardinality(Unserved(id)') \in Nat /\ Cardinality(Unserved(id)) \in Nat
      BY <2>2, <3>1, CountGains
    <3>3. log'[id].stored = log[id].stored /\ log'[id].tries = log[id].tries + 1
      BY <1>3, <2>3 DEF Tried
    <3> QED
      BY <2>1, <2>2, <3>2, <3>3
  <2>4. CASE id # h
    <3>1. Unserved(id)' \subseteq Unserved(id)
      BY <1>2, <2>4 DEF Unserved
    <3>2. log'[id].stored = log[id].stored /\ log'[id].tries = log[id].tries
      BY <1>3, <2>4 DEF Tried
    <3> QED
      BY <3>1, <3>2, CopiesFewer
  <2> QED
    BY <2>3, <2>4
<1> QED
  BY <1>3, <1>4 DEF CopiesInv, LogKept

(* The count is kept by every step. *)
LEMMA CopiesNext == TypeInv /\ CopiesInv /\ [Next]_vars => CopiesInv'
<1> SUFFICES ASSUME TypeInv, CopiesInv, [Next]_vars PROVE CopiesInv'
  OBVIOUS
<1>0. /\ run \in Nat /\ number \in Nat /\ 1 \in Nat /\ FALSE \in BOOLEAN
      /\ run + 1 \in Nat /\ number + 1 \in Nat
  BY DEF TypeInv, TypeOK
<1>1. CASE Start
  BY <1>0, <1>1, CopiesSend DEF Start, Kinds
<1>2. CASE startNewAttempt
  BY <1>0, <1>2, CopiesSend DEF startNewAttempt, Kinds
<1>3. CASE answer
  BY <1>0, <1>3, CopiesSend DEF answer, Kinds
<1>4. CASE finish
  BY <1>0, <1>4, CopiesSend, TelemetryAssumption DEF finish, Kinds
<1>5. CASE Reopen
  <2>1. log' = log /\ net' \subseteq net
    BY <1>5 DEF Reopen
  <2>2. \A id \in DOMAIN log : Unserved(id)' \subseteq Unserved(id)
    BY <2>1 DEF Unserved
  <2> QED
    BY <2>1, <2>2, CopiesFewer DEF CopiesInv
<1>6. CASE RetryTimer \/ Online \/ PauseOver
  <2>1. CASE buffer # <<>> /\ takeHead
    BY <2>1, CopiesTake
  <2>2. CASE UNCHANGED <<log, net>>
    BY <2>2 DEF CopiesInv, Unserved
  <2> QED
    BY <1>6, <2>1, <2>2 DEF RetryTimer, Online, PauseOver, processBuffer
<1>7. ASSUME NEW r \in net, Outcome(r) PROVE CopiesInv'
  BY <1>7, CopiesOutcome
<1>8. ASSUME NEW r \in net, Handle(r) PROVE CopiesInv'
  BY <1>8, CopiesHandle
<1>9. CASE UNCHANGED vars
  BY <1>9 DEF vars, page, CopiesInv, Unserved
<1> QED
  BY <1>1, <1>2, <1>3, <1>4, <1>5, <1>6, <1>7, <1>8, <1>9 DEF Next, Page, Timers, Ends

(* Whatever is lost, late, repeated or served after the page gave up on it,  *)
(* the analytics hold no more copies of an item than its deliveries, and    *)
(* these stay within the retry budget.                                      *)
THEOREM CopiesWithinBudget == Spec => []CopiesBounded
<1>1. Init => TypeInv /\ QueueInv /\ CopyInv /\ CopiesInv
  <2>1. Init => Len(buffer) <= MAX_BUFFER
    BY TelemetryAssumption DEF Init
  <2>2. Init => CopyInv /\ CopiesInv
    BY DEF Init, CopyInv, SingleCopy, BudgetSpent, Nobody, CopiesInv
  <2> QED
    BY <2>1, <2>2, TypeInit DEF Init, QueueInv, QueueBounded, NothingStranded, QuietWhenStopped
<1>2. TypeInv /\ QueueInv /\ CopyInv /\ CopiesInv /\ [Next]_vars
        => (TypeInv /\ QueueInv /\ CopyInv /\ CopiesInv)'
  BY TypeNext, QueueNext, CopyNext, CopiesNext
<1>3. TypeInv /\ CopyInv /\ CopiesInv => CopiesBounded
  <2> SUFFICES ASSUME TypeInv, CopyInv, CopiesInv, NEW id \in DOMAIN log
               PROVE  log[id].stored <= log[id].tries
    BY DEF CopyInv, CopiesBounded
  <2>1. log[id].stored \in Nat /\ log[id].tries \in Nat
    BY LogCounts
  <2>2. Cardinality(Unserved(id)) \in Nat
        /\ log[id].stored + Cardinality(Unserved(id)) <= log[id].tries
    BY FS_CardinalityType DEF CopiesInv
  <2> QED
    BY <2>1, <2>2
<1> QED
  BY <1>1, <1>2, <1>3, PTL DEF Spec

-----------------------------------------------------------------------------
(* Nothing is filed under an attempt that was not begun.  What is still in  *)
(* the page was sent by an attempt of this page, so the replies it waits    *)
(* for cannot carry a later number than the page has reached.               *)
LabelInv ==
  /\ FiledNoLater
  /\ \A id \in direct : log[id].run <= run
  /\ hand.id # 0 => log[hand.id].run <= run
  /\ \A i \in DOMAIN buffer : log[buffer[i].id].run <= run

LEMMA LogNats ==
  ASSUME TypeInv
  PROVE  \A id \in DOMAIN log : log[id].run \in Nat /\ log[id].number \in Nat
<1>1. \A id \in DOMAIN log : log[id] \in Item
  BY DEF TypeInv, TypeOK
<1>2. \A x \in Item : x.run \in Nat /\ x.number \in Nat
  BY DEF Item
<1> QED
  BY <1>1, <1>2

LEMMA LabelSend ==
  ASSUME TypeInv, LabelInv,
         NEW kind \in Kinds, NEW r \in Nat, NEW n \in Nat, NEW beacon \in BOOLEAN,
         Send(kind, r, n, beacon), UNCHANGED <<buffer, hand>>,
         run' = r, run <= r, n <= r, number' <= r, r > 0
  PROVE  LabelInv'
<1>0. run \in Nat /\ \A id \in DOMAIN log : log[id].run \in Nat /\ log[id].number \in Nat
  BY LogNats DEF TypeInv, TypeOK
<1>1. /\ direct \subseteq DOMAIN log /\ (hand.id # 0 => hand.id \in DOMAIN log)
      /\ \A i \in DOMAIN buffer : buffer[i].id \in DOMAIN log
  BY DEF TypeInv, Known
<1>2. CASE stopped
  BY <1>0, <1>1, <1>2 DEF Send, LabelInv, FiledNoLater
<1>3. CASE ~stopped
  <2> DEFINE new == Len(log) + 1
  <2>1. Sent(new, kind, r, n, beacon)
    BY <1>3, SendFacts
  <2> HIDE DEF new
  <2>2. /\ new \notin DOMAIN log /\ DOMAIN log' = DOMAIN log \cup {new} /\ direct' = direct \cup {new}
        /\ log'[new].run = r /\ log'[new].number = n /\ \A j \in DOMAIN log : log'[j] = log[j]
    BY <2>1 DEF Sent
  <2>3. FiledNoLater'
    BY <2>2 DEF LabelInv, FiledNoLater
  <2>4. /\ \A id \in direct' : log'[id].run <= run'
        /\ hand'.id # 0 => log'[hand'.id].run <= run'
        /\ \A i \in DOMAIN buffer' : log'[buffer'[i].id].run <= run'
    BY <1>0, <1>1, <2>2 DEF LabelInv
  <2> QED
    BY <2>3, <2>4 DEF LabelInv
<1> QED
  BY <1>2, <1>3 DEF TypeInv, TypeOK

LEMMA LabelTake ==
  ASSUME TypeInv, LabelInv, buffer # <<>>, takeHead, UNCHANGED <<run, number, direct>>
  PROVE  LabelInv'
<1>1. /\ hand' = buffer[1] /\ hand'.id \in DOMAIN log
      /\ \A i \in DOMAIN buffer' : i + 1 \in DOMAIN buffer /\ buffer'[i] = buffer[i + 1]
      /\ DOMAIN log' = DOMAIN log
      /\ \A j \in DOMAIN log : log'[j].run = log[j].run /\ log'[j].number = log[j].number
  BY TakeFacts DEF LogKept, SameItem
<1>2. 1 \in DOMAIN buffer
  BY DEF TypeInv, TypeOK
<1>3. /\ direct \subseteq DOMAIN log
      /\ \A i \in DOMAIN buffer : buffer[i].id \in DOMAIN log
  BY DEF TypeInv, Known
<1> QED
  BY <1>1, <1>2, <1>3 DEF LabelInv, FiledNoLater

LEMMA LabelOutcome ==
  ASSUME TypeInv, LabelInv, NEW r \in net, Outcome(r)
  PROVE  LabelInv'
<1>1. /\ Awaited(r) /\ Leaves(r.id) /\ r.id \in DOMAIN log /\ run' = run /\ r.id \in Ids
      /\ number' = number \/ number' = log[r.id].number
  BY OutcomeFacts, EndFacts
<1>2. DOMAIN log' = DOMAIN log
      /\ \A j \in DOMAIN log : log'[j].run = log[j].run /\ log'[j].number = log[j].number
  BY OutcomeFacts, EndFacts DEF LogKept, SameItem
<1>3. /\ direct \subseteq DOMAIN log /\ (hand.id # 0 => hand.id \in DOMAIN log)
      /\ \A i \in DOMAIN buffer : buffer[i].id \in DOMAIN log
  BY DEF TypeInv, Known
<1>4. run \in Nat /\ number \in Nat /\ \A id \in DOMAIN log : log[id].run \in Nat /\ log[id].number \in Nat
  BY LogNats DEF TypeInv, TypeOK
<1>5. log[r.id].run <= run /\ 0 \notin Ids
  BY <1>1 DEF LabelInv, Awaited, Delivering, Ids
<1>6. number' <= IF run' = 0 THEN 1 ELSE run'
  BY <1>1, <1>4, <1>5 DEF LabelInv, FiledNoLater
<1>7. \A i \in DOMAIN buffer' : log'[buffer'[i].id].run <= run'
  <2>1. CASE buffer' = buffer \/ buffer' = <<>>
    BY <1>1, <1>2, <1>3, <2>1 DEF LabelInv
  <2>2. CASE buffer' # buffer /\ buffer' # <<>>
    <3> DEFINE x == [id |-> r.id, retryCount |-> NextCount(r.id)]
    <3>1. Failed(r.id) /\ buffer' \in Seq(Entry) /\ NextCount(r.id) \in Nat
          /\ Enqueued(buffer', Append(buffer, x))
      BY <1>1, <2>2, OutcomeFacts, EndFacts
    <3>2. x \in Entry /\ buffer \in Seq(Entry) /\ x.id = r.id
      BY <1>1, <3>1 DEF Entry, TypeInv, TypeOK
    <3> HIDE DEF x
    <3>3. \A i \in DOMAIN buffer' : buffer'[i] = x \/ \E j \in DOMAIN buffer : buffer'[i] = buffer[j]
      BY <3>1, <3>2, EnqueuedEntries
    <3> QED
      BY <1>1, <1>2, <1>3, <1>5, <3>2, <3>3 DEF LabelInv
  <2> QED
    BY <2>1, <2>2
<1>8. /\ \A id \in direct' : log'[id].run <= run'
      /\ hand'.id # 0 => log'[hand'.id].run <= run'
  BY <1>1, <1>2, <1>3 DEF LabelInv, Leaves, Nobody
<1>9. FiledNoLater'
  BY <1>2, <1>6 DEF LabelInv, FiledNoLater
<1> QED
  BY <1>7, <1>8, <1>9 DEF LabelInv

LEMMA LabelNext == TypeInv /\ LabelInv /\ [Next]_vars => LabelInv'
<1> SUFFICES ASSUME TypeInv, LabelInv, [Next]_vars PROVE LabelInv'
  OBVIOUS
<1>0. /\ run \in Nat /\ number \in Nat /\ 1 \in Nat /\ FALSE \in BOOLEAN
      /\ run + 1 \in Nat /\ number + 1 \in Nat
      /\ number <= IF run = 0 THEN 1 ELSE run
  BY DEF TypeInv, TypeOK, LabelInv, FiledNoLater
<1>1. CASE Start
  <2>1. /\ run = 0 /\ run' = 1 /\ number' = number /\ UNCHANGED <<buffer, hand>>
        /\ Send("start", 1, number, FALSE)
    BY <1>1 DEF Start
  <2>2. run <= 1 /\ number <= 1 /\ number' <= 1 /\ 1 > 0 /\ "start" \in Kinds
    BY <1>0, <2>1 DEF Kinds
  <2> QED
    BY <1>0, <2>1, <2>2, LabelSend
<1>2. CASE startNewAttempt
  <2>1. /\ run > 0 /\ run' = run + 1 /\ number' = number + 1 /\ UNCHANGED <<buffer, hand>>
        /\ Send("start", run + 1, number + 1, FALSE)
    BY <1>2 DEF startNewAttempt
  <2>2. /\ run <= run + 1 /\ number + 1 <= run + 1 /\ number' <= run + 1 /\ run + 1 > 0
        /\ "start" \in Kinds
    BY <1>0, <2>1 DEF Kinds
  <2> QED
    BY <1>0, <2>1, <2>2, LabelSend
<1>3. CASE answer
  <2>1. /\ run > 0 /\ run' = run /\ number' = number /\ UNCHANGED <<buffer, hand>>
        /\ Send("answer", run, number, FALSE)
    BY <1>3 DEF answer
  <2>2. run <= run /\ number <= run /\ number' <= run /\ "answer" \in Kinds
    BY <1>0, <2>1 DEF Kinds
  <2> QED
    BY <1>0, <2>1, <2>2, LabelSend
<1>4. CASE finish
  <2>1. /\ run' = run /\ run <= run /\ number <= run /\ number' <= run /\ run > 0
        /\ UNCHANGED <<buffer, hand>> /\ Send("finish", run, number, ~keepalive)
    BY <1>0, <1>4 DEF finish
  <2> QED
    BY <1>0, <2>1, LabelSend, TelemetryAssumption DEF Kinds
<1>5. CASE Reopen
  <2>1. /\ number' = 1 /\ run' \in {0, 1} /\ DOMAIN buffer' = {} /\ direct' = {} /\ hand'.id = 0
        /\ log' = log
    BY <1>5 DEF Reopen, Nobody
  <2> QED
    BY <2>1 DEF LabelInv, FiledNoLater
<1>6. CASE RetryTimer \/ Online
  <2>1. CASE sending \/ stopped \/ buffer = <<>>
    BY <1>6, <2>1 DEF RetryTimer, Online, processBuffer, LabelInv, FiledNoLater
  <2>2. CASE ~(sending \/ stopped \/ buffer = <<>>)
    BY <1>6, <2>2, LabelTake DEF RetryTimer, Online, processBuffer
  <2> QED
    BY <2>1, <2>2
<1>7. CASE PauseOver
  <2>1. CASE buffer # <<>> /\ ~stopped
    BY <1>7, <2>1, LabelTake DEF PauseOver
  <2>2. CASE ~(buffer # <<>> /\ ~stopped)
    BY <1>7, <2>2 DEF PauseOver, LabelInv, FiledNoLater
  <2> QED
    BY <2>1, <2>2
<1>8. ASSUME NEW r \in net, Outcome(r) PROVE LabelInv'
  BY <1>8, LabelOutcome
<1>9. ASSUME NEW r \in net, Handle(r) PROVE LabelInv'
  <2>1. UNCHANGED <<run, number, buffer, hand, direct>>
    BY <1>9, HandleFacts
  <2>2. DOMAIN log' = DOMAIN log
        /\ \A j \in DOMAIN log : log'[j].run = log[j].run /\ log'[j].number = log[j].number
    BY <1>9, HandleFacts DEF LogKept, SameItem
  <2>3. /\ direct \subseteq DOMAIN log /\ (hand.id # 0 => hand.id \in DOMAIN log)
        /\ \A i \in DOMAIN buffer : buffer[i].id \in DOMAIN log
    BY DEF TypeInv, Known
  <2> QED
    BY <2>1, <2>2, <2>3 DEF LabelInv, FiledNoLater
<1>10. CASE UNCHANGED vars
  BY <1>10 DEF vars, page, LabelInv, FiledNoLater
<1> QED
  BY <1>1, <1>2, <1>3, <1>4, <1>5, <1>6, <1>7, <1>8, <1>9, <1>10
     DEF Next, Page, Timers, Ends

(* However late and however often the replies of /start arrive, nothing is  *)
(* filed under an attempt the learner has not begun.                        *)
THEOREM LabelsNeverAhead == Spec => []FiledNoLater
<1>1. Init => TypeInv /\ LabelInv
  BY TypeInit DEF Init, LabelInv, FiledNoLater, Nobody
<1>2. TypeInv /\ LabelInv /\ [Next]_vars => (TypeInv /\ LabelInv)'
  BY TypeNext, LabelNext
<1>3. LabelInv => FiledNoLater
  BY DEF LabelInv
<1> QED
  BY <1>1, <1>2, <1>3, PTL DEF Spec

-----------------------------------------------------------------------------
(* What is acknowledged is filed.  A reply "ok" on its way is already backed *)
(* by the server, and only beacons are handed over without a reply.         *)
AckInv ==
  /\ AckMeansStored
  /\ \A r \in net : r.step = "ok" => Backed(r.id)
  /\ \A r \in net : r.step = "queueing" => log[r.id].beacon

(* Nothing that is backed ceases to be, when rows and copies only grow.     *)
LEMMA BackedKept ==
  ASSUME TypeInv, NEW id \in DOMAIN log, Backed(id), attempts \subseteq attempts',
         SameItem(log'[id], log[id]), log'[id].stored >= log[id].stored,
         log'[id].stored \in Nat
  PROVE  Backed(id)'
<1>1. log[id].stored \in Nat
  <2>1. log[id] \in Item
    BY DEF TypeInv, TypeOK
  <2> QED
    BY <2>1 DEF Item
<1> QED
  BY <1>1 DEF Backed, SameItem

LEMMA AckKept ==
  ASSUME TypeInv, AckInv, attempts' = attempts, LogKept(log'),
         \A j \in DOMAIN log : log'[j].stored = log[j].stored,
         \A j \in DOMAIN log : log'[j].acked => log[j].acked \/ log[j].beacon \/ Backed(j),
         \A q \in net' : \/ q \in net
                         \/ q.id \in DOMAIN log /\ q.step # "ok"
                            /\ (q.step = "queueing" => log[q.id].beacon)
  PROVE  AckInv'
<1>1. \A j \in DOMAIN log : Backed(j) => Backed(j)'
  BY DEF LogKept, SameItem, Backed
<1>2. \A r \in net : r.id \in DOMAIN log
  BY DEF TypeInv, Known
<1> QED
  BY <1>1, <1>2 DEF AckInv, AckMeansStored, LogKept, SameItem

LEMMA AckSend ==
  ASSUME TypeInv, AckInv,
         NEW kind \in Kinds, NEW r \in Nat, NEW n \in Nat, NEW beacon \in BOOLEAN,
         Send(kind, r, n, beacon), UNCHANGED attempts
  PROVE  AckInv'
<1>1. CASE stopped
  BY <1>1 DEF Send, AckInv, AckMeansStored, Backed
<1>2. CASE ~stopped
  <2> DEFINE new == Len(log) + 1
  <2>1. Sent(new, kind, r, n, beacon)
    BY <1>2, SendFacts
  <2> HIDE DEF new
  <2>2. /\ new \notin DOMAIN log /\ DOMAIN log' = DOMAIN log \cup {new}
        /\ log'[new].acked = FALSE /\ log'[new].beacon = beacon
        /\ \A j \in DOMAIN log : log'[j] = log[j]
    BY <2>1 DEF Sent
  <2>3. PICK q \in Request : /\ net' = net \cup {q} /\ q.id = new
                             /\ q.step = IF beacon THEN "queueing" ELSE "going"
    BY <2>1 DEF Sent
  <2>4. \A r1 \in net : r1.id \in DOMAIN log
    BY DEF TypeInv, Known
  <2>5. \A j \in DOMAIN log : Backed(j) => Backed(j)'
    BY <2>2 DEF Backed
  <2>6. q.step # "ok" /\ (q.step = "queueing" => beacon)
    BY <2>3
  <2> QED
    BY <2>2, <2>3, <2>4, <2>5, <2>6 DEF AckInv, AckMeansStored
<1> QED
  BY <1>1, <1>2 DEF TypeInv, TypeOK

LEMMA AckTake ==
  ASSUME TypeInv, AckInv, buffer # <<>>, takeHead, UNCHANGED attempts
  PROVE  AckInv'
<1>1. LogKept(log') /\ Tried(log', hand'.id) /\ hand'.id \in DOMAIN log
  BY TakeFacts
<1>2. PICK q \in Request : /\ net' = net \cup {q} /\ q.id = hand'.id
                           /\ q.step = IF log[hand'.id].beacon THEN "queueing" ELSE "going"
  BY TakeFacts
<1>3. q.step # "ok" /\ (q.step = "queueing" => log[q.id].beacon)
  BY <1>2
<1> QED
  BY <1>1, <1>2, <1>3, AckKept DEF Tried

LEMMA AckOutcome ==
  ASSUME TypeInv, AckInv, NEW r \in net, Outcome(r)
  PROVE  AckInv'
<1>1. Awaited(r) /\ r.id \in DOMAIN log /\ attempts' = attempts
  BY OutcomeFacts, EndFacts
<1>2. \A q \in net' : q \in net \/ (q.id \in DOMAIN log /\ q.step = "going")
  BY <1>1, OutcomeFacts
<1>3. log = log' => LogKept(log')
  BY DEF LogKept, SameItem, TypeInv, TypeOK
<1>4. CASE Delivered(r.id) /\ r.step \in {"ok", "queueing"}
  <2>1. LogKept(log') /\ Acked(log', r.id)
    BY <1>1, <1>4, EndFacts
  <2>2. log[r.id].beacon \/ Backed(r.id)
    BY <1>4 DEF AckInv
  <2>3. \A j \in DOMAIN log : log'[j].stored = log[j].stored
    BY <2>1 DEF Acked
  <2>4. \A j \in DOMAIN log : log'[j].acked => log[j].acked \/ log[j].beacon \/ Backed(j)
    BY <2>1, <2>2 DEF Acked
  <2> QED
    BY <1>1, <1>2, <2>1, <2>3, <2>4, AckKept
<1>5. CASE Refused(r.id) \/ Failed(r.id)
  <2>1. log' = log
    BY <1>1, <1>5, EndFacts
  <2> QED
    BY <1>1, <1>2, <1>3, <2>1, AckKept
<1> QED
  BY <1>4, <1>5, OutcomeFacts

LEMMA AckHandle ==
  ASSUME TypeInv, AckInv, NEW r \in net, Handle(r)
  PROVE  AckInv'
<1>1. /\ attempts \subseteq attempts' /\ r.id \in DOMAIN log
      /\ log' = log \/ (LogKept(log') /\ Filed(log', r.id))
  BY HandleFacts DEF TypeInv, Known
<1>2. \A j \in DOMAIN log : log[j] \in Item /\ log[j].stored \in Nat
  <2>1. \A j \in DOMAIN log : log[j] \in Item
    BY DEF TypeInv, TypeOK
  <2> QED
    BY <2>1 DEF Item
<1>3. /\ DOMAIN log' = DOMAIN log
      /\ \A j \in DOMAIN log : /\ SameItem(log'[j], log[j]) /\ log'[j].acked = log[j].acked
                               /\ log'[j].stored >= log[j].stored /\ log'[j].stored \in Nat
  BY <1>1, <1>2 DEF LogKept, Filed, SameItem
<1>4. \A j \in DOMAIN log : Backed(j) => Backed(j)'
  BY <1>1, <1>3, BackedKept
<1>5. AckMeansStored'
  BY <1>3, <1>4 DEF AckInv, AckMeansStored, SameItem
<1>6. \A q \in net : q.id \in DOMAIN log
  BY DEF TypeInv, Known
<1>7. \A q \in net' : /\ q.step = "queueing" => log'[q.id].beacon
                      /\ q.step = "ok" => Backed(q.id)'
  <2>1. ASSUME NEW q \in net
        PROVE  /\ q.step = "queueing" => log'[q.id].beacon
               /\ q.step = "ok" => Backed(q.id)'
    BY <1>3, <1>4, <1>6, <2>1 DEF AckInv, SameItem
  <2>2. CASE net' = net \ {r}
    BY <2>1, <2>2
  <2>3. ASSUME NEW q \in Request, net' = (net \ {r}) \cup {q},
               q.step \in {"creating", "ok", "stop", "retry"}, q.id = r.id,
               q.step = "ok" => IF log[r.id].kind = "start"
                                THEN AttemptOf(r) \in attempts'
                                ELSE LogKept(log') /\ Filed(log', r.id)
        PROVE  \A q1 \in net' : /\ q1.step = "queueing" => log'[q1.id].beacon
                                /\ q1.step = "ok" => Backed(q1.id)'
    <3>1. q.step = "ok" => Backed(r.id)'
      <4>1. CASE log[r.id].kind = "start"
        BY <1>1, <1>3, <2>3, <4>1 DEF Backed, AttemptOf, SameItem
      <4>2. CASE log[r.id].kind # "start"
        BY <1>1, <1>2, <1>3, <2>3, <4>2 DEF Backed, SameItem, Filed
      <4> QED
        BY <4>1, <4>2
    <3> QED
      BY <2>1, <2>3, <3>1
  <2> QED
    BY <2>2, <2>3, HandleFacts
<1> QED
  BY <1>5, <1>7 DEF AckInv

LEMMA AckNext == TypeInv /\ AckInv /\ [Next]_vars => AckInv'
<1> SUFFICES ASSUME TypeInv, AckInv, [Next]_vars PROVE AckInv'
  OBVIOUS
<1>0. /\ run \in Nat /\ number \in Nat /\ 1 \in Nat /\ FALSE \in BOOLEAN
      /\ run + 1 \in Nat /\ number + 1 \in Nat
  BY DEF TypeInv, TypeOK
<1>1. CASE Start
  BY <1>0, <1>1, AckSend DEF Start, Kinds
<1>2. CASE startNewAttempt
  BY <1>0, <1>2, AckSend DEF startNewAttempt, Kinds
<1>3. CASE answer
  BY <1>0, <1>3, AckSend DEF answer, Kinds
<1>4. CASE finish
  BY <1>0, <1>4, AckSend, TelemetryAssumption DEF finish, Kinds
<1>5. CASE Reopen
  <2>1. log' = log /\ attempts' = attempts /\ net' \subseteq net
    BY <1>5 DEF Reopen
  <2> QED
    BY <2>1 DEF AckInv, AckMeansStored, Backed
<1>6. CASE RetryTimer \/ Online
  <2>1. CASE sending \/ stopped \/ buffer = <<>>
    BY <1>6, <2>1 DEF RetryTimer, Online, processBuffer, AckInv, AckMeansStored, Backed
  <2>2. CASE ~(sending \/ stopped \/ buffer = <<>>)
    BY <1>6, <2>2, AckTake DEF RetryTimer, Online, processBuffer
  <2> QED
    BY <2>1, <2>2
<1>7. CASE PauseOver
  <2>1. CASE buffer # <<>> /\ ~stopped
    BY <1>7, <2>1, AckTake DEF PauseOver
  <2>2. CASE ~(buffer # <<>> /\ ~stopped)
    BY <1>7, <2>2 DEF PauseOver, AckInv, AckMeansStored, Backed
  <2> QED
    BY <2>1, <2>2
<1>8. ASSUME NEW r \in net, Outcome(r) PROVE AckInv'
  BY <1>8, AckOutcome
<1>9. ASSUME NEW r \in net, Handle(r) PROVE AckInv'
  BY <1>9, AckHandle
<1>10. CASE UNCHANGED vars
  BY <1>10 DEF vars, AckInv, AckMeansStored, Backed
<1> QED
  BY <1>1, <1>2, <1>3, <1>4, <1>5, <1>6, <1>7, <1>8, <1>9, <1>10
     DEF Next, Page, Timers, Ends

(* What the page takes for delivered is filed, whatever is lost, repeated,  *)
(* late or refused; a result handed to the beacon queue is the exception.   *)
THEOREM AcknowledgedIsFiled == Spec => []AckMeansStored
<1>1. Init => TypeInv /\ AckInv
  BY TypeInit DEF Init, AckInv, AckMeansStored
<1>2. TypeInv /\ AckInv /\ [Next]_vars => (TypeInv /\ AckInv)'
  BY TypeNext, AckNext
<1>3. AckInv => AckMeansStored
  BY DEF AckInv
<1> QED
  BY <1>1, <1>2, <1>3, PTL DEF Spec

=============================================================================
