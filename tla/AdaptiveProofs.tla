--------------------------- MODULE AdaptiveProofs ---------------------------
(***************************************************************************)
(* Proofs about AdaptiveRun, for any ladders, any answers and any number   *)
(* of requests that overlap.                                               *)
(*                                                                         *)
(* Every request computes a whole variant from a whole variant, so that it *)
(* is enough to know what one variant can be: Good says that the ladder of *)
(* the current topic has come straight up or straight down from its middle *)
(* level, that the topics before are done and those after wait.  Answer    *)
(* and LeaveTopic lead from good variants to good variants, and whichever  *)
(* copy is written last is one of them.                                    *)
(***************************************************************************)
EXTENDS AdaptiveRun, FiniteSetTheorems, TLAPS

LevelState ==
  [status   : {"pending", "in_progress", "passed", "failed"},
   answered : Nat,
   correct  : Nat]

Topic(t) ==
  [level     : 1 .. Levels[t],
   final     : 0 .. Levels[t],
   completed : BOOLEAN,
   states    : [1 .. Levels[t] -> LevelState]]

Variant ==
  {v \in [topic    : 1 .. Topics,
          question : Nat,
          topics   : [1 .. Topics -> UNION {Topic(t) : t \in 1 .. Topics}]] :
     \A t \in 1 .. Topics : v.topics[t] \in Topic(t)}

(* VerdictsAreEarned of one level. *)
Earned(t, l, s) ==
  /\ s.correct <= s.answered /\ s.answered <= Size[t][l]
  /\ s.status = "passed" => s.correct >= Required[t][l]
  /\ s.status = "failed" => s.correct + Size[t][l] - s.answered < Required[t][l]
  /\ (s.status \notin {"passed", "failed"} /\ s.answered > 0) =>
       /\ s.correct < Required[t][l]
       /\ s.correct + Size[t][l] - s.answered >= Required[t][l]

(* Straight down from the middle: everything above has failed. *)
Descending(t, p) ==
  /\ p.final = 0
  /\ p.level <= StartLevel(t)
  /\ \A l \in (1 .. Levels[t]) \ {p.level} :
       IF p.level < l /\ l <= StartLevel(t) THEN p.states[l].status = "failed"
       ELSE p.states[l] = Pending

(* Straight up from the middle: everything below has passed. *)
Ascending(t, p) ==
  /\ p.final = p.level - 1
  /\ p.level > StartLevel(t)
  /\ \A l \in (1 .. Levels[t]) \ {p.level} :
       IF StartLevel(t) <= l /\ l < p.level THEN p.states[l].status = "passed"
       ELSE p.states[l] = Pending

(* A topic that is being played, but for what is known of its current level. *)
OnTheWay(t, p) ==
  /\ ~p.completed
  /\ p.states[p.level].status = "in_progress"
  /\ Descending(t, p) \/ Ascending(t, p)
  /\ \A l \in (1 .. Levels[t]) \ {p.level} : Earned(t, l, p.states[l])

Playing(t, p) == OnTheWay(t, p) /\ Earned(t, p.level, p.states[p.level])

(* LevelIsDeserved of one topic. *)
Deserved(t, p) ==
  /\ \A i, j \in 1 .. Levels[t] :
       p.states[i].status = "failed" /\ p.states[j].status = "passed" => j < i
  /\ \/ p.final = 0 /\ \A l \in 1 .. Levels[t] : p.states[l].status # "passed"
     \/ /\ p.final # 0 /\ p.states[p.final].status = "passed"
        /\ \A l \in 1 .. Levels[t] : p.states[l].status = "passed" => l <= p.final

Judged(t, p) == Deserved(t, p) /\ \A l \in 1 .. Levels[t] : Earned(t, l, p.states[l])

(* The topics around the current one. *)
Around(v) ==
  \A t \in 1 .. Topics :
    /\ t < v.topic => v.topics[t].completed /\ Judged(t, v.topics[t])
    /\ t > v.topic => v.topics[t] = Waiting(t)

Good(v) ==
  /\ v \in Variant
  /\ Around(v)
  /\ \/ v.question = 0 /\ v.topic = Topics /\ Current(v).completed /\ Judged(Topics, Current(v))
     \/ Playing(v.topic, Current(v)) /\ v.question = CurrentLevel(v).answered + 1

-----------------------------------------------------------------------------
(* Types.                                                                   *)

LEMMA LadderFacts ==
  ASSUME NEW t \in 1 .. Topics
  PROVE  /\ Topics \in Nat \ {0} /\ Levels[t] \in Nat \ {0}
         /\ StartLevel(t) \in 1 .. Levels[t]
         /\ \A l \in 1 .. Levels[t] : Size[t][l] \in Nat \ {0} /\ Required[t][l] \in Nat
<1> DEFINE n == Levels[t]
<1>1. n \in Nat \ {0}
  BY LadderAssumption
<1>2. n \div 2 \in Nat /\ n \div 2 + 1 <= n
  <2> HIDE DEF n
  <2> QED
    BY <1>1
<1> QED
  BY <1>1, <1>2, LadderAssumption DEF StartLevel

LEMMA VariantFields ==
  ASSUME NEW v \in Variant
  PROVE  /\ v.topic \in 1 .. Topics /\ v.question \in Nat
         /\ v = [topic |-> v.topic, question |-> v.question, topics |-> v.topics]
         /\ v.topics \in [1 .. Topics -> UNION {Topic(t) : t \in 1 .. Topics}]
         /\ \A t \in 1 .. Topics : v.topics[t] \in Topic(t)
         /\ Current(v) \in Topic(v.topic)
BY DEF Variant, Current

LEMMA PutFacts ==
  ASSUME NEW v \in Variant, NEW p \in Topic(v.topic), NEW n \in Nat
  PROVE  /\ Put(v, p, n) \in Variant
         /\ Put(v, p, n).topic = v.topic
         /\ Put(v, p, n).question = n
         /\ Current(Put(v, p, n)) = p
         /\ \A t \in (1 .. Topics) \ {v.topic} : Put(v, p, n).topics[t] = v.topics[t]
BY VariantFields DEF Put, Variant, Current

LEMMA PutPut ==
  ASSUME NEW v \in Variant, NEW p \in Topic(v.topic), NEW n \in Nat, NEW q, NEW k
  PROVE  Put(Put(v, p, n), q, k) = Put(v, q, k)
BY VariantFields DEF Put

LEMMA JudgeFacts ==
  ASSUME NEW t \in 1 .. Topics, NEW p \in Topic(t), NEW verdict \in {"passed", "failed"}
  PROVE  LET q == Judge(p, verdict)
         IN  /\ q \in Topic(t)
             /\ q.level = p.level /\ q.final = p.final /\ q.completed = p.completed
             /\ q.states[p.level] = [p.states[p.level] EXCEPT !.status = verdict]
             /\ \A l \in (1 .. Levels[t]) \ {p.level} : q.states[l] = p.states[l]
BY DEF Judge, Topic, LevelState

LEMMA BeginFacts ==
  ASSUME NEW t \in 1 .. Topics, NEW p \in Topic(t), NEW m \in 1 .. Levels[t]
  PROVE  LET q == Begin(p, m)
         IN  /\ q \in Topic(t)
             /\ q.level = m /\ q.final = p.final /\ q.completed = p.completed
             /\ q.states[m] = [p.states[m] EXCEPT !.status = "in_progress"]
             /\ \A l \in (1 .. Levels[t]) \ {m} : q.states[l] = p.states[l]
BY DEF Begin, Topic, LevelState

LEMMA WaitingType ==
  ASSUME NEW t \in 1 .. Topics
  PROVE  Waiting(t) \in Topic(t)
BY LadderFacts DEF Waiting, Topic, LevelState, Pending

LEMMA CountedFacts ==
  ASSUME NEW t \in 1 .. Topics, NEW p \in Topic(t), NEW isCorrect \in BOOLEAN
  PROVE  LET q == Counted(p, isCorrect)
             s == p.states[p.level]
             r == q.states[p.level]
         IN  /\ q \in Topic(t)
             /\ q.level = p.level /\ q.final = p.final /\ q.completed = p.completed
             /\ r.status = s.status /\ r.answered = s.answered + 1
             /\ r.correct \in {s.correct, s.correct + 1}
             /\ \A l \in (1 .. Levels[t]) \ {p.level} : q.states[l] = p.states[l]
<1> DEFINE s == p.states[p.level]
           r == [status |-> s.status, answered |-> s.answered + 1,
                 correct |-> IF isCorrect THEN s.correct + 1 ELSE s.correct]
           q == [p EXCEPT !.states[p.level] = r]
<1>1. s \in LevelState
  BY DEF Topic
<1>2. /\ r \in LevelState
      /\ r.status = s.status /\ r.answered = s.answered + 1
      /\ r.correct \in {s.correct, s.correct + 1}
  <2> HIDE DEF s
  <2>1. CASE isCorrect
    BY <1>1, <2>1 DEF LevelState
  <2>2. CASE ~isCorrect
    BY <1>1, <2>2 DEF LevelState
  <2> QED
    BY <2>1, <2>2
<1>3. Counted(p, isCorrect) = q
  BY DEF Counted
<1> HIDE DEF r
<1>4. /\ q \in Topic(t)
      /\ q.level = p.level /\ q.final = p.final /\ q.completed = p.completed
      /\ q.states[p.level] = r
      /\ \A l \in (1 .. Levels[t]) \ {p.level} : q.states[l] = p.states[l]
  <2> HIDE DEF s
  <2> QED
    BY <1>2 DEF Topic
<1> QED
  BY <1>2, <1>3, <1>4

-----------------------------------------------------------------------------
(* One topic.                                                               *)

(* Whatever the timer interrupts, the verdicts given so far are in order.   *)
LEMMA WayDeserved ==
  ASSUME NEW t \in 1 .. Topics, NEW p \in Topic(t), OnTheWay(t, p)
  PROVE  Deserved(t, p)
<1>1. p.level \in 1 .. Levels[t] /\ StartLevel(t) \in 1 .. Levels[t] /\ Levels[t] \in Nat
  BY LadderFacts DEF Topic
<1>2. CASE Descending(t, p)
  BY <1>1, <1>2 DEF OnTheWay, Descending, Deserved, Pending
<1>3. CASE Ascending(t, p)
  <2>1. \A l \in 1 .. Levels[t] : p.states[l].status = "passed" <=> StartLevel(t) <= l /\ l < p.level
    BY <1>1, <1>3 DEF OnTheWay, Ascending, Pending
  <2>2. \A l \in 1 .. Levels[t] : p.states[l].status # "failed"
    BY <1>1, <1>3 DEF OnTheWay, Ascending, Pending
  <2> QED
    BY <1>1, <1>3, <2>1, <2>2 DEF Ascending, Deserved
<1> QED
  BY <1>2, <1>3 DEF OnTheWay

(* The answer that passes a level. *)
LEMMA WonFacts ==
  ASSUME NEW t \in 1 .. Topics, NEW p \in Topic(t), OnTheWay(t, p),
         p.states[p.level].correct <= p.states[p.level].answered,
         p.states[p.level].answered <= Size[t][p.level],
         p.states[p.level].correct >= Required[t][p.level]
  PROVE  LET q == [Judge(p, "passed") EXCEPT !.final = p.level]
         IN  /\ q \in Topic(t) /\ Judged(t, q)
             /\ (p.level < Levels[t] /\ q.states[p.level + 1].status = "pending")
                  => Playing(t, Begin(q, p.level + 1)) /\ q.states[p.level + 1].answered = 0
<1> DEFINE l == p.level
           q == [Judge(p, "passed") EXCEPT !.final = l]
<1>1. l \in 1 .. Levels[t] /\ StartLevel(t) \in 1 .. Levels[t] /\ Levels[t] \in Nat \ {0}
  BY LadderFacts DEF Topic
<1>2. /\ q \in Topic(t)
      /\ q.level = l /\ q.final = l /\ q.completed = p.completed
      /\ q.states[l] = [p.states[l] EXCEPT !.status = "passed"]
      /\ \A m \in (1 .. Levels[t]) \ {l} : q.states[m] = p.states[m]
  <2> DEFINE j == Judge(p, "passed")
  <2>1. /\ j \in Topic(t)
        /\ j.level = l /\ j.completed = p.completed
        /\ j.states[l] = [p.states[l] EXCEPT !.status = "passed"]
        /\ \A m \in (1 .. Levels[t]) \ {l} : j.states[m] = p.states[m]
    BY JudgeFacts
  <2> DEFINE k == [j EXCEPT !.final = l]
  <2> HIDE DEF j
  <2>2. k \in Topic(t)
    BY <1>1, <2>1 DEF Topic
  <2>3. k.level = j.level /\ k.final = l /\ k.completed = j.completed /\ k.states = j.states
    BY <1>1, <2>1 DEF Topic
  <2>4. k = q
    BY DEF j
  <2> HIDE DEF k
  <2> QED
    BY <2>1, <2>2, <2>3, <2>4
<1>3. /\ p.states[l] \in LevelState /\ p.states[l].status = "in_progress"
      /\ \A m \in (1 .. Levels[t]) \ {l} : Earned(t, m, p.states[m])
  BY <1>1 DEF OnTheWay, Topic
<1>4. Earned(t, l, q.states[l])
  BY <1>2, <1>3 DEF Earned, LevelState
<1> HIDE DEF q
<1>5. \A m \in 1 .. Levels[t] : Earned(t, m, q.states[m])
  BY <1>2, <1>3, <1>4
<1>6. q.states[l].status = "passed"
  BY <1>2, <1>3 DEF LevelState
<1>7. Deserved(t, q)
  <2>1. CASE Descending(t, p)
    <3>1. \A m \in (1 .. Levels[t]) \ {l} :
            q.states[m].status # "passed" /\ (q.states[m].status = "failed" => l < m)
      BY <1>1, <1>2, <2>1 DEF Descending, Pending
    <3> QED
      BY <1>1, <1>2, <1>6, <3>1 DEF Deserved
  <2>2. CASE Ascending(t, p)
    <3>1. \A m \in (1 .. Levels[t]) \ {l} :
            q.states[m].status # "failed" /\ (q.states[m].status = "passed" => m < l)
      BY <1>1, <1>2, <2>2 DEF Ascending, Pending
    <3> QED
      BY <1>1, <1>2, <1>6, <3>1 DEF Deserved
  <2> QED
    BY <2>1, <2>2 DEF OnTheWay
<1>8. ASSUME l < Levels[t], q.states[l + 1].status = "pending"
      PROVE  Playing(t, Begin(q, l + 1)) /\ q.states[l + 1].answered = 0
  <2> DEFINE b == Begin(q, l + 1)
  <2>1. l + 1 \in (1 .. Levels[t]) \ {l}
    BY <1>1, <1>8
  <2>2. /\ b.level = l + 1 /\ b.final = l /\ ~b.completed
        /\ b.states[l + 1] = [q.states[l + 1] EXCEPT !.status = "in_progress"]
        /\ \A m \in (1 .. Levels[t]) \ {l + 1} : b.states[m] = q.states[m]
    BY <1>2, <2>1, BeginFacts DEF OnTheWay
  <2> HIDE DEF b
  <2>3. l >= StartLevel(t)
    BY <1>1, <1>2, <1>8, <2>1 DEF OnTheWay, Descending, Ascending
  <2>4. q.states[l + 1] = Pending
    BY <1>1, <1>2, <1>8, <2>1, <2>3 DEF OnTheWay, Descending, Ascending
  <2>5. \A m \in (1 .. Levels[t]) \ {l} :
           IF StartLevel(t) <= m /\ m < l THEN q.states[m].status = "passed"
           ELSE q.states[m] = Pending
    BY <1>1, <1>2, <2>3 DEF OnTheWay, Descending, Ascending
  <2>6. Ascending(t, b)
    BY <1>1, <1>6, <2>1, <2>2, <2>3, <2>5 DEF Ascending
  <2>7. b.states[l + 1].status = "in_progress" /\ Earned(t, l + 1, b.states[l + 1])
    BY <2>1, <2>2, <2>4, LadderFacts DEF Earned, Pending
  <2> QED
    BY <1>5, <2>2, <2>4, <2>6, <2>7 DEF Playing, OnTheWay, Pending, b
<1> QED
  BY <1>2, <1>5, <1>7, <1>8 DEF Judged, q

(* The answer that fails a level. *)
LEMMA LostFacts ==
  ASSUME NEW t \in 1 .. Topics, NEW p \in Topic(t), OnTheWay(t, p),
         p.states[p.level].correct <= p.states[p.level].answered,
         p.states[p.level].answered <= Size[t][p.level],
         p.states[p.level].correct + (Size[t][p.level] - p.states[p.level].answered) < Required[t][p.level]
  PROVE  LET q == Judge(p, "failed")
         IN  /\ q \in Topic(t) /\ Judged(t, q)
             /\ (q.final = 0 /\ p.level > 1 /\ q.states[p.level - 1].status = "pending")
                  => Playing(t, Begin(q, p.level - 1)) /\ q.states[p.level - 1].answered = 0
<1> DEFINE l == p.level
           q == Judge(p, "failed")
<1>1. l \in 1 .. Levels[t] /\ StartLevel(t) \in 1 .. Levels[t] /\ Levels[t] \in Nat \ {0}
  BY LadderFacts DEF Topic
<1>2. /\ q \in Topic(t)
      /\ q.level = l /\ q.final = p.final /\ q.completed = p.completed
      /\ q.states[l] = [p.states[l] EXCEPT !.status = "failed"]
      /\ \A m \in (1 .. Levels[t]) \ {l} : q.states[m] = p.states[m]
  BY JudgeFacts
<1>3. /\ p.states[l] \in LevelState /\ p.states[l].status = "in_progress"
      /\ \A m \in (1 .. Levels[t]) \ {l} : Earned(t, m, p.states[m])
      /\ Size[t][l] \in Nat
  BY <1>1, LadderFacts DEF OnTheWay, Topic
<1>4. Earned(t, l, q.states[l])
  BY <1>2, <1>3 DEF Earned, LevelState
<1> HIDE DEF q
<1>5. \A m \in 1 .. Levels[t] : Earned(t, m, q.states[m])
  BY <1>2, <1>3, <1>4
<1>6. q.states[l].status = "failed"
  BY <1>2, <1>3 DEF LevelState
<1>7. Deserved(t, q)
  <2>1. CASE Descending(t, p)
    <3>1. q.final = 0
      BY <1>2, <2>1 DEF Descending
    <3>2. \A m \in (1 .. Levels[t]) \ {l} : q.states[m].status # "passed"
      BY <1>1, <1>2, <2>1 DEF Descending, Pending
    <3> QED
      BY <1>6, <3>1, <3>2 DEF Deserved
  <2>2. CASE Ascending(t, p)
    <3>1. \A m \in 1 .. Levels[t] : q.states[m].status = "passed" <=> StartLevel(t) <= m /\ m < l
      <4>1. \A m \in (1 .. Levels[t]) \ {l} :
              q.states[m].status = "passed" <=> StartLevel(t) <= m /\ m < l
        BY <1>1, <1>2, <2>2 DEF Ascending, Pending
      <4> QED
        BY <1>1, <1>6, <4>1
    <3>2. \A m \in 1 .. Levels[t] : q.states[m].status = "failed" => m = l
      BY <1>1, <1>2, <2>2 DEF Ascending, Pending
    <3>3. q.final = l - 1 /\ l > StartLevel(t)
      BY <1>2, <2>2 DEF Ascending
    <3> QED
      BY <1>1, <3>1, <3>2, <3>3 DEF Deserved
  <2> QED
    BY <2>1, <2>2 DEF OnTheWay
<1>8. ASSUME q.final = 0, l > 1, q.states[l - 1].status = "pending"
      PROVE  Playing(t, Begin(q, l - 1)) /\ q.states[l - 1].answered = 0
  <2> DEFINE b == Begin(q, l - 1)
  <2>1. l - 1 \in (1 .. Levels[t]) \ {l}
    BY <1>1, <1>8
  <2>2. /\ b.level = l - 1 /\ b.final = 0 /\ ~b.completed
        /\ b.states[l - 1] = [q.states[l - 1] EXCEPT !.status = "in_progress"]
        /\ \A m \in (1 .. Levels[t]) \ {l - 1} : b.states[m] = q.states[m]
    BY <1>2, <1>8, <2>1, BeginFacts DEF OnTheWay
  <2> HIDE DEF b
  <2>3. Descending(t, p)
    BY <1>1, <1>2, <1>8 DEF OnTheWay, Ascending
  <2>4. q.states[l - 1] = Pending
    BY <1>1, <1>2, <1>8, <2>1, <2>3 DEF Descending
  <2>5. \A m \in (1 .. Levels[t]) \ {l} :
           IF l < m /\ m <= StartLevel(t) THEN q.states[m].status = "failed"
           ELSE q.states[m] = Pending
    BY <1>2, <2>3 DEF Descending
  <2>6. Descending(t, b)
    BY <1>1, <1>6, <2>1, <2>2, <2>3, <2>5 DEF Descending
  <2>7. b.states[l - 1].status = "in_progress" /\ Earned(t, l - 1, b.states[l - 1])
    BY <2>1, <2>2, <2>4, LadderFacts DEF Earned, Pending
  <2> QED
    BY <1>5, <2>2, <2>4, <2>6, <2>7 DEF Playing, OnTheWay, Pending, b
<1> QED
  BY <1>2, <1>5, <1>7, <1>8 DEF Judged, q

-----------------------------------------------------------------------------
(* One variant.                                                             *)

LEMMA StepsAhead ==
  ASSUME NEW t \in 1 .. Topics
  PROVE  /\ Playing(t, Begin(Waiting(t), StartLevel(t)))
         /\ Begin(Waiting(t), StartLevel(t)) \in Topic(t)
         /\ Begin(Waiting(t), StartLevel(t)).level = StartLevel(t)
         /\ Begin(Waiting(t), StartLevel(t)).states[StartLevel(t)].answered = 0
<1> DEFINE l == StartLevel(t)
           b == Begin(Waiting(t), l)
<1>1. l \in 1 .. Levels[t] /\ Waiting(t) \in Topic(t) /\ Size[t][l] \in Nat \ {0}
  BY LadderFacts, WaitingType
<1>2. /\ b \in Topic(t)
      /\ b.level = l /\ b.final = 0 /\ ~b.completed
      /\ b.states[l] = [Pending EXCEPT !.status = "in_progress"]
      /\ \A m \in (1 .. Levels[t]) \ {l} : b.states[m] = Pending
  <2> HIDE DEF b, l
  <2>1. \A m \in 1 .. Levels[t] : Waiting(t).states[m] = Pending
    BY DEF Waiting
  <2>2. Waiting(t).final = 0 /\ ~Waiting(t).completed
    BY DEF Waiting
  <2> QED
    BY <1>1, <2>1, <2>2, BeginFacts DEF b
<1> HIDE DEF b
<1>3. Descending(t, b)
  BY <1>1, <1>2, LadderFacts DEF Descending
<1>4. \A m \in 1 .. Levels[t] : Earned(t, m, b.states[m])
  BY <1>1, <1>2, LadderFacts DEF Earned, Pending
<1> QED
  BY <1>1, <1>2, <1>3, <1>4 DEF Playing, OnTheWay, Pending, b

LEMMA FirstGood == Good(FirstVariant)
<1> DEFINE b == Begin(Waiting(1), StartLevel(1))
           v == FirstVariant
<1>1. 1 \in 1 .. Topics /\ Topics \in Nat
  BY LadderAssumption
<1>2. Playing(1, b) /\ b \in Topic(1) /\ b.states[StartLevel(1)].answered = 0
  BY <1>1, StepsAhead
<1>3. b.level = StartLevel(1)
  BY <1>1, StepsAhead
<1>4. \A t \in 1 .. Topics : Waiting(t) \in Topic(t)
  BY WaitingType
<1> HIDE DEF b
<1>5. v = [topic |-> 1, question |-> 1,
           topics |-> [t \in 1 .. Topics |-> IF t = 1 THEN b ELSE Waiting(t)]]
  BY DEF FirstVariant, b
<1> HIDE DEF v
<1>6. v \in Variant
  BY <1>1, <1>2, <1>4, <1>5 DEF Variant
<1>7. Around(v)
  BY <1>1, <1>5 DEF Around
<1>8. Current(v) = b /\ CurrentLevel(v).answered = 0 /\ v.topic = 1 /\ v.question = 1
  BY <1>1, <1>2, <1>3, <1>5 DEF Current, CurrentLevel
<1> QED
  BY <1>2, <1>6, <1>7, <1>8 DEF Good, v

(* A topic that is left in order leaves a variant in order.                 *)
LEMMA LeaveGood ==
  ASSUME NEW v \in Variant, Around(v), Judged(v.topic, Current(v))
  PROVE  Good(LeaveTopic(v))
<1> DEFINE t    == v.topic
           c    == [Current(v) EXCEPT !.completed = TRUE]
           left == Put(v, c, 0)
<1>1. t \in 1 .. Topics /\ Current(v) \in Topic(t) /\ Topics \in Nat
  BY VariantFields, LadderFacts
<1>2. /\ c \in Topic(t) /\ c.completed
      /\ c.states = Current(v).states /\ c.final = Current(v).final
  BY <1>1 DEF Topic
<1> HIDE DEF c
<1>3. Judged(t, c)
  BY <1>2 DEF Judged, Deserved
<1>4. /\ left \in Variant /\ left.topic = t /\ left.question = 0 /\ Current(left) = c
      /\ left.topics[t] = c
      /\ \A u \in (1 .. Topics) \ {t} : left.topics[u] = v.topics[u]
  BY <1>2, PutFacts DEF Current
<1>5. CASE t < Topics
  <2> DEFINE next == [left EXCEPT !.topic = @ + 1]
             b    == Begin(Waiting(t + 1), StartLevel(t + 1))
             w    == Put(next, b, 1)
  <2>1. t + 1 \in 1 .. Topics
    BY <1>1, <1>5
  <2>2. next \in Variant /\ next.topic = t + 1 /\ next.topics = left.topics
    <3> HIDE DEF left
    <3> QED
      BY <1>4, <2>1 DEF Variant
  <2>3. Current(next) = Waiting(t + 1) /\ Current(next).level = StartLevel(t + 1)
    BY <1>1, <1>4, <2>1, <2>2 DEF Current, Around, Waiting
  <2>4. LeaveTopic(v) = w
    BY <1>5, <2>3 DEF LeaveTopic, c
  <2>5. Playing(t + 1, b) /\ b \in Topic(t + 1) /\ b.states[StartLevel(t + 1)].answered = 0
    BY <2>1, StepsAhead
  <2>6. b.level = StartLevel(t + 1)
    BY <2>1, StepsAhead
  <2> HIDE DEF left, next, b
  <2>7. /\ w \in Variant /\ w.topic = t + 1 /\ w.question = 1 /\ Current(w) = b
        /\ \A u \in (1 .. Topics) \ {t + 1} : w.topics[u] = left.topics[u]
    BY <2>2, <2>5, PutFacts
  <2> HIDE DEF w
  <2>8. Around(w)
    <3> SUFFICES ASSUME NEW u \in 1 .. Topics
                 PROVE  /\ u < t + 1 => w.topics[u].completed /\ Judged(u, w.topics[u])
                        /\ u > t + 1 => w.topics[u] = Waiting(u)
      BY <2>7 DEF Around
    <3>1. CASE u = t
      BY <1>1, <1>2, <1>3, <1>4, <2>7, <3>1
    <3>2. CASE u # t
      BY <1>1, <1>4, <2>7, <3>2 DEF Around
    <3> QED
      BY <3>1, <3>2
  <2> QED
    BY <2>4, <2>5, <2>6, <2>7, <2>8 DEF Good, CurrentLevel
<1>6. CASE ~(t < Topics)
  <2>1. LeaveTopic(v) = left /\ t = Topics
    BY <1>1, <1>6 DEF LeaveTopic, c
  <2> HIDE DEF left
  <2>2. Around(left)
    BY <1>1, <1>4 DEF Around
  <2> QED
    BY <1>2, <1>3, <1>4, <2>1, <2>2 DEF Good
<1> QED
  BY <1>5, <1>6

(* Putting a topic in its place changes nothing around it. *)
LEMMA PutAround ==
  ASSUME NEW v \in Variant, NEW p \in Topic(v.topic), NEW n \in Nat, Around(v)
  PROVE  Around(Put(v, p, n))
<1>1. /\ Put(v, p, n).topic = v.topic
      /\ \A t \in (1 .. Topics) \ {v.topic} : Put(v, p, n).topics[t] = v.topics[t]
      /\ v.topic \in 1 .. Topics
  BY PutFacts, VariantFields
<1>2. Topics \in Nat
  BY LadderAssumption
<1> QED
  BY <1>1, <1>2 DEF Around

LEMMA StepToGood ==
  ASSUME NEW v \in Variant, Around(v),
         NEW p \in Topic(v.topic), NEW m \in 1 .. Levels[v.topic],
         Playing(v.topic, Begin(p, m)), p.states[m].answered = 0
  PROVE  Good(StepTo(v, p, m))
<1> DEFINE b == Begin(p, m)
           w == Put(v, b, 1)
<1>1. v.topic \in 1 .. Topics /\ p.states[m] \in LevelState
  BY VariantFields DEF Topic
<1>2. b \in Topic(v.topic) /\ b.level = m /\ b.states[m] = [p.states[m] EXCEPT !.status = "in_progress"]
  <2> DEFINE t == v.topic
  <2> HIDE DEF t
  <2> SUFFICES b \in Topic(t) /\ b.level = m /\ b.states[m] = [p.states[m] EXCEPT !.status = "in_progress"]
    BY DEF t
  <2>1. t \in 1 .. Topics /\ p \in Topic(t) /\ m \in 1 .. Levels[t]
    BY <1>1 DEF t
  <2> QED
    BY <2>1, BeginFacts
<1>3. b.states[m].answered = 0
  BY <1>1, <1>2 DEF LevelState
<1>4. StepTo(v, p, m) = w
  BY DEF StepTo
<1>5. Playing(v.topic, b)
  OBVIOUS
<1> HIDE DEF b
<1>6. b \in Topic(v.topic)
  BY <1>2
<1>7. w \in Variant /\ w.topic = v.topic /\ w.question = 1 /\ Current(w) = b
  BY <1>6, PutFacts
<1>8. Around(w)
  BY <1>6, PutAround
<1> HIDE DEF w
<1> QED
  <2>1. CurrentLevel(w).answered = 0
    BY <1>2, <1>3, <1>7 DEF CurrentLevel
  <2>2. Playing(w.topic, Current(w)) /\ w.question = CurrentLevel(w).answered + 1
    BY <1>5, <1>7, <2>1
  <2> QED
    BY <1>4, <1>7, <1>8, <2>2 DEF Good

LEMMA PassedGood ==
  ASSUME NEW v \in Variant, Around(v), OnTheWay(v.topic, Current(v)),
         CurrentLevel(v).correct <= CurrentLevel(v).answered,
         CurrentLevel(v).answered <= Size[v.topic][Current(v).level],
         CurrentLevel(v).correct >= Required[v.topic][Current(v).level]
  PROVE  Good(Passed(v))
<1> DEFINE t == v.topic
           l == Current(v).level
           q == [Judge(Current(v), "passed") EXCEPT !.final = l]
           w == Put(v, q, v.question)
<1>1. t \in 1 .. Topics /\ Current(v) \in Topic(t) /\ l \in 1 .. Levels[t] /\ Levels[t] \in Nat
      /\ v.question \in Nat
  BY VariantFields, LadderFacts DEF Topic
<1>2. /\ q \in Topic(t) /\ Judged(t, q)
      /\ (l < Levels[t] /\ q.states[l + 1].status = "pending") =>
           Playing(t, Begin(q, l + 1)) /\ q.states[l + 1].answered = 0
  BY <1>1, WonFacts DEF CurrentLevel
<1>3. CASE l < Levels[t] /\ q.states[l + 1].status = "pending"
  <2>1. Passed(v) = StepTo(v, q, l + 1)
    BY <1>3 DEF Passed
  <2>2. l + 1 \in 1 .. Levels[t]
    BY <1>1, <1>3
  <2> HIDE DEF q
  <2> QED
    BY <1>2, <1>3, <2>1, <2>2, StepToGood
<1>4. CASE ~(l < Levels[t] /\ q.states[l + 1].status = "pending")
  <2>1. Passed(v) = LeaveTopic(w)
    BY <1>4 DEF Passed
  <2> HIDE DEF q
  <2>2. w \in Variant /\ w.topic = t /\ Current(w) = q
    BY <1>1, <1>2, PutFacts
  <2>3. Around(w)
    BY <1>1, <1>2, PutAround
  <2> HIDE DEF w
  <2> QED
    BY <1>2, <2>1, <2>2, <2>3, LeaveGood
<1> QED
  BY <1>3, <1>4

LEMMA FailedGood ==
  ASSUME NEW v \in Variant, Around(v), OnTheWay(v.topic, Current(v)),
         CurrentLevel(v).correct <= CurrentLevel(v).answered,
         CurrentLevel(v).answered <= Size[v.topic][Current(v).level],
         CurrentLevel(v).correct + (Size[v.topic][Current(v).level] - CurrentLevel(v).answered)
           < Required[v.topic][Current(v).level]
  PROVE  Good(Failed(v))
<1> DEFINE t == v.topic
           l == Current(v).level
           q == Judge(Current(v), "failed")
           w == Put(v, q, v.question)
<1>1. t \in 1 .. Topics /\ Current(v) \in Topic(t) /\ l \in 1 .. Levels[t] /\ Levels[t] \in Nat
      /\ v.question \in Nat
  BY VariantFields, LadderFacts DEF Topic
<1>2. /\ q \in Topic(t) /\ Judged(t, q)
      /\ (q.final = 0 /\ l > 1 /\ q.states[l - 1].status = "pending") =>
           Playing(t, Begin(q, l - 1)) /\ q.states[l - 1].answered = 0
  BY <1>1, LostFacts DEF CurrentLevel
<1>3. CASE q.final = 0 /\ l > 1 /\ q.states[l - 1].status = "pending"
  <2>1. Failed(v) = StepTo(v, q, l - 1)
    BY <1>3 DEF Failed
  <2>2. l - 1 \in 1 .. Levels[t]
    BY <1>1, <1>3
  <2> HIDE DEF q
  <2> QED
    BY <1>2, <1>3, <2>1, <2>2, StepToGood
<1>4. CASE ~(q.final = 0 /\ l > 1 /\ q.states[l - 1].status = "pending")
  <2>1. Failed(v) = LeaveTopic(w)
    BY <1>4 DEF Failed
  <2> HIDE DEF q
  <2>2. w \in Variant /\ w.topic = t /\ Current(w) = q
    BY <1>1, <1>2, PutFacts
  <2>3. Around(w)
    BY <1>1, <1>2, PutAround
  <2> HIDE DEF w
  <2> QED
    BY <1>2, <2>1, <2>2, <2>3, LeaveGood
<1> QED
  BY <1>3, <1>4

(* One answer more. *)
LEMMA AnswerGood ==
  ASSUME NEW v, Good(v), ~IsOver(v), NEW isCorrect \in BOOLEAN
  PROVE  Good(Answer(v, isCorrect))
<1> DEFINE t == v.topic
           l == Current(v).level
           s == CurrentLevel(v)
           p == Counted(Current(v), isCorrect)
           r == p.states[p.level]
           required  == Required[t][p.level]
           remaining == Size[t][p.level] - r.answered
           w == Put(v, p, v.question)
<1>1. /\ v \in Variant /\ Around(v)
      /\ Playing(t, Current(v)) /\ v.question = s.answered + 1
  BY DEF Good, IsOver
<1>2. /\ t \in 1 .. Topics /\ Current(v) \in Topic(t) /\ l \in 1 .. Levels[t] /\ v.question \in Nat
      /\ Size[t][l] \in Nat \ {0} /\ Required[t][l] \in Nat /\ Levels[t] \in Nat
  <2>1. t \in 1 .. Topics /\ Current(v) \in Topic(t) /\ v.question \in Nat
    BY <1>1, VariantFields
  <2>2. l \in 1 .. Levels[t]
    BY <2>1 DEF Topic
  <2> QED
    BY <2>1, <2>2, LadderFacts
<1>3. s \in LevelState /\ s.status = "in_progress"
  BY <1>1, <1>2 DEF Playing, OnTheWay, Topic, CurrentLevel
<1>4. /\ p \in Topic(t) /\ p.level = l /\ p.final = Current(v).final
      /\ p.completed = Current(v).completed
      /\ r.status = "in_progress" /\ r.answered = s.answered + 1 /\ r.correct \in {s.correct, s.correct + 1}
      /\ \A m \in (1 .. Levels[t]) \ {l} : p.states[m] = Current(v).states[m]
  BY <1>2, <1>3, CountedFacts DEF CurrentLevel
<1>5. /\ s.correct <= s.answered /\ s.answered < Size[t][l]
  BY <1>1, <1>2, <1>3 DEF Playing, Earned, CurrentLevel, LevelState
<1> HIDE DEF p
<1>6. r \in LevelState /\ r.correct <= r.answered /\ r.answered <= Size[t][l]
  BY <1>2, <1>3, <1>4, <1>5 DEF LevelState, Topic
<1>7. OnTheWay(t, p)
  BY <1>1, <1>2, <1>4 DEF Playing, OnTheWay, Descending, Ascending
<1>8. w \in Variant /\ w.topic = t /\ Current(w) = p /\ Around(w) /\ CurrentLevel(w) = r
  <2>1. w \in Variant /\ w.topic = t /\ Current(w) = p
    BY <1>1, <1>2, <1>4, PutFacts
  <2>2. Around(w)
    BY <1>1, <1>2, <1>4, PutAround
  <2> QED
    BY <2>1, <2>2 DEF CurrentLevel
<1>9. Answer(v, isCorrect) =
        IF r.correct >= required THEN Passed(w)
        ELSE IF r.correct + remaining < required THEN Failed(w)
        ELSE Put(v, p, v.question + 1)
  BY DEF Answer, p
<1> HIDE DEF w, r
<1>10. CASE r.correct >= required
  BY <1>4, <1>6, <1>7, <1>8, <1>9, <1>10, PassedGood
<1>11. CASE ~(r.correct >= required) /\ r.correct + remaining < required
  BY <1>4, <1>6, <1>7, <1>8, <1>9, <1>11, FailedGood
<1>12. CASE ~(r.correct >= required) /\ ~(r.correct + remaining < required)
  <2> DEFINE z == Put(v, p, v.question + 1)
  <2>1. z \in Variant /\ z.topic = t /\ Current(z) = p /\ z.question = v.question + 1
    BY <1>1, <1>2, <1>4, PutFacts
  <2>2. Around(z)
    BY <1>1, <1>2, <1>4, PutAround
  <2>3. Answer(v, isCorrect) = z
    BY <1>9, <1>12
  <2>4. CurrentLevel(z) = r
    BY <2>1 DEF CurrentLevel, r
  <2> HIDE DEF z
  <2>5. Earned(t, l, r)
    BY <1>2, <1>4, <1>6, <1>12 DEF Earned, LevelState
  <2>6. Playing(t, p)
    BY <1>4, <1>7, <2>5 DEF Playing, r
  <2>7. z.question = r.answered + 1
    BY <1>1, <1>3, <1>4, <2>1 DEF LevelState
  <2> QED
    BY <2>1, <2>2, <2>3, <2>4, <2>6, <2>7 DEF Good
<1> QED
  BY <1>10, <1>11, <1>12

(* The topic's own timer. *)
LEMMA ExpireGood ==
  ASSUME NEW v, Good(v), ~IsOver(v)
  PROVE  Good(LeaveTopic(v))
<1>1. v \in Variant /\ Around(v) /\ Playing(v.topic, Current(v))
  BY DEF Good, IsOver
<1>2. v.topic \in 1 .. Topics /\ Current(v) \in Topic(v.topic)
  BY <1>1, VariantFields
<1>3. Judged(v.topic, Current(v))
  BY <1>1, <1>2, WayDeserved DEF Playing, OnTheWay, Judged
<1> QED
  BY <1>1, <1>3, LeaveGood

-----------------------------------------------------------------------------
(* The attempt.                                                             *)

(* Whatever is stored, or about to be, is a variant the ladder can be in.   *)
IInv ==
  /\ Good(variant)
  /\ req = [r \in Requests |-> req[r]]
  /\ \A r \in Requests : req[r].pc = "move" => Good(req[r].variant)

LEMMA Inductive == Spec => []IInv
<1>1. Init => IInv
  BY FirstGood DEF Init, Idle, IInv
<1>2. IInv /\ [Next]_vars => IInv'
  <2> SUFFICES ASSUME IInv, [Next]_vars PROVE IInv'
    OBVIOUS
  <2>1. CASE UNCHANGED vars
    BY <2>1 DEF vars, IInv
  <2>2. ASSUME NEW r \in Requests, Step(r) PROVE IInv'
    <3>1. CASE AnswerRead(r)
      <4>1. PICK isCorrect \in BOOLEAN :
              req' = [req EXCEPT ![r] =
                        [pc |-> "move", variant |-> Answer(variant, isCorrect),
                         result |-> IF IsOver(Answer(variant, isCorrect))
                                    THEN Summary(Answer(variant, isCorrect)) ELSE Null]]
        BY <3>1 DEF AnswerRead
      <4>2. Good(Answer(variant, isCorrect)) /\ UNCHANGED variant
        BY <3>1, AnswerGood DEF AnswerRead, IInv
      <4> QED
        BY <4>1, <4>2 DEF IInv
    <3>2. CASE ExpireRead(r)
      <4>1. Good(LeaveTopic(variant)) /\ UNCHANGED variant
        BY <3>2, ExpireGood DEF ExpireRead, IInv
      <4> QED
        BY <3>2, <4>1 DEF ExpireRead, IInv
    <3>3. CASE MoveWrite(r)
      BY <3>3 DEF MoveWrite, Idle, IInv
    <3>4. CASE CloseRead(r)
      BY <3>4 DEF CloseRead, IInv
    <3>5. CASE CloseWrite(r)
      BY <3>5 DEF CloseWrite, Idle, IInv
    <3> QED
      BY <2>2, <3>1, <3>2, <3>3, <3>4, <3>5 DEF Step
  <2> QED
    BY <2>1, <2>2 DEF Next
<1> QED
  BY <1>1, <1>2, PTL DEF Spec

(* What is known of every topic of a variant in order. *)
LEMMA GoodJudged ==
  ASSUME NEW v, Good(v), NEW t \in 1 .. Topics
  PROVE  v.topics[t] \in Topic(t) /\ Judged(t, v.topics[t])
<1>1. v \in Variant /\ Around(v) /\ v.topic \in 1 .. Topics /\ Topics \in Nat
  BY VariantFields, LadderFacts DEF Good
<1>2. v.topics[t] \in Topic(t)
  BY <1>1, VariantFields
<1>3. CASE t < v.topic
  BY <1>1, <1>2, <1>3 DEF Around
<1>4. CASE t > v.topic
  <2>1. v.topics[t] = Waiting(t)
    BY <1>1, <1>4 DEF Around
  <2>2. Judged(t, Waiting(t))
    BY LadderFacts DEF Judged, Deserved, Earned, Waiting, Pending
  <2> QED
    BY <1>2, <2>1, <2>2
<1>5. CASE t = v.topic
  <2>1. CASE Playing(t, v.topics[t])
    BY <1>2, <2>1, WayDeserved DEF Playing, OnTheWay, Judged
  <2>2. CASE ~Playing(t, v.topics[t])
    BY <1>2, <1>5, <2>2 DEF Good, Current
  <2> QED
    BY <2>1, <2>2
<1> QED
  BY <1>1, <1>2, <1>3, <1>4, <1>5

(* With any number of overlapping requests, a topic is reported at the       *)
(* highest level passed, and no level is failed below it (finalLevelIndex,  *)
(* answer-adaptive).                                                        *)
THEOREM LevelsDeserved == Spec => []LevelIsDeserved
<1>1. IInv => LevelIsDeserved
  <2> SUFFICES ASSUME IInv PROVE LevelIsDeserved
    OBVIOUS
  <2>2. \A t \in 1 .. Topics :
           variant.topics[t] \in Topic(t) /\ Deserved(t, variant.topics[t])
    BY GoodJudged DEF IInv, Judged
  <2>3. NoFailureBelowSuccess
    BY <2>2 DEF NoFailureBelowSuccess, Deserved
  <2>4. FinalIsHighestPassed
    BY <2>2 DEF FinalIsHighestPassed, Deserved, Topic
  <2> QED
    BY <2>3, <2>4 DEF LevelIsDeserved
<1> QED
  BY <1>1, Inductive, PTL

(* With any number of overlapping requests, a level has a verdict exactly    *)
(* when its answers have decided it (canStillPass, alreadyPassed).          *)
THEOREM VerdictsEarned == Spec => []VerdictsAreEarned
<1>1. IInv => VerdictsAreEarned
  BY GoodJudged DEF IInv, Judged, Earned, VerdictsAreEarned
<1> QED
  BY <1>1, Inductive, PTL

LEMMA WaitingFields ==
  ASSUME NEW t \in 1 .. Topics
  PROVE  /\ ~Waiting(t).completed
         /\ \A l \in 1 .. Levels[t] : Waiting(t).states[l] = Pending
BY DEF Waiting

(* What OnePlaceAtATime says, of any good variant. *)
LEMMA GoodPlace ==
  ASSUME NEW v, Good(v)
  PROVE  /\ \A t \in 1 .. Topics :
              /\ t < v.topic => v.topics[t].completed
              /\ t > v.topic => /\ ~v.topics[t].completed
                                /\ \A l \in 1 .. Levels[t] : v.topics[t].states[l] = Pending
         /\ ~IsOver(v) =>
              /\ CurrentLevel(v).status = "in_progress"
              /\ v.question = CurrentLevel(v).answered + 1
              /\ \A t \in 1 .. Topics : \A l \in 1 .. Levels[t] :
                   v.topics[t].states[l].status = "in_progress" /\ ~v.topics[t].completed
                     => t = v.topic /\ l = Current(v).level
<1>1. v.topic \in 1 .. Topics /\ v.topic \in Int /\ Current(v) \in Topic(v.topic) /\ Around(v)
  BY VariantFields, LadderFacts DEF Good
<1>2. \A t \in 1 .. Topics : t \in Int
  BY LadderAssumption
<1>3. \A t \in 1 .. Topics :
         /\ t < v.topic => v.topics[t].completed
         /\ t > v.topic => /\ ~v.topics[t].completed
                           /\ \A l \in 1 .. Levels[t] : v.topics[t].states[l] = Pending
  <2> TAKE t \in 1 .. Topics
  <2>1. t < v.topic => v.topics[t].completed
    BY <1>1 DEF Around
  <2>2. t > v.topic => v.topics[t] = Waiting(t)
    BY <1>1 DEF Around
  <2> QED
    BY <2>1, <2>2, WaitingFields
<1>4. ASSUME ~IsOver(v)
      PROVE  /\ Playing(v.topic, Current(v))
             /\ v.question = CurrentLevel(v).answered + 1
             /\ CurrentLevel(v).status = "in_progress"
  BY <1>4 DEF Good, IsOver, Playing, OnTheWay, CurrentLevel
<1>5. ASSUME ~IsOver(v), NEW t \in 1 .. Topics, NEW l \in 1 .. Levels[t],
             v.topics[t].states[l].status = "in_progress", ~v.topics[t].completed
      PROVE  t = v.topic /\ l = Current(v).level
  <2>1. t <= v.topic
    BY <1>1, <1>2, <1>3, <1>5 DEF Pending
  <2>2. t >= v.topic
    BY <1>1, <1>2, <1>3, <1>5
  <2>3. t = v.topic
    BY <1>1, <1>2, <2>1, <2>2
  <2>4. Current(v).states[l].status = "in_progress" /\ l \in 1 .. Levels[v.topic]
    BY <2>3, <1>5 DEF Current
  <2>5. Descending(v.topic, Current(v)) \/ Ascending(v.topic, Current(v))
    BY <1>4, <1>5 DEF Playing, OnTheWay
  <2>6. ASSUME l # Current(v).level PROVE FALSE
    <3>1. CASE Descending(v.topic, Current(v))
      BY <2>4, <2>6, <3>1 DEF Descending, Pending
    <3>2. CASE Ascending(v.topic, Current(v))
      BY <2>4, <2>6, <3>2 DEF Ascending, Pending
    <3> QED
      BY <2>5, <3>1, <3>2
  <2> QED
    BY <2>3, <2>6
<1> QED
  BY <1>3, <1>4, <1>5

(* With any number of overlapping requests, the stored variant asks the next *)
(* unanswered question of the one level in progress, and topics are played  *)
(* in order (currentQuestionId, moveToNextTopicOrFinish).                   *)
THEOREM OnePlace == Spec => []OnePlaceAtATime
<1>1. IInv => OnePlaceAtATime
  <2> SUFFICES ASSUME Good(variant) PROVE OnePlaceAtATime
    BY DEF IInv
  <2>1. TopicsInOrder
    BY GoodPlace DEF TopicsInOrder
  <2>2. OneQuestionAtATime
    BY GoodPlace DEF OneQuestionAtATime
  <2> QED
    BY <2>1, <2>2 DEF OnePlaceAtATime
<1> QED
  BY <1>1, Inductive, PTL

-----------------------------------------------------------------------------
(* The promise.  When the requests follow one another, every write moves    *)
(* the run by one verdict, by one topic, or not at all.                     *)

Marks(t, p) ==
  [l \in 1 .. Levels[t] |->
     LET s == p.states[l].status IN IF s \in {"passed", "failed"} THEN s ELSE "none"]

LEMMA VerdictsByTopic ==
  ASSUME NEW v
  PROVE  VerdictsOf(v) = [t \in 1 .. Topics |-> Marks(t, v.topics[t])]
BY DEF VerdictsOf, Marks

(* The topics closed are those before the current one, or all of them.      *)
LEMMA ClosedInOrder ==
  ASSUME NEW v, Good(v)
  PROVE  /\ ClosedIn(v) = IF IsOver(v) THEN Topics ELSE v.topic - 1
         /\ IsOver(v) <=> ClosedIn(v) = Topics
<1> DEFINE n == IF IsOver(v) THEN Topics ELSE v.topic - 1
           S == {t \in 1 .. Topics : v.topics[t].completed}
<1>1. /\ v.topic \in 1 .. Topics /\ Topics \in Nat \ {0}
      /\ IsOver(v) => v.topic = Topics /\ v.topics[v.topic].completed
      /\ ~IsOver(v) => ~v.topics[v.topic].completed
  <2>1. v.topic \in 1 .. Topics /\ Topics \in Nat \ {0}
    BY VariantFields, LadderAssumption DEF Good
  <2>2. CASE v.question = 0 /\ v.topic = Topics /\ Current(v).completed /\ Judged(Topics, Current(v))
    BY <2>1, <2>2 DEF IsOver, Current
  <2>3. CASE Playing(v.topic, Current(v)) /\ v.question = CurrentLevel(v).answered + 1
    <3>1. Current(v) \in Topic(v.topic) /\ Current(v).level \in 1 .. Levels[v.topic]
      BY VariantFields DEF Good, Topic
    <3>2. CurrentLevel(v).answered \in Nat
      BY <3>1 DEF Topic, CurrentLevel, LevelState
    <3> QED
      BY <2>1, <2>3, <3>2 DEF IsOver, Current, Playing, OnTheWay
  <2> QED
    BY <2>1, <2>2, <2>3 DEF Good
<1>2. \A t \in 1 .. Topics :
         /\ t < v.topic => v.topics[t].completed
         /\ t > v.topic => ~v.topics[t].completed
  BY GoodPlace
<1>3. n \in 0 .. Topics
  BY <1>1
<1>4. S = 1 .. n
  <2>1. ASSUME NEW t \in 1 .. Topics PROVE v.topics[t].completed <=> t <= n
    <3>1. CASE t < v.topic
      BY <1>1, <1>2, <3>1
    <3>2. CASE t = v.topic
      BY <1>1, <3>2
    <3>3. CASE t > v.topic
      BY <1>1, <1>2, <3>3
    <3> QED
      BY <1>1, <3>1, <3>2, <3>3
  <2> HIDE DEF n
  <2> QED
    BY <1>1, <1>3, <2>1
<1>5. Cardinality(1 .. n) = n
  <2> HIDE DEF n
  <2>1. n \in Int /\ n >= 0
    BY <1>1, <1>3
  <2>2. Cardinality(1 .. n) = IF 1 > n THEN 0 ELSE n - 1 + 1
    BY <2>1, FS_Interval
  <2> QED
    BY <2>1, <2>2
<1>6. ClosedIn(v) = n
  BY <1>4, <1>5 DEF ClosedIn
<1> QED
  BY <1>1, <1>6

(* The level a topic is reported at is the highest one its verdicts show.   *)
LEMMA SummaryReadsVerdicts ==
  ASSUME NEW v, Good(v)
  PROVE  Summary(v) = Promise!Report(VerdictsOf(v))
<1>1. ASSUME NEW t \in 1 .. Topics
      PROVE  TopicResult(v.topics[t]) =
               [achieved  |-> Promise!Top(Promise!With(VerdictsOf(v)[t], "passed")),
                attempted |-> Promise!With(VerdictsOf(v)[t], "passed")
                                \cup Promise!With(VerdictsOf(v)[t], "failed")]
  <2> DEFINE p == v.topics[t]
             w == VerdictsOf(v)[t]
             won == {l \in 1 .. Levels[t] : p.states[l].status = "passed"}
             lost == {l \in 1 .. Levels[t] : p.states[l].status = "failed"}
  <2>1. p \in Topic(t) /\ Deserved(t, p) /\ Levels[t] \in Nat
    BY GoodJudged, LadderFacts DEF Judged
  <2>2. w = Marks(t, p)
    BY VerdictsByTopic
  <2> HIDE DEF p, w
  <2>3. Promise!With(w, "passed") = won /\ Promise!With(w, "failed") = lost
    BY <2>2 DEF Promise!With, Marks
  <2>4. DOMAIN p.states = 1 .. Levels[t]
    BY <2>1 DEF Topic
  <2>5. {l \in DOMAIN p.states : p.states[l].status \in {"passed", "failed"}} = won \cup lost
    BY <2>4
  <2>6. Promise!Top(won) = p.final
    <3>1. CASE p.final = 0 /\ \A l \in 1 .. Levels[t] : p.states[l].status # "passed"
      BY <3>1 DEF Promise!Top
    <3>2. CASE /\ p.final # 0 /\ p.states[p.final].status = "passed"
               /\ \A l \in 1 .. Levels[t] : p.states[l].status = "passed" => l <= p.final
      <4>1. p.final \in won /\ \A m \in won : m <= p.final
        BY <2>1, <3>2 DEF Topic
      <4>2. won \subseteq Int
        BY <2>1
      <4> HIDE DEF won
      <4>3. ASSUME NEW l \in won, \A m \in won : m <= l PROVE l = p.final
        <5>1. p.final <= l /\ l <= p.final
          BY <4>1, <4>3
        <5>2. l \in Int /\ p.final \in Int
          BY <4>1, <4>2, <4>3
        <5> QED
          BY <5>1, <5>2
      <4> QED
        BY <4>1, <4>3 DEF Promise!Top
    <3> QED
      BY <2>1, <3>1, <3>2 DEF Deserved
  <2> QED
    BY <2>3, <2>5, <2>6 DEF TopicResult, p, w
<1> QED
  BY <1>1 DEF Summary, Promise!Report

(* What a move of the run may be, read off the variant before and after.    *)
Stays(v, w) == VerdictsOf(w) = VerdictsOf(v) /\ ClosedIn(w) = ClosedIn(v)

Expires(v, w) == VerdictsOf(w) = VerdictsOf(v) /\ ClosedIn(w) = ClosedIn(v) + 1

Judges(v, w) ==
  LET t == v.topic
  IN  \E l \in 1 .. Levels[t], x \in {"passed", "failed"} :
        /\ Promise!MayJudge(t, VerdictsOf(v)[t], l)
        /\ VerdictsOf(w) = [VerdictsOf(v) EXCEPT ![t][l] = x]
        /\ ClosedIn(w) = IF Promise!Settled(t, VerdictsOf(w)[t]) THEN t ELSE ClosedIn(v)

LEMMA MarksValue ==
  ASSUME NEW t, NEW p, NEW l \in 1 .. Levels[t]
  PROVE  /\ DOMAIN Marks(t, p) = 1 .. Levels[t]
         /\ p.states[l].status \in {"passed", "failed"} => Marks(t, p)[l] = p.states[l].status
         /\ p.states[l].status \notin {"passed", "failed"} => Marks(t, p)[l] = "none"
BY DEF Marks

(* Levels of the same status bear the same mark. *)
LEMMA SameMarks ==
  ASSUME NEW t, NEW p, NEW q,
         \A l \in 1 .. Levels[t] :
            \/ q.states[l].status = p.states[l].status
            \/ {q.states[l].status, p.states[l].status} \subseteq {"pending", "in_progress"}
  PROVE  Marks(t, q) = Marks(t, p)
<1>1. \A l \in 1 .. Levels[t] : Marks(t, q)[l] = Marks(t, p)[l]
  BY DEF Marks
<1> QED
  BY <1>1 DEF Marks

(* The level in progress is one that may be judged. *)
LEMMA MayJudgeNext ==
  ASSUME NEW t \in 1 .. Topics, NEW p \in Topic(t), OnTheWay(t, p)
  PROVE  Promise!MayJudge(t, Marks(t, p), p.level)
<1> DEFINE l == p.level
           w == Marks(t, p)
<1>1. /\ l \in 1 .. Levels[t] /\ StartLevel(t) \in 1 .. Levels[t] /\ Levels[t] \in Nat \ {0}
      /\ Promise!Middle(t) = StartLevel(t)
  BY LadderFacts DEF Topic, Promise!Middle, StartLevel
<1>2. w[l] = "none"
  BY <1>1, MarksValue DEF OnTheWay
<1>3. CASE Descending(t, p) /\ l = StartLevel(t)
  <2>1. \A m \in 1 .. Levels[t] : w[m] = "none"
    <3>1. \A m \in (1 .. Levels[t]) \ {l} : p.states[m] = Pending
      BY <1>1, <1>3 DEF Descending
    <3> QED
      BY <1>2, <3>1, MarksValue DEF Pending
  <2>2. Promise!With(w, "none") = DOMAIN w
    BY <2>1, <1>1, MarksValue DEF Promise!With
  <2> QED
    BY <1>1, <1>2, <1>3, <2>2 DEF Promise!MayJudge
<1>4. CASE Descending(t, p) /\ l # StartLevel(t)
  <2>1. l + 1 \in (1 .. Levels[t]) \ {l} /\ l < Levels[t] /\ p.states[l + 1].status = "failed"
    BY <1>1, <1>4 DEF Descending
  <2>2. w[l + 1] = "failed"
    BY <2>1, MarksValue
  <2> QED
    BY <1>2, <2>1, <2>2 DEF Promise!MayJudge
<1>5. CASE Ascending(t, p)
  <2>1. l - 1 \in (1 .. Levels[t]) \ {l} /\ l > 1 /\ p.states[l - 1].status = "passed"
    BY <1>1, <1>5 DEF Ascending
  <2>2. w[l - 1] = "passed"
    BY <2>1, MarksValue
  <2> QED
    BY <1>2, <2>1, <2>2 DEF Promise!MayJudge
<1> QED
  BY <1>3, <1>4, <1>5 DEF OnTheWay

(* A pass settles the topic unless there is a level above still to be asked. *)
LEMMA WonSettles ==
  ASSUME NEW t \in 1 .. Topics, NEW p \in Topic(t), OnTheWay(t, p), NEW q,
         q.states[p.level].status = "passed",
         \A m \in (1 .. Levels[t]) \ {p.level} : q.states[m] = p.states[m]
  PROVE  /\ Marks(t, q) = [Marks(t, p) EXCEPT ![p.level] = "passed"]
         /\ Promise!Settled(t, Marks(t, q)) <=>
              ~(p.level < Levels[t] /\ q.states[p.level + 1].status = "pending")
<1> DEFINE l == p.level
           w == Marks(t, q)
<1>1. l \in 1 .. Levels[t] /\ StartLevel(t) \in 1 .. Levels[t] /\ Levels[t] \in Nat \ {0}
  BY LadderFacts DEF Topic
<1>2. w[l] = "passed"
  BY <1>1, MarksValue
<1>3. \A m \in (1 .. Levels[t]) \ {l} : w[m] = Marks(t, p)[m]
  BY DEF Marks
<1>4. w = [Marks(t, p) EXCEPT ![l] = "passed"]
  BY <1>1, <1>2, <1>3 DEF Marks
<1>5. CASE Descending(t, p) /\ l # StartLevel(t)
  <2>1. l + 1 \in (1 .. Levels[t]) \ {l} /\ l \in 1 .. Levels[t] - 1 /\ p.states[l + 1].status = "failed"
    BY <1>1, <1>5 DEF Descending
  <2>2. w[l + 1] = "failed" /\ q.states[l + 1].status # "pending"
    BY <2>1, MarksValue
  <2> QED
    BY <1>2, <1>4, <2>1, <2>2 DEF Promise!Settled
<1>6. CASE Ascending(t, p) \/ (Descending(t, p) /\ l = StartLevel(t))
  <2>1. \A m \in (1 .. Levels[t]) \ {l} :
           /\ w[m] # "failed"
           /\ m > l => w[m] = "none" /\ q.states[m] = Pending
    <3>1. \A m \in (1 .. Levels[t]) \ {l} :
             /\ q.states[m].status # "failed"
             /\ m > l => q.states[m] = Pending
      BY <1>1, <1>6 DEF Ascending, Descending, Pending
    <3> QED
      BY <3>1, MarksValue DEF Pending
  <2>2. CASE l < Levels[t]
    <3>1. l + 1 \in (1 .. Levels[t]) \ {l} /\ Levels[t] \in (1 .. Levels[t]) \ {l} /\ Levels[t] > l
      BY <1>1, <2>2
    <3>2. q.states[l + 1].status = "pending" /\ w[Levels[t]] # "passed"
      BY <1>1, <2>1, <3>1 DEF Pending
    <3>3. \A m \in 1 .. Levels[t] : w[m] # "failed"
      BY <1>2, <2>1
    <3>4. \A m \in 1 .. Levels[t] - 1 : m + 1 \in 1 .. Levels[t]
      BY <1>1
    <3>5. 1 \in 1 .. Levels[t]
      BY <1>1
    <3> HIDE DEF w
    <3>6. ~Promise!Settled(t, w)
      BY <3>2, <3>3, <3>4, <3>5 DEF Promise!Settled
    <3> QED
      BY <1>4, <2>2, <3>2, <3>6 DEF w
  <2>3. CASE ~(l < Levels[t])
    BY <1>1, <1>2, <1>4, <2>3 DEF Promise!Settled
  <2> QED
    BY <2>2, <2>3
<1> QED
  BY <1>5, <1>6 DEF OnTheWay

(* A failure settles the topic unless there is a level below to fall back to. *)
LEMMA LostSettles ==
  ASSUME NEW t \in 1 .. Topics, NEW p \in Topic(t), OnTheWay(t, p), NEW q,
         q.states[p.level].status = "failed", q.final = p.final,
         \A m \in (1 .. Levels[t]) \ {p.level} : q.states[m] = p.states[m]
  PROVE  /\ Marks(t, q) = [Marks(t, p) EXCEPT ![p.level] = "failed"]
         /\ Promise!Settled(t, Marks(t, q)) <=>
              ~(q.final = 0 /\ p.level > 1 /\ q.states[p.level - 1].status = "pending")
<1> DEFINE l == p.level
           w == Marks(t, q)
<1>1. l \in 1 .. Levels[t] /\ StartLevel(t) \in 1 .. Levels[t] /\ Levels[t] \in Nat \ {0}
  BY LadderFacts DEF Topic
<1>2. w[l] = "failed"
  BY <1>1, MarksValue
<1>3. \A m \in (1 .. Levels[t]) \ {l} : w[m] = Marks(t, p)[m]
  BY DEF Marks
<1>4. w = [Marks(t, p) EXCEPT ![l] = "failed"]
  BY <1>1, <1>2, <1>3 DEF Marks
<1>5. CASE Ascending(t, p)
  <2>1. l - 1 \in (1 .. Levels[t]) \ {l} /\ l - 1 \in 1 .. Levels[t] - 1
        /\ p.states[l - 1].status = "passed" /\ q.final # 0
    BY <1>1, <1>5 DEF Ascending
  <2>2. w[l - 1] = "passed"
    BY <2>1, MarksValue
  <2>3. w[l - 1 + 1] = "failed"
    BY <1>1, <1>2
  <2> HIDE DEF w
  <2> QED
    BY <1>4, <2>1, <2>2, <2>3 DEF Promise!Settled, w
<1>6. CASE Descending(t, p)
  <2>1. \A m \in (1 .. Levels[t]) \ {l} :
           w[m] # "passed" /\ (m < l => w[m] = "none" /\ q.states[m] = Pending)
    <3>1. \A m \in (1 .. Levels[t]) \ {l} :
             q.states[m].status # "passed" /\ (m < l => q.states[m] = Pending)
      BY <1>1, <1>6 DEF Descending, Pending
    <3> QED
      BY <3>1, MarksValue DEF Pending
  <2>2. q.final = 0
    BY <1>6 DEF Descending
  <2>3. CASE l > 1
    <3>1. l - 1 \in (1 .. Levels[t]) \ {l} /\ l - 1 < l /\ 1 \in (1 .. Levels[t]) \ {l} /\ 1 < l
      BY <1>1, <2>3
    <3>2. q.states[l - 1].status = "pending" /\ w[1] # "failed"
      BY <2>1, <3>1 DEF Pending
    <3>3. \A m \in 1 .. Levels[t] : w[m] # "passed"
      BY <1>2, <2>1
    <3>4. \A m \in 1 .. Levels[t] - 1 : m \in 1 .. Levels[t]
      BY <1>1
    <3>5. Levels[t] \in 1 .. Levels[t]
      BY <1>1
    <3> HIDE DEF w
    <3>6. ~Promise!Settled(t, w)
      BY <3>2, <3>3, <3>4, <3>5 DEF Promise!Settled
    <3> QED
      BY <1>4, <2>2, <2>3, <3>2, <3>6 DEF w
  <2>4. CASE ~(l > 1)
    <3>1. l = 1
      BY <1>1, <2>4
    <3> QED
      BY <1>2, <1>4, <3>1 DEF Promise!Settled
  <2> QED
    BY <2>3, <2>4
<1> QED
  BY <1>5, <1>6 DEF OnTheWay

(* Putting a topic in its place changes its marks and no others. *)
LEMMA PutMarks ==
  ASSUME NEW v \in Variant, NEW p \in Topic(v.topic), NEW n \in Nat
  PROVE  VerdictsOf(Put(v, p, n)) = [VerdictsOf(v) EXCEPT ![v.topic] = Marks(v.topic, p)]
<1> DEFINE w == Put(v, p, n)
<1>1. v.topic \in 1 .. Topics /\ w.topics[v.topic] = p
  <2>1. v.topic \in 1 .. Topics /\ w.topic = v.topic
    BY VariantFields, PutFacts
  <2>2. Current(w) = p
    BY PutFacts
  <2> HIDE DEF w
  <2> QED
    BY <2>1, <2>2 DEF Current
<1>2. \A t \in (1 .. Topics) \ {v.topic} : w.topics[t] = v.topics[t]
  BY PutFacts
<1> HIDE DEF w
<1>3. VerdictsOf(w) = [t \in 1 .. Topics |-> Marks(t, w.topics[t])]
      /\ VerdictsOf(v) = [t \in 1 .. Topics |-> Marks(t, v.topics[t])]
  BY VerdictsByTopic
<1>4. \A t \in 1 .. Topics :
         VerdictsOf(w)[t] = [VerdictsOf(v) EXCEPT ![v.topic] = Marks(v.topic, p)][t]
  BY <1>1, <1>2, <1>3
<1> QED
  BY <1>3, <1>4 DEF w

LEMMA BeginMarks ==
  ASSUME NEW t \in 1 .. Topics, NEW p \in Topic(t), NEW m \in 1 .. Levels[t],
         p.states[m].status = "pending"
  PROVE  Marks(t, Begin(p, m)) = Marks(t, p)
<1> DEFINE q == Begin(p, m)
<1>1. p.states[m] \in LevelState
  BY DEF Topic
<1>2. /\ q.states[m] = [p.states[m] EXCEPT !.status = "in_progress"]
      /\ \A l \in (1 .. Levels[t]) \ {m} : q.states[l] = p.states[l]
  BY BeginFacts
<1> HIDE DEF q
<1>3. q.states[m].status = "in_progress"
  BY <1>1, <1>2 DEF LevelState
<1>4. \A l \in 1 .. Levels[t] :
         \/ q.states[l].status = p.states[l].status
         \/ {q.states[l].status, p.states[l].status} \subseteq {"pending", "in_progress"}
  BY <1>2, <1>3
<1>5. Marks(t, q) = Marks(t, p)
  BY <1>4, SameMarks
<1> QED
  BY <1>5 DEF q

(* Leaving a topic gives no verdict. *)
LEMMA LeaveMarks ==
  ASSUME NEW v \in Variant, Around(v)
  PROVE  /\ VerdictsOf(LeaveTopic(v)) = VerdictsOf(v)
         /\ v.topic < Topics => /\ LeaveTopic(v).topic = v.topic + 1
                                /\ ~IsOver(LeaveTopic(v))
         /\ ~(v.topic < Topics) => IsOver(LeaveTopic(v))
<1> DEFINE t    == v.topic
           c    == [Current(v) EXCEPT !.completed = TRUE]
           left == Put(v, c, 0)
<1>1. t \in 1 .. Topics /\ Current(v) \in Topic(t) /\ Topics \in Nat
  BY VariantFields, LadderFacts
<1>2. c \in Topic(t) /\ c.states = Current(v).states
  BY <1>1 DEF Topic
<1> HIDE DEF c
<1>3. /\ left \in Variant /\ left.topic = t /\ left.question = 0
      /\ \A u \in (1 .. Topics) \ {t} : left.topics[u] = v.topics[u]
  BY <1>2, PutFacts
<1>4. VerdictsOf(left) = VerdictsOf(v)
  <2>1. VerdictsOf(left) = [VerdictsOf(v) EXCEPT ![t] = Marks(t, c)]
    BY <1>2, PutMarks
  <2>2. Marks(t, c) = Marks(t, Current(v))
    BY <1>2, SameMarks
  <2>3. VerdictsOf(v) = [u \in 1 .. Topics |-> Marks(u, v.topics[u])]
    BY VerdictsByTopic
  <2> QED
    BY <1>1, <2>1, <2>2, <2>3 DEF Current
<1>5. CASE t < Topics
  <2> DEFINE next == [left EXCEPT !.topic = @ + 1]
             b    == Begin(Waiting(t + 1), StartLevel(t + 1))
             w    == Put(next, b, 1)
  <2>1. t + 1 \in 1 .. Topics /\ t + 1 # t
    BY <1>1, <1>5
  <2>2. next \in Variant /\ next.topic = t + 1 /\ next.topics = left.topics
    <3> HIDE DEF left
    <3> QED
      BY <1>3, <2>1 DEF Variant
  <2>3. Current(next) = Waiting(t + 1) /\ Current(next).level = StartLevel(t + 1)
    BY <1>1, <1>3, <2>1, <2>2 DEF Current, Around, Waiting
  <2>4. LeaveTopic(v) = w
    BY <1>5, <2>3 DEF LeaveTopic, c
  <2>5. b \in Topic(t + 1)
    BY <2>1, StepsAhead
  <2>6. Marks(t + 1, b) = Marks(t + 1, Waiting(t + 1))
    <3>1. Waiting(t + 1) \in Topic(t + 1) /\ StartLevel(t + 1) \in 1 .. Levels[t + 1]
      BY <2>1, WaitingType, LadderFacts
    <3>2. Waiting(t + 1).states[StartLevel(t + 1)].status = "pending"
      BY <2>1, <3>1, WaitingFields DEF Pending
    <3> QED
      BY <2>1, <3>1, <3>2, BeginMarks
  <2> HIDE DEF left, next, b
  <2>7. w.topic = t + 1 /\ w.question = 1
    BY <2>2, <2>5, PutFacts
  <2>8. VerdictsOf(w) = [VerdictsOf(next) EXCEPT ![t + 1] = Marks(t + 1, b)]
    BY <2>2, <2>5, PutMarks
  <2>9. VerdictsOf(next) = VerdictsOf(left)
    BY <2>2, VerdictsByTopic
  <2>10. VerdictsOf(next)[t + 1] = Marks(t + 1, Waiting(t + 1))
    BY <2>1, <2>2, <2>3, VerdictsByTopic DEF Current
  <2>11. VerdictsOf(next) = [u \in 1 .. Topics |-> Marks(u, next.topics[u])]
    BY VerdictsByTopic
  <2>12. VerdictsOf(w) = VerdictsOf(v)
    BY <1>4, <2>1, <2>6, <2>8, <2>9, <2>10, <2>11
  <2> HIDE DEF w
  <2> QED
    BY <1>5, <2>4, <2>7, <2>12 DEF IsOver
<1>6. CASE ~(t < Topics)
  <2>1. LeaveTopic(v) = left
    BY <1>6 DEF LeaveTopic, c
  <2> HIDE DEF left
  <2> QED
    BY <1>3, <1>4, <1>6, <2>1 DEF IsOver
<1> QED
  BY <1>5, <1>6

(* ... and closes it. *)
LEMMA LeaveCloses ==
  ASSUME NEW v \in Variant, Around(v), Judged(v.topic, Current(v))
  PROVE  ClosedIn(LeaveTopic(v)) = v.topic
<1>1. Good(LeaveTopic(v))
  BY LeaveGood
<1>2. v.topic \in 1 .. Topics /\ Topics \in Nat
  BY VariantFields, LadderFacts
<1>3. CASE v.topic < Topics
  BY <1>1, <1>2, <1>3, LeaveMarks, ClosedInOrder
<1>4. CASE ~(v.topic < Topics)
  BY <1>1, <1>2, <1>4, LeaveMarks, ClosedInOrder
<1> QED
  BY <1>3, <1>4

LEMMA StepToMarks ==
  ASSUME NEW v \in Variant, Around(v),
         NEW p \in Topic(v.topic), NEW m \in 1 .. Levels[v.topic],
         Playing(v.topic, Begin(p, m)), p.states[m].answered = 0,
         p.states[m].status = "pending"
  PROVE  /\ VerdictsOf(StepTo(v, p, m)) = [VerdictsOf(v) EXCEPT ![v.topic] = Marks(v.topic, p)]
         /\ ClosedIn(StepTo(v, p, m)) = v.topic - 1
<1> DEFINE b == Begin(p, m)
           w == StepTo(v, p, m)
           t == v.topic
<1>1. t \in 1 .. Topics
  BY VariantFields
<1> HIDE DEF t
<1>2. p \in Topic(t) /\ m \in 1 .. Levels[t]
  BY DEF t
<1>3. b \in Topic(t)
  BY <1>1, <1>2, BeginFacts
<1>4. Marks(t, b) = Marks(t, p)
  BY <1>1, <1>2, BeginMarks
<1> HIDE DEF b
<1>5. w = Put(v, b, 1)
  BY DEF StepTo, b
<1>6. VerdictsOf(w) = [VerdictsOf(v) EXCEPT ![t] = Marks(t, p)]
  BY <1>3, <1>4, <1>5, PutMarks DEF t
<1>7. w.topic = t /\ w.question = 1
  BY <1>3, <1>5, PutFacts DEF t
<1>8. Good(w)
  BY StepToGood
<1> HIDE DEF w
<1>9. ClosedIn(w) = t - 1
  BY <1>7, <1>8, ClosedInOrder DEF IsOver
<1> QED
  BY <1>6, <1>9 DEF t, w

LEMMA PassedJudges ==
  ASSUME NEW v \in Variant, Around(v), OnTheWay(v.topic, Current(v)),
         CurrentLevel(v).correct <= CurrentLevel(v).answered,
         CurrentLevel(v).answered <= Size[v.topic][Current(v).level],
         CurrentLevel(v).correct >= Required[v.topic][Current(v).level]
  PROVE  LET w == Passed(v)
             t == v.topic
             m == [Marks(t, Current(v)) EXCEPT ![Current(v).level] = "passed"]
         IN  /\ VerdictsOf(w) = [VerdictsOf(v) EXCEPT ![t] = m]
             /\ ClosedIn(w) = IF Promise!Settled(t, m) THEN t ELSE t - 1
<1> DEFINE t == v.topic
           l == Current(v).level
           m == [Marks(t, Current(v)) EXCEPT ![l] = "passed"]
           q == [Judge(Current(v), "passed") EXCEPT !.final = l]
           w == Put(v, q, v.question)
<1>1. t \in 1 .. Topics /\ Current(v) \in Topic(t) /\ l \in 1 .. Levels[t] /\ Levels[t] \in Nat
      /\ v.question \in Nat /\ Topics \in Nat
  BY VariantFields, LadderFacts DEF Topic
<1>2. /\ q \in Topic(t) /\ Judged(t, q)
      /\ (l < Levels[t] /\ q.states[l + 1].status = "pending") =>
           Playing(t, Begin(q, l + 1)) /\ q.states[l + 1].answered = 0
  BY <1>1, WonFacts DEF CurrentLevel
<1>3. /\ q.states[l].status = "passed"
      /\ \A k \in (1 .. Levels[t]) \ {l} : q.states[k] = Current(v).states[k]
  <2> DEFINE p == Current(v)
             j == Judge(p, "passed")
  <2> HIDE DEF p
  <2>1. /\ j \in Topic(t) /\ p \in Topic(t) /\ p.level = l
        /\ j.states[l] = [p.states[l] EXCEPT !.status = "passed"]
        /\ \A k \in (1 .. Levels[t]) \ {l} : j.states[k] = p.states[k]
    BY <1>1, JudgeFacts DEF p
  <2>2. q = [j EXCEPT !.final = l]
    BY DEF p
  <2> HIDE DEF j, q
  <2>3. q.states = j.states
    BY <2>1, <2>2 DEF Topic
  <2>4. p.states[l] \in LevelState
    BY <1>1, <2>1 DEF Topic
  <2> QED
    BY <2>1, <2>3, <2>4 DEF LevelState, p
<1> HIDE DEF q
<1>4. /\ Marks(t, q) = m
      /\ Promise!Settled(t, m) <=> ~(l < Levels[t] /\ q.states[l + 1].status = "pending")
  BY <1>1, <1>3, WonSettles
<1>5. CASE l < Levels[t] /\ q.states[l + 1].status = "pending"
  <2>1. Passed(v) = StepTo(v, q, l + 1)
    BY <1>5 DEF Passed, q
  <2>2. l + 1 \in 1 .. Levels[t]
    BY <1>1, <1>5
  <2>3. /\ VerdictsOf(StepTo(v, q, l + 1)) = [VerdictsOf(v) EXCEPT ![t] = Marks(t, q)]
        /\ ClosedIn(StepTo(v, q, l + 1)) = t - 1
    BY <1>2, <1>5, <2>2, StepToMarks
  <2> QED
    BY <1>4, <1>5, <2>1, <2>3
<1>6. CASE ~(l < Levels[t] /\ q.states[l + 1].status = "pending")
  <2>1. Passed(v) = LeaveTopic(w)
    BY <1>6 DEF Passed, q
  <2>2. w \in Variant /\ w.topic = t /\ Current(w) = q
    BY <1>1, <1>2, PutFacts
  <2>3. Around(w)
    BY <1>1, <1>2, PutAround
  <2>4. VerdictsOf(w) = [VerdictsOf(v) EXCEPT ![t] = Marks(t, q)]
    BY <1>1, <1>2, PutMarks
  <2> HIDE DEF w, m
  <2>5. VerdictsOf(LeaveTopic(w)) = VerdictsOf(w) /\ ClosedIn(LeaveTopic(w)) = t
    BY <1>2, <2>2, <2>3, LeaveMarks, LeaveCloses
  <2> QED
    BY <1>4, <1>6, <2>1, <2>4, <2>5 DEF m
<1> QED
  BY <1>5, <1>6

LEMMA FailedJudges ==
  ASSUME NEW v \in Variant, Around(v), OnTheWay(v.topic, Current(v)),
         CurrentLevel(v).correct <= CurrentLevel(v).answered,
         CurrentLevel(v).answered <= Size[v.topic][Current(v).level],
         CurrentLevel(v).correct + (Size[v.topic][Current(v).level] - CurrentLevel(v).answered)
           < Required[v.topic][Current(v).level]
  PROVE  LET w == Failed(v)
             t == v.topic
             m == [Marks(t, Current(v)) EXCEPT ![Current(v).level] = "failed"]
         IN  /\ VerdictsOf(w) = [VerdictsOf(v) EXCEPT ![t] = m]
             /\ ClosedIn(w) = IF Promise!Settled(t, m) THEN t ELSE t - 1
<1> DEFINE t == v.topic
           l == Current(v).level
           m == [Marks(t, Current(v)) EXCEPT ![l] = "failed"]
           q == Judge(Current(v), "failed")
           w == Put(v, q, v.question)
<1>1. t \in 1 .. Topics /\ Current(v) \in Topic(t) /\ l \in 1 .. Levels[t] /\ Levels[t] \in Nat
      /\ v.question \in Nat /\ Topics \in Nat
  BY VariantFields, LadderFacts DEF Topic
<1>2. /\ q \in Topic(t) /\ Judged(t, q)
      /\ (q.final = 0 /\ l > 1 /\ q.states[l - 1].status = "pending") =>
           Playing(t, Begin(q, l - 1)) /\ q.states[l - 1].answered = 0
  BY <1>1, LostFacts DEF CurrentLevel
<1>3. /\ q.states[l].status = "failed" /\ q.final = Current(v).final
      /\ \A k \in (1 .. Levels[t]) \ {l} : q.states[k] = Current(v).states[k]
  <2>1. Current(v).states[l] \in LevelState
    BY <1>1 DEF Topic
  <2>2. /\ q.states[l] = [Current(v).states[l] EXCEPT !.status = "failed"]
        /\ q.final = Current(v).final
        /\ \A k \in (1 .. Levels[t]) \ {l} : q.states[k] = Current(v).states[k]
    BY <1>1, JudgeFacts
  <2> QED
    BY <2>1, <2>2 DEF LevelState
<1> HIDE DEF q
<1>4. /\ Marks(t, q) = m
      /\ Promise!Settled(t, m) <=> ~(q.final = 0 /\ l > 1 /\ q.states[l - 1].status = "pending")
  BY <1>1, <1>3, LostSettles
<1>5. CASE q.final = 0 /\ l > 1 /\ q.states[l - 1].status = "pending"
  <2>1. Failed(v) = StepTo(v, q, l - 1)
    BY <1>5 DEF Failed, q
  <2>2. l - 1 \in 1 .. Levels[t]
    BY <1>1, <1>5
  <2>3. /\ VerdictsOf(StepTo(v, q, l - 1)) = [VerdictsOf(v) EXCEPT ![t] = Marks(t, q)]
        /\ ClosedIn(StepTo(v, q, l - 1)) = t - 1
    BY <1>2, <1>5, <2>2, StepToMarks
  <2> QED
    BY <1>4, <1>5, <2>1, <2>3
<1>6. CASE ~(q.final = 0 /\ l > 1 /\ q.states[l - 1].status = "pending")
  <2>1. Failed(v) = LeaveTopic(w)
    BY <1>6 DEF Failed, q
  <2>2. w \in Variant /\ w.topic = t /\ Current(w) = q
    BY <1>1, <1>2, PutFacts
  <2>3. Around(w)
    BY <1>1, <1>2, PutAround
  <2>4. VerdictsOf(w) = [VerdictsOf(v) EXCEPT ![t] = Marks(t, q)]
    BY <1>1, <1>2, PutMarks
  <2> HIDE DEF w, m
  <2>5. VerdictsOf(LeaveTopic(w)) = VerdictsOf(w) /\ ClosedIn(LeaveTopic(w)) = t
    BY <1>2, <2>2, <2>3, LeaveMarks, LeaveCloses
  <2> QED
    BY <1>4, <1>6, <2>1, <2>4, <2>5 DEF m
<1> QED
  BY <1>5, <1>6

(* An answer gives the level in progress its verdict, or none. *)
LEMMA AnswerMoves ==
  ASSUME NEW v, Good(v), ~IsOver(v), NEW isCorrect \in BOOLEAN
  PROVE  Judges(v, Answer(v, isCorrect)) \/ Stays(v, Answer(v, isCorrect))
<1> DEFINE t == v.topic
           l == Current(v).level
           s == CurrentLevel(v)
           p == Counted(Current(v), isCorrect)
           r == p.states[p.level]
           required  == Required[t][p.level]
           remaining == Size[t][p.level] - r.answered
           w == Put(v, p, v.question)
           a == Answer(v, isCorrect)
<1>1. /\ v \in Variant /\ Around(v)
      /\ Playing(t, Current(v)) /\ v.question = s.answered + 1
      /\ ClosedIn(v) = t - 1
  BY ClosedInOrder DEF Good, IsOver
<1>2. /\ t \in 1 .. Topics /\ Current(v) \in Topic(t) /\ l \in 1 .. Levels[t] /\ v.question \in Nat
      /\ Size[t][l] \in Nat \ {0} /\ Required[t][l] \in Nat /\ Levels[t] \in Nat
  <2>1. t \in 1 .. Topics /\ Current(v) \in Topic(t) /\ v.question \in Nat
    BY <1>1, VariantFields
  <2>2. l \in 1 .. Levels[t]
    BY <2>1 DEF Topic
  <2> QED
    BY <2>1, <2>2, LadderFacts
<1>3. s \in LevelState /\ s.status = "in_progress"
  BY <1>1, <1>2 DEF Playing, OnTheWay, Topic, CurrentLevel
<1>4. /\ p \in Topic(t) /\ p.level = l /\ p.final = Current(v).final
      /\ p.completed = Current(v).completed
      /\ r.status = "in_progress" /\ r.answered = s.answered + 1 /\ r.correct \in {s.correct, s.correct + 1}
      /\ \A m \in (1 .. Levels[t]) \ {l} : p.states[m] = Current(v).states[m]
  BY <1>2, <1>3, CountedFacts DEF CurrentLevel
<1>5. s.correct <= s.answered /\ s.answered < Size[t][l]
  BY <1>1, <1>2, <1>3 DEF Playing, Earned, CurrentLevel, LevelState
<1> HIDE DEF p
<1>6. r \in LevelState /\ r.correct <= r.answered /\ r.answered <= Size[t][l]
  BY <1>2, <1>3, <1>4, <1>5 DEF LevelState, Topic
<1>7. OnTheWay(t, p)
  BY <1>1, <1>2, <1>4 DEF Playing, OnTheWay, Descending, Ascending
<1>8. Marks(t, p) = Marks(t, Current(v))
  <2>1. Current(v).states[l].status = "in_progress"
    BY <1>3 DEF CurrentLevel
  <2>2. \A m \in 1 .. Levels[t] :
           p.states[m].status = Current(v).states[m].status
    BY <1>2, <1>4, <2>1
  <2> QED
    BY <2>2, SameMarks
<1>9. w \in Variant /\ w.topic = t /\ Current(w) = p /\ Around(w) /\ CurrentLevel(w) = r
  <2>1. w \in Variant /\ w.topic = t /\ Current(w) = p
    BY <1>1, <1>2, <1>4, PutFacts
  <2>2. Around(w)
    BY <1>1, <1>2, <1>4, PutAround
  <2> QED
    BY <2>1, <2>2 DEF CurrentLevel
<1>10. /\ VerdictsOf(v) = [u \in 1 .. Topics |-> VerdictsOf(v)[u]]
       /\ VerdictsOf(v)[t] = Marks(t, p)
  <2>1. VerdictsOf(v) = [u \in 1 .. Topics |-> Marks(u, v.topics[u])]
    BY VerdictsByTopic
  <2> QED
    BY <1>2, <1>8, <2>1 DEF Current
<1>11. \A n \in Nat : VerdictsOf(Put(v, p, n)) = VerdictsOf(v)
  <2> TAKE n \in Nat
  <2>1. VerdictsOf(Put(v, p, n)) = [VerdictsOf(v) EXCEPT ![t] = Marks(t, p)]
    BY <1>1, <1>4, PutMarks
  <2> QED
    BY <1>2, <1>10, <2>1
<1>12. Promise!MayJudge(t, VerdictsOf(v)[t], l)
  BY <1>2, <1>4, <1>7, <1>10, MayJudgeNext
<1>13. a = IF r.correct >= required THEN Passed(w)
           ELSE IF r.correct + remaining < required THEN Failed(w)
           ELSE Put(v, p, v.question + 1)
  BY DEF Answer, p
<1>14. ASSUME NEW x \in {"passed", "failed"}, NEW z,
              LET m == [Marks(t, p) EXCEPT ![l] = x]
              IN  /\ VerdictsOf(z) = [VerdictsOf(w) EXCEPT ![t] = m]
                  /\ ClosedIn(z) = IF Promise!Settled(t, m) THEN t ELSE t - 1
       PROVE  Judges(v, z)
  <2> DEFINE m == [Marks(t, p) EXCEPT ![l] = x]
  <2>1. VerdictsOf(w) = VerdictsOf(v)
    BY <1>2, <1>11
  <2>2. VerdictsOf(z) = [VerdictsOf(v) EXCEPT ![t][l] = x]
    BY <1>2, <1>10, <1>14, <2>1
  <2>3. VerdictsOf(z)[t] = m
    BY <1>2, <1>10, <1>14, <2>1
  <2>4. ClosedIn(z) = IF Promise!Settled(t, VerdictsOf(z)[t]) THEN t ELSE ClosedIn(v)
    BY <1>1, <1>14, <2>3
  <2> QED
    BY <1>2, <1>12, <2>2, <2>4 DEF Judges
<1> HIDE DEF w, r, a
<1>15. CASE r.correct >= required
  <2>1. LET m == [Marks(t, p) EXCEPT ![l] = "passed"]
        IN  /\ VerdictsOf(Passed(w)) = [VerdictsOf(w) EXCEPT ![t] = m]
            /\ ClosedIn(Passed(w)) = IF Promise!Settled(t, m) THEN t ELSE t - 1
    BY <1>4, <1>6, <1>7, <1>9, <1>15, PassedJudges
  <2>2. Judges(v, Passed(w))
    BY <1>14, <2>1
  <2> QED
    BY <1>13, <1>15, <2>2 DEF a
<1>16. CASE ~(r.correct >= required) /\ r.correct + remaining < required
  <2>1. LET m == [Marks(t, p) EXCEPT ![l] = "failed"]
        IN  /\ VerdictsOf(Failed(w)) = [VerdictsOf(w) EXCEPT ![t] = m]
            /\ ClosedIn(Failed(w)) = IF Promise!Settled(t, m) THEN t ELSE t - 1
    BY <1>4, <1>6, <1>7, <1>9, <1>16, FailedJudges
  <2>2. Judges(v, Failed(w))
    BY <1>14, <2>1
  <2> QED
    BY <1>13, <1>16, <2>2 DEF a
<1>17. CASE ~(r.correct >= required) /\ ~(r.correct + remaining < required)
  <2> DEFINE z == Put(v, p, v.question + 1)
  <2>1. a = z
    BY <1>13, <1>17
  <2>2. VerdictsOf(z) = VerdictsOf(v)
    BY <1>2, <1>11
  <2>3. z.topic = t /\ z.question = v.question + 1
    BY <1>1, <1>2, <1>4, PutFacts
  <2>4. Good(a) /\ ~IsOver(z)
    BY <1>2, <2>3, AnswerGood DEF a, IsOver
  <2> HIDE DEF z
  <2>5. ClosedIn(z) = t - 1
    BY <2>1, <2>3, <2>4, ClosedInOrder
  <2> QED
    BY <1>1, <2>1, <2>2, <2>5 DEF Stays, a
<1> QED
  BY <1>15, <1>16, <1>17

(* The topic's timer closes it with the verdicts it has. *)
LEMMA ExpireMoves ==
  ASSUME NEW v, Good(v), ~IsOver(v)
  PROVE  Expires(v, LeaveTopic(v))
<1>1. v \in Variant /\ Around(v) /\ Playing(v.topic, Current(v)) /\ ClosedIn(v) = v.topic - 1
  BY ClosedInOrder DEF Good, IsOver
<1>2. v.topic \in 1 .. Topics /\ Current(v) \in Topic(v.topic)
  BY <1>1, VariantFields
<1>3. Judged(v.topic, Current(v))
  BY <1>1, <1>2, WayDeserved DEF Playing, OnTheWay, Judged
<1>4. VerdictsOf(LeaveTopic(v)) = VerdictsOf(v) /\ ClosedIn(LeaveTopic(v)) = v.topic
  BY <1>1, <1>3, LeaveMarks, LeaveCloses
<1>5. v.topic \in Int
  BY <1>2, LadderAssumption
<1> QED
  BY <1>1, <1>4, <1>5 DEF Expires

(* One request at a time: the next is sent when the last has been answered. *)
OneByOne == \A r1, r2 \in Requests : r1 = r2

(* The request in flight holds the next move of the stored run, and a run    *)
(* whose result is out is asked nothing more.                               *)
InTurn ==
  /\ ~finished => ~IsOver(variant)
  /\ \A r \in Requests :
       /\ req[r].pc # "idle" => ~finished
       /\ req[r].pc = "move" =>
            LET next == req[r].variant
            IN  /\ Stays(variant, next) \/ Expires(variant, next) \/ Judges(variant, next)
                /\ req[r].result = IF IsOver(next) THEN Summary(next) ELSE Null
       /\ req[r].pc = "close" => req[r].result = Summary(variant)

LEMMA InTurnInductive ==
  ASSUME OneByOne
  PROVE  Spec => []InTurn
<1>1. Init => InTurn
  BY DEF Init, Idle, InTurn, IsOver, FirstVariant
<1>2. IInv /\ InTurn /\ [Next]_vars => InTurn'
  <2> SUFFICES ASSUME IInv, InTurn, [Next]_vars PROVE InTurn'
    OBVIOUS
  <2>1. CASE UNCHANGED vars
    BY <2>1 DEF vars, InTurn
  <2>2. ASSUME NEW r \in Requests, Step(r) PROVE InTurn'
    <3>1. \A q \in Requests : q = r
      BY DEF OneByOne
    <3>2. req = [q \in Requests |-> req[q]] /\ Good(variant)
      BY DEF IInv
    <3>3. CASE AnswerRead(r)
      <4>1. PICK isCorrect \in BOOLEAN :
              req' = [req EXCEPT ![r] =
                        [pc |-> "move", variant |-> Answer(variant, isCorrect),
                         result |-> IF IsOver(Answer(variant, isCorrect))
                                    THEN Summary(Answer(variant, isCorrect)) ELSE Null]]
        BY <3>3 DEF AnswerRead
      <4>2. Judges(variant, Answer(variant, isCorrect)) \/ Stays(variant, Answer(variant, isCorrect))
        BY <3>2, <3>3, AnswerMoves DEF AnswerRead
      <4>3. ~finished /\ ~IsOver(variant) /\ UNCHANGED <<variant, finished>>
        BY <3>3 DEF AnswerRead
      <4> QED
        BY <3>1, <3>2, <4>1, <4>2, <4>3 DEF InTurn
    <3>4. CASE ExpireRead(r)
      <4>1. Expires(variant, LeaveTopic(variant))
        BY <3>2, <3>4, ExpireMoves DEF ExpireRead
      <4> QED
        BY <3>1, <3>2, <3>4, <4>1 DEF ExpireRead, InTurn
    <3>5. CASE MoveWrite(r)
      BY <3>1, <3>2, <3>5 DEF MoveWrite, Idle, InTurn
    <3>6. CASE CloseRead(r)
      BY <3>1, <3>2, <3>6 DEF CloseRead, InTurn
    <3>7. CASE CloseWrite(r)
      BY <3>1, <3>2, <3>7 DEF CloseWrite, Idle, InTurn
    <3> QED
      BY <2>2, <3>3, <3>4, <3>5, <3>6, <3>7 DEF Step
  <2> QED
    BY <2>1, <2>2 DEF Next
<1> QED
  BY <1>1, <1>2, Inductive, PTL DEF Spec

(* When the requests of the adaptive attempt follow one another, it          *)
(* implements AdaptivePromise: levels get verdicts outwards from the middle *)
(* one, topics close in order, settled or run out of time, and the result   *)
(* reads the verdicts off (answer-adaptive, expire-topic-adaptive,          *)
(* finish-adaptive).                                                        *)
THEOREM Implements ==
  ASSUME OneByOne
  PROVE  Spec => Promise!Spec
<1>1. Init => Promise!Init
  <2> SUFFICES ASSUME variant = FirstVariant, finished = FALSE PROVE Promise!Init
    BY DEF Init
  <2>1. Good(FirstVariant) /\ FirstVariant.topic = 1 /\ ~IsOver(FirstVariant)
    BY FirstGood DEF FirstVariant, IsOver
  <2>2. ClosedIn(variant) = 0
    BY <2>1, ClosedInOrder
  <2>3. ASSUME NEW t \in 1 .. Topics
        PROVE  Marks(t, FirstVariant.topics[t]) = [l \in 1 .. Levels[t] |-> "none"]
    <3>1. Marks(t, Waiting(t)) = [l \in 1 .. Levels[t] |-> "none"]
      BY WaitingFields DEF Marks, Pending
    <3>2. FirstVariant.topics[t] \in {Waiting(t), Begin(Waiting(t), StartLevel(t))}
      BY DEF FirstVariant
    <3>3. Marks(t, Begin(Waiting(t), StartLevel(t))) = Marks(t, Waiting(t))
      <4>1. Waiting(t) \in Topic(t) /\ StartLevel(t) \in 1 .. Levels[t]
        BY WaitingType, LadderFacts
      <4>2. Waiting(t).states[StartLevel(t)].status = "pending"
        BY <4>1, WaitingFields DEF Pending
      <4> QED
        BY <4>1, <4>2, BeginMarks
    <3> QED
      BY <3>1, <3>2, <3>3
  <2>4. VerdictsOf(variant) = [t \in 1 .. Topics |-> [l \in 1 .. Levels[t] |-> "none"]]
    BY <2>3, VerdictsByTopic
  <2> QED
    BY <2>2, <2>4 DEF Promise!Init
<1>2. IInv /\ InTurn /\ IInv' /\ [Next]_vars => [Promise!Next]_(Promise!vars)
  <2> SUFFICES ASSUME IInv, InTurn, IInv', [Next]_vars PROVE [Promise!Next]_(Promise!vars)
    OBVIOUS
  <2>1. CASE UNCHANGED <<variant, result, finished>>
    BY <2>1 DEF Promise!vars
  <2>2. ASSUME ~IsOver(variant), ~finished PROVE Promise!Open
    <3>1. variant.topic \in 1 .. Topics /\ Topics \in Nat
      BY VariantFields, LadderAssumption DEF IInv, Good
    <3>2. ClosedIn(variant) = variant.topic - 1
      BY <2>2, ClosedInOrder DEF IInv
    <3> QED
      BY <2>2, <3>1, <3>2 DEF Promise!Open
  <2>3. ASSUME NEW r \in Requests, MoveWrite(r) PROVE [Promise!Next]_(Promise!vars)
    <3>1. /\ ~finished /\ ~IsOver(variant)
          /\ Stays(variant, variant') \/ Expires(variant, variant') \/ Judges(variant, variant')
          /\ finished' = IsOver(variant')
          /\ result' = IF IsOver(variant') THEN Summary(variant') ELSE Null
      BY <2>3 DEF MoveWrite, InTurn
    <3>2. /\ IsOver(variant') <=> ClosedIn(variant') = Topics
          /\ Summary(variant') = Promise!Report(VerdictsOf(variant'))
          /\ variant.topic \in Int
          /\ ClosedIn(variant) = variant.topic - 1
      <4>1. Good(variant') /\ Good(variant)
        BY DEF IInv
      <4>2. variant.topic \in Int
        BY <4>1, VariantFields, LadderAssumption DEF Good
      <4> QED
        BY <3>1, <4>1, <4>2, ClosedInOrder, SummaryReadsVerdicts
    <3>3. Promise!Publish
      BY <3>1, <3>2 DEF Promise!Publish
    <3>4. CASE Stays(variant, variant')
      <4>1. ~IsOver(variant')
        BY <3>1, <3>2, <3>4, <2>2 DEF Stays, Promise!Open
      <4> QED
        BY <3>1, <3>4, <4>1 DEF Stays, Promise!vars
    <3>5. CASE Expires(variant, variant')
      BY <2>2, <3>1, <3>3, <3>5 DEF Expires, Promise!Expire, Promise!Next
    <3>6. CASE Judges(variant, variant')
      <4>1. variant.topic = ClosedIn(variant) + 1
        BY <3>2
      <4>2. Promise!Judge
        BY <2>2, <3>1, <3>3, <3>6, <4>1 DEF Judges, Promise!Judge
      <4> QED
        BY <4>2 DEF Promise!Next
    <3> QED
      BY <3>1, <3>4, <3>5, <3>6
  <2>4. ASSUME NEW r \in Requests, CloseWrite(r) PROVE Promise!Buzzer
    <3>1. ~finished /\ ~IsOver(variant) /\ req[r].result = Summary(variant)
      BY <2>4 DEF CloseWrite, InTurn
    <3>2. Summary(variant) = Promise!Report(VerdictsOf(variant))
      BY SummaryReadsVerdicts DEF IInv
    <3> QED
      BY <2>2, <2>4, <3>1, <3>2 DEF CloseWrite, Promise!Buzzer
  <2> QED
    BY <2>1, <2>3, <2>4 DEF Next, Step, vars, AnswerRead, ExpireRead, CloseRead, Promise!Next
<1> QED
  BY <1>1, <1>2, Inductive, InTurnInductive, PTL DEF Spec, Promise!Spec

=============================================================================
