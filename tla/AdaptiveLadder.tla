--------------------------- MODULE AdaptiveLadder ---------------------------
(***************************************************************************)
(* The level ladder of an adaptive attempt as a function from one variant  *)
(* to the next: what start-adaptive, answer-adaptive and                   *)
(* expire-topic-adaptive compute (server/routes/attempts.ts) and what      *)
(* shared/scoring/aggregate.ts reads off at the end.                       *)
(*                                                                         *)
(* Topics and levels are numbered from 1 where the code counts from 0, so  *)
(* that 0 can stand for null.  A question is its place in its level.       *)
(***************************************************************************)
EXTENDS Integers, FiniteSets

CONSTANTS
  Topics,     \* number of adaptive topics
  Levels,     \* Levels[t]: number of levels of topic t
  Size,       \* Size[t][l]: questions delivered for the level
  Required    \* Required[t][l]: correct answers the level asks for

(* Levels are delivered with at least one question: publication refuses an  *)
(* adaptive level its pool cannot fill.  The threshold may exceed the level. *)
ASSUME LadderAssumption ==
  /\ Topics \in Nat \ {0}
  /\ Levels \in [1 .. Topics -> Nat \ {0}]
  /\ \A t \in 1 .. Topics :
       /\ Size[t] \in [1 .. Levels[t] -> Nat \ {0}]
       /\ Required[t] \in [1 .. Levels[t] -> Nat]

StartLevel(t) == Levels[t] \div 2 + 1

Pending == [status |-> "pending", answered |-> 0, correct |-> 0]

Current(v)      == v.topics[v.topic]
CurrentLevel(v) == Current(v).states[Current(v).level]

(* The current topic becomes p, the current question is number n.           *)
Put(v, p, n) ==
  [topic |-> v.topic, question |-> n, topics |-> [v.topics EXCEPT ![v.topic] = p]]

(* The current level of topic p gets a verdict.                             *)
Judge(p, verdict) == [p EXCEPT !.states[p.level].status = verdict]

Begin(p, l) == [p EXCEPT !.level = l, !.states[l].status = "in_progress"]

Waiting(t) ==
  [level |-> StartLevel(t), final |-> 0, completed |-> FALSE,
   states |-> [l \in 1 .. Levels[t] |-> Pending]]

(* start-adaptive: every topic waits at its middle level, the first begins. *)
FirstVariant ==
  [topic    |-> 1,
   question |-> 1,
   topics   |-> [t \in 1 .. Topics |->
                   IF t = 1 THEN Begin(Waiting(1), StartLevel(1)) ELSE Waiting(t)]]

(* moveToNextTopicOrFinish: the topic is completed; the next one begins at  *)
(* its start level, or the run has no further question.                     *)
LeaveTopic(v) ==
  LET left == Put(v, [Current(v) EXCEPT !.completed = TRUE], 0)
      next == [left EXCEPT !.topic = @ + 1]
  IN  IF v.topic < Topics
      THEN Put(next, Begin(Current(next), Current(next).level), 1)
      ELSE left

(* The run is over: the last topic has been left.                           *)
IsOver(v) == v.question = 0

(* Mutant: the question number of the level just left is kept. *)
StepKeepsQuestion(v, p, l) == Put(v, Begin(p, l), v.question)

(* The ladder steps to level l of the current topic, now p.                 *)
StepTo(v, p, l) == Put(v, Begin(p, l), 1)

(* Mutant: the ladder climbs to a level it has come down from. *)
PassedClimbsAgain(v) ==
  LET l == Current(v).level
      p == [Judge(Current(v), "passed") EXCEPT !.final = l]
  IN  IF l < Levels[v.topic] THEN StepTo(v, p, l + 1)
      ELSE LeaveTopic(Put(v, p, v.question))

(* A passed level becomes the final one; the ladder climbs to a level above *)
(* that is still pending, otherwise the topic is done.                      *)
Passed(v) ==
  LET l == Current(v).level
      p == [Judge(Current(v), "passed") EXCEPT !.final = l]
  IN  IF l < Levels[v.topic] /\ p.states[l + 1].status = "pending"
      THEN StepTo(v, p, l + 1)
      ELSE LeaveTopic(Put(v, p, v.question))

(* Mutant: a failure takes the level reached before it away. *)
FailedForgetsFinal(v) ==
  LET l == Current(v).level
      p == [Judge(Current(v), "failed") EXCEPT !.final = 0]
  IN  IF Current(v).final = 0 /\ l > 1 /\ p.states[l - 1].status = "pending"
      THEN StepTo(v, p, l - 1)
      ELSE LeaveTopic(Put(v, p, v.question))

(* A failed level ends the topic when some level was passed before;         *)
(* otherwise the ladder descends to a level below that is still pending.    *)
Failed(v) ==
  LET l == Current(v).level
      p == Judge(Current(v), "failed")
  IN  IF p.final = 0 /\ l > 1 /\ p.states[l - 1].status = "pending"
      THEN StepTo(v, p, l - 1)
      ELSE LeaveTopic(Put(v, p, v.question))

(* One more answer at the current level of topic p.                         *)
Counted(p, isCorrect) ==
  [p EXCEPT !.states[p.level] =
     [status   |-> @.status,
      answered |-> @.answered + 1,
      correct  |-> IF isCorrect THEN @.correct + 1 ELSE @.correct]]

(* Mutant: a level fails while every answer left is needed. *)
AnswerFailsEarly(v, isCorrect) ==
  LET p == Counted(Current(v), isCorrect)
      s == p.states[p.level]
      required  == Required[v.topic][p.level]
      remaining == Size[v.topic][p.level] - s.answered
  IN  IF s.correct >= required THEN Passed(Put(v, p, v.question))
      ELSE IF s.correct + remaining <= required THEN Failed(Put(v, p, v.question))
      ELSE Put(v, p, v.question + 1)

(* answer-adaptive: count the answer, then pass the level as soon as enough  *)
(* answers are correct, fail it as soon as too few can be, else go on with   *)
(* the question that follows in the level.                                  *)
Answer(v, isCorrect) ==
  LET p == Counted(Current(v), isCorrect)
      s == p.states[p.level]
      required  == Required[v.topic][p.level]
      remaining == Size[v.topic][p.level] - s.answered
  IN  IF s.correct >= required THEN Passed(Put(v, p, v.question))
      ELSE IF s.correct + remaining < required THEN Failed(Put(v, p, v.question))
      ELSE Put(v, p, v.question + 1)

(* aggregateAdaptiveResult: the level a topic achieved and the levels that   *)
(* got a verdict.                                                           *)
TopicResult(p) ==
  [achieved  |-> p.final,
   attempted |-> {l \in DOMAIN p.states : p.states[l].status \in {"passed", "failed"}}]

(* buildAdaptiveResult: the topics of the variant it is given; texts, links, *)
(* scales and breakdowns are left out.                                      *)
Summary(v) == [t \in 1 .. Topics |-> TopicResult(v.topics[t])]

=============================================================================
