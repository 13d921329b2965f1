----------------------------- MODULE AdaptiveRun -----------------------------
(***************************************************************************)
(* One adaptive attempt and the requests that move it: answer-adaptive,    *)
(* expire-topic-adaptive (the topic's timer) and finish-adaptive (the      *)
(* timer of the whole test), server/routes/attempts.ts.                    *)
(*                                                                         *)
(* Each handler reads the attempt row, computes on its own copy of the     *)
(* variant and writes variant, result and finishedAt back in a later turn. *)
(* The learner's two timers and the answer button send independently, so   *)
(* with more than one slot the copies may overlap.                         *)
(***************************************************************************)
EXTENDS AdaptiveLadder

CONSTANTS
  Requests,   \* slots of requests in flight at the same time
  Null

VARIABLES
  variant,    \* attempts.variantJson
  result,     \* attempts.resultJson
  finished,   \* attempts.finishedAt is set
  req         \* local state of every request

vars == <<variant, result, finished, req>>

Idle == [pc |-> "idle", variant |-> Null, result |-> Null]

Init ==
  /\ variant = FirstVariant
  /\ result = Null
  /\ finished = FALSE
  /\ req = [r \in Requests |-> Idle]

(* answer-adaptive: the row is open and the question named is the current   *)
(* one (any other is refused); the answer is right or wrong.                *)
AnswerRead(r) ==
  /\ req[r].pc = "idle"
  /\ ~finished
  /\ ~IsOver(variant)
  /\ \E isCorrect \in BOOLEAN :
       LET next == Answer(variant, isCorrect)
       IN  req' = [req EXCEPT ![r] =
                     [pc |-> "move", variant |-> next,
                      result |-> IF IsOver(next) THEN Summary(next) ELSE Null]]
  /\ UNCHANGED <<variant, result, finished>>

(* expire-topic-adaptive: the topic named is still the current one of an    *)
(* open attempt; any other request only re-sends the current question.      *)
ExpireRead(r) ==
  LET next == LeaveTopic(variant)
  IN  /\ req[r].pc = "idle"
      /\ ~finished
      /\ ~IsOver(variant)
      /\ req' = [req EXCEPT ![r] =
                   [pc |-> "move", variant |-> next,
                    result |-> IF IsOver(next) THEN Summary(next) ELSE Null]]
      /\ UNCHANGED <<variant, result, finished>>

(* updateAttempt of both: resultJson and finishedAt are written either way, *)
(* as null when this request did not end the run.                           *)
MoveWrite(r) ==
  /\ req[r].pc = "move"
  /\ variant' = req[r].variant
  /\ result' = req[r].result
  /\ finished' = IsOver(req[r].variant)
  /\ req' = [req EXCEPT ![r] = Idle]

(* finish-adaptive: a finished attempt answers its stored result.           *)
CloseRead(r) ==
  /\ req[r].pc = "idle"
  /\ ~finished
  /\ req' = [req EXCEPT ![r] = [pc |-> "close", variant |-> Null, result |-> Summary(variant)]]
  /\ UNCHANGED <<variant, result, finished>>

(* updateAttempt {resultJson, finishedAt}: the variant is left alone.       *)
CloseWrite(r) ==
  /\ req[r].pc = "close"
  /\ result' = req[r].result
  /\ finished' = TRUE
  /\ req' = [req EXCEPT ![r] = Idle]
  /\ UNCHANGED variant

Step(r) ==
  \/ AnswerRead(r)
  \/ ExpireRead(r)
  \/ MoveWrite(r)
  \/ CloseRead(r)
  \/ CloseWrite(r)

Next == \E r \in Requests : Step(r)

Spec == Init /\ [][Next]_vars

(* The learner keeps answering, and the server ends what it began.  Nothing *)
(* is assumed of the timers: a run need not have one.                       *)
Fairness == \A r \in Requests : WF_vars(AnswerRead(r)) /\ WF_vars(MoveWrite(r)) /\ WF_vars(CloseWrite(r))

FairSpec == Spec /\ Fairness

-----------------------------------------------------------------------------
(* The ladder climbs or descends, never both ways past a verdict: no level   *)
(* of a topic is failed below one that is passed.                           *)
NoFailureBelowSuccess ==
  \A t \in 1 .. Topics : \A i, j \in 1 .. Levels[t] :
    (/\ variant.topics[t].states[i].status = "failed"
     /\ variant.topics[t].states[j].status = "passed") => j < i

(* finalLevelIndex, the level a topic is reported at, is the highest level   *)
(* passed, and null exactly when none was.                                  *)
FinalIsHighestPassed ==
  \A t \in 1 .. Topics :
    LET passed == {l \in 1 .. Levels[t] : variant.topics[t].states[l].status = "passed"}
    IN  IF passed = {} THEN variant.topics[t].final = 0
        ELSE variant.topics[t].final \in passed /\ \A l \in passed : l <= variant.topics[t].final

(* Whatever the path, a topic is reported at the level it deserves: the      *)
(* highest passed, with no failure below a success.                         *)
LevelIsDeserved == NoFailureBelowSuccess /\ FinalIsHighestPassed

(* A level is left with a verdict as soon as it is certain and not before:   *)
(* an open level could still go either way, and asks no more than it holds. *)
VerdictsAreEarned ==
  \A t \in 1 .. Topics : \A l \in 1 .. Levels[t] :
    LET s == variant.topics[t].states[l]
    IN  /\ s.correct <= s.answered /\ s.answered <= Size[t][l]
        /\ s.status = "passed" => s.correct >= Required[t][l]
        /\ s.status = "failed" => s.correct + Size[t][l] - s.answered < Required[t][l]
        /\ (s.status \notin {"passed", "failed"} /\ s.answered > 0) =>
             /\ s.correct < Required[t][l]
             /\ s.correct + Size[t][l] - s.answered >= Required[t][l]

(* The learner is asked in one level at a time: while a question is current, *)
(* the level it belongs to is the only one in progress in an open topic, and *)
(* the question is the next unanswered one.                                 *)
OneQuestionAtATime ==
  ~IsOver(variant) =>
    /\ CurrentLevel(variant).status = "in_progress"
    /\ variant.question = CurrentLevel(variant).answered + 1
    /\ \A t \in 1 .. Topics : \A l \in 1 .. Levels[t] :
         (variant.topics[t].states[l].status = "in_progress" /\ ~variant.topics[t].completed)
           => t = variant.topic /\ l = Current(variant).level

(* Topics are played in order: those before the current one are completed,   *)
(* those after it untouched.                                                *)
TopicsInOrder ==
  \A t \in 1 .. Topics :
    /\ t < variant.topic => variant.topics[t].completed
    /\ t > variant.topic =>
         /\ ~variant.topics[t].completed
         /\ \A l \in 1 .. Levels[t] : variant.topics[t].states[l] = Pending

(* The run is in one place: one question of one level of one topic.          *)
OnePlaceAtATime == OneQuestionAtATime /\ TopicsInOrder

(* What is promised is read off the stored variant: the verdicts given and   *)
(* the number of topics closed.                                             *)
VerdictsOf(v) ==
  [t \in 1 .. Topics |->
     [l \in 1 .. Levels[t] |->
        LET s == v.topics[t].states[l].status
        IN  IF s \in {"passed", "failed"} THEN s ELSE "none"]]

ClosedIn(v) == Cardinality({t \in 1 .. Topics : v.topics[t].completed})

(* The run keeps the promise of module AdaptivePromise: verdicts outwards    *)
(* from the middle, topics in order, a result that reads them off, and a    *)
(* learner who keeps answering comes to it: the ladder is finite.           *)
Promise ==
  INSTANCE AdaptivePromise WITH
    verdict <- VerdictsOf(variant),
    closed  <- ClosedIn(variant),
    report  <- IF finished THEN result ELSE Null

KeepsPromise == Promise!KeptSpec

=============================================================================
