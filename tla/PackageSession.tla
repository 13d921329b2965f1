--------------------------- MODULE PackageSession ---------------------------
(***************************************************************************)
(* A run of an exported package: the page (scorm/template/app) and the     *)
(* state the LMS keeps for it between launches (cmi.suspend_data,          *)
(* cmi.total_time).  The page may be closed, or die between any two        *)
(* commits, and is then launched again on what was committed.              *)
(*                                                                         *)
(* Standard tests that are walked question by question (linear_flat), with *)
(* an optional intro page; an answer that was confirmed may not be changed *)
(* (allowAnswerChange off).  What is asked, and the option order, are left *)
(* out: a question is its place in the delivery, an answer what it is      *)
(* worth.  The unit of time is arbitrary; a commit of the session time     *)
(* falls anywhere between two ticks, or not at all.                        *)
(***************************************************************************)
EXTENDS Integers, Sequences, FiniteSets, SequencesExt, FiniteSetsExt

CONSTANTS
  Tests,      \* TEST_DATA of the packages
  Size,       \* questions of the test
  MaxRuns,    \* bound: attempts begun
  MaxBoots    \* bound: launches

ASSUME PackageAssumption ==
  /\ Size \in Nat \ {0}
  /\ MaxRuns \in Nat \ {0}
  /\ MaxBoots \in Nat \ {0}
  /\ Tests \subseteq [maxAttempts : Nat, timeLimit : Nat, clock : BOOLEAN,
                      flexible : BOOLEAN, intro : BOOLEAN]

VARIABLES
  TEST_DATA,   \* the settings of the package; 0 stands for no limit
  sd,          \* suspend_data
  totalTime,   \* cmi.total_time
  sessionTime, \* cmi.session_time
  state,       \* the page
  boots,       \* launches so far
  begun,       \* history: attempts begun
  finished,    \* history: attempts that were finished on the results screen
  results,     \* history: the results that were saved, in order
  moved,       \* history: by attempt, the answers confirmed or gone on from
  spent,       \* history: active time of the latest attempt ...
  lost,        \* ... and the part of it that no commit reported
  aged         \* history: a checkpoint was given up for its age

lms     == <<sd, totalTime, sessionTime>>
history == <<begun, finished, results, moved, spent, lost, aged>>
vars    == <<TEST_DATA, lms, state, boots, history>>

Questions == 1 .. Size
Runs      == 1 .. MaxRuns
None      == -1

Answers   == {"none", "right", "wrong"}
Statuses  == {"unanswered", "answered", "skipped"}
Untouched == [q \in Questions |-> "none"]
Unseen    == [q \in Questions |-> "unanswered"]

(* `att` is the attempt whose answers these are; the program does not keep  *)
(* it.  No checkpoint and no summary have att = 0.                          *)
Checkpoint == [att : 0 .. MaxRuns, i : Questions,
               an : [Questions -> Answers], st : [Questions -> Statuses]]
Summary    == [att : 0 .. MaxRuns, pc : 0 .. Size]

NoCheckpoint == [att |-> 0, i |-> 1, an |-> Untouched, st |-> Unseen]
NoSummary    == [att |-> 0, pc |-> 0]

Phases == {"start", "content", "question", "review", "viewResults", "closed"}

Page ==
  [phase : Phases, att : 0 .. MaxRuns, currentIndex : 1 .. Size + 1,
   answers : [Questions -> Answers], questionStatuses : [Questions -> Statuses],
   submitted : BOOLEAN, timing : BOOLEAN, startSeconds : Int, elapsed : Nat]

FreshPage ==
  [phase |-> "start", att |-> 0, currentIndex |-> 1, answers |-> Untouched,
   questionStatuses |-> Unseen, submitted |-> FALSE,
   timing |-> FALSE, startSeconds |-> 0, elapsed |-> 0]

(* Types. *)
TypeOK ==
  /\ TEST_DATA \in Tests
  /\ sd \in [attemptsUsed : Nat, best : Summary, last : Summary,
             currentSession : Checkpoint, timer : {None} \cup Nat]
  /\ totalTime \in Nat /\ sessionTime \in Nat
  /\ state \in Page
  /\ boots \in 0 .. MaxBoots /\ begun \in 0 .. MaxRuns
  /\ finished \subseteq Runs
  /\ results \in Seq([att : Runs, pc : 0 .. Size])
  /\ moved \in [Runs -> [Questions -> Answers]]
  /\ spent \in Nat /\ lost \in Nat /\ aged \in BOOLEAN

Running    == state.phase \in {"content", "question", "review"} /\ ~state.submitted
OnQuestion == state.phase = "question" /\ ~state.submitted
OnResults  == state.phase = "question" /\ state.submitted
Timed      == TEST_DATA.timeLimit > 0

-----------------------------------------------------------------------------
(* The stored state.  Each operator takes and returns suspend_data.         *)

(* Mutant: the checkpoint is written over a fresh state. *)
saveCurrentSessionAlone(s, p) ==
  [attemptsUsed |-> 0, best |-> s.best, last |-> s.last, timer |-> s.timer,
   currentSession |-> [att |-> p.att, i |-> p.currentIndex, an |-> p.answers,
                       st |-> p.questionStatuses]]

saveCurrentSession(s, p) ==
  [s EXCEPT !.currentSession = [att |-> p.att, i |-> p.currentIndex,
                                an |-> p.answers, st |-> p.questionStatuses]]

clearCurrentSession(s) == [s EXCEPT !.currentSession = NoCheckpoint]
clearTimerAnchor(s)    == [s EXCEPT !.timer = None]

(* What counts: in a flexible test only what was confirmed.                 *)
gradedAnswerFor(p, q) ==
  IF TEST_DATA.flexible /\ p.questionStatuses[q] # "answered" THEN "none" ELSE p.answers[q]

calculateResults(p) ==
  [att |-> p.att, pc |-> Cardinality({q \in Questions : gradedAnswerFor(p, q) = "right"})]

(* Mutant: an equal result does not replace the best one. *)
pickBestEarlier(current, candidate) ==
  IF current.att = 0 \/ candidate.pc > current.pc THEN candidate ELSE current

pickBest(current, candidate) ==
  IF current.att = 0 \/ candidate.pc >= current.pc THEN candidate ELSE current

(* `last` is empty when the last result is the best one.                    *)
saveAttemptResult(s, p) ==
  LET summary == calculateResults(p)
      best    == pickBest(s.best, summary)
  IN  [s EXCEPT !.best = best, !.last = IF best = summary THEN NoSummary ELSE summary]

getLastAttempt(s) == IF s.last = NoSummary THEN s.best ELSE s.last

hasAttemptsLeft(s) == TEST_DATA.maxAttempts = 0 \/ s.attemptsUsed < TEST_DATA.maxAttempts

registerAttemptStart(s) ==
  IF TEST_DATA.maxAttempts = 0 THEN s ELSE [s EXCEPT !.attemptsUsed = @ + 1]

-----------------------------------------------------------------------------
(* The end of an attempt and the timer                                      *)

(* submit(): the answers are saved, the timer stops, the results are shown. *)
submit(s, p) ==
  /\ sd' = clearTimerAnchor(saveCurrentSession(s, p))
  /\ state' = [p EXCEPT !.submitted = TRUE, !.timing = FALSE, !.phase = "question",
                        !.currentIndex = Size + 1]
  /\ finished' = finished \cup {p.att}

(* The time used is what the LMS reported since the anchor.                 *)
CanRestoreTimer(s) == TEST_DATA.clock /\ s.timer # None
Consumed(s)        == Max({0, totalTime - s.timer})

(* Mutant: a page that is loaded again counts from the full limit. *)
initTimerFull(s, p) ==
  /\ sd' = IF Timed /\ TEST_DATA.clock THEN [s EXCEPT !.timer = totalTime] ELSE s
  /\ state' = [p EXCEPT !.timing = Timed, !.elapsed = 0, !.startSeconds = TEST_DATA.timeLimit]
  /\ UNCHANGED finished

initTimer(s, p) ==
  LET resume == Timed /\ CanRestoreTimer(s)
      left   == TEST_DATA.timeLimit - (IF resume THEN Consumed(s) ELSE 0)
  IN  IF Timed /\ left <= 0
      THEN submit(s, p)
      ELSE /\ sd' = IF Timed /\ ~resume /\ TEST_DATA.clock THEN [s EXCEPT !.timer = totalTime] ELSE s
           /\ state' = [p EXCEPT !.timing = Timed, !.elapsed = 0, !.startSeconds = left]
           /\ UNCHANGED finished

(* Mutant: the countdown stops silently outside the question screen. *)
TickOnQuestion ==
  /\ state.timing
  /\ spent' = spent + 1
  /\ LET p == [state EXCEPT !.elapsed = @ + 1]
     IN  IF p.elapsed >= p.startSeconds /\ p.phase = "question"
         THEN submit(sd, p)
         ELSE p.elapsed <= p.startSeconds /\ state' = p /\ UNCHANGED <<sd, finished>>
  /\ UNCHANGED <<TEST_DATA, totalTime, sessionTime, boots, begun, results, moved, lost, aged>>

(* A unit of time of the countdown; at zero the test is submitted.          *)
Tick ==
  /\ state.timing
  /\ spent' = spent + 1
  /\ LET p == [state EXCEPT !.elapsed = @ + 1]
     IN  IF p.elapsed >= p.startSeconds
         THEN submit(sd, p)
         ELSE state' = p /\ UNCHANGED <<sd, finished>>
  /\ UNCHANGED <<TEST_DATA, totalTime, sessionTime, boots, begun, results, moved, lost, aged>>

(* commitSessionTime(), at some moment of the ten seconds, or later when    *)
(* the browser throttles the page.                                          *)
commitSessionTime ==
  /\ state.timing
  /\ sessionTime' = state.elapsed
  /\ UNCHANGED <<TEST_DATA, sd, totalTime, state, boots, history>>

-----------------------------------------------------------------------------
(* Launches                                                                 *)

determineRecovery(stale) ==
  LET session == IF stale THEN NoCheckpoint ELSE sd.currentSession
  IN  IF session.att # 0 /\ (Timed => CanRestoreTimer(sd)) THEN "restore"
      ELSE IF session.att # 0 /\ sd.best.att # 0 THEN "show_last_attempt"
      ELSE "start_fresh"

restored(session) ==
  [FreshPage EXCEPT !.phase = "question", !.att = session.att, !.currentIndex = session.i,
                    !.answers = session.an, !.questionStatuses = session.st]

(* A launch; the checkpoint may be more than a day old.                     *)
Boot(stale) ==
  /\ state.phase = "closed" /\ boots < MaxBoots
  /\ boots' = boots + 1
  /\ aged' = (aged \/ (stale /\ sd.currentSession.att # 0))
  /\ CASE determineRecovery(stale) = "restore" ->
            initTimer(sd, restored(sd.currentSession))
       [] determineRecovery(stale) = "show_last_attempt" ->
            /\ sd' = clearCurrentSession(sd)
            /\ state' = [FreshPage EXCEPT !.phase = "viewResults"]
            /\ UNCHANGED finished
       [] determineRecovery(stale) = "start_fresh" ->
            /\ sd' = clearCurrentSession(sd)
            /\ state' = FreshPage
            /\ UNCHANGED finished
  /\ UNCHANGED <<TEST_DATA, totalTime, sessionTime, begun, results, moved, spent, lost>>

(* The end of the page: the LMS adds the session time it was given.         *)
SessionEnds ==
  /\ totalTime' = totalTime + sessionTime
  /\ sessionTime' = 0
  /\ state' = [FreshPage EXCEPT !.phase = "closed"]
  /\ lost' = lost + (IF state.timing THEN Max({0, state.elapsed - sessionTime}) ELSE 0)
  /\ UNCHANGED <<TEST_DATA, boots, begun, finished, moved, spent, aged>>

(* The page dies: what was committed stays.                                 *)
Kill ==
  /\ state.phase # "closed"
  /\ SessionEnds
  /\ UNCHANGED <<sd, results>>

(* beforeunload: a finished attempt is saved; so is a question screen.      *)
Close ==
  /\ state.phase # "closed"
  /\ IF state.submitted
     THEN /\ sd' = clearCurrentSession(saveAttemptResult(sd, state))
          /\ results' = Append(results, calculateResults(state))
     ELSE /\ sd' = IF OnQuestion THEN saveCurrentSession(sd, state) ELSE sd
          /\ UNCHANGED results
  /\ SessionEnds

finishAndClose ==
  /\ OnResults
  /\ sd' = clearCurrentSession(saveAttemptResult(sd, state))
  /\ results' = Append(results, calculateResults(state))
  /\ SessionEnds

-----------------------------------------------------------------------------
(* The start screen and the results screen                                  *)

FirstPage(a) ==
  [FreshPage EXCEPT !.phase = IF TEST_DATA.intro THEN "content" ELSE "question", !.att = a]

Begin(s) ==
  /\ hasAttemptsLeft(sd) /\ begun < MaxRuns
  /\ begun' = begun + 1
  /\ spent' = 0 /\ lost' = 0
  /\ initTimer(registerAttemptStart(s), FirstPage(begun + 1))
  /\ UNCHANGED <<TEST_DATA, totalTime, sessionTime, boots, moved, aged>>

startTest ==
  /\ state.phase = "start"
  /\ Begin(sd)
  /\ UNCHANGED results

(* Mutant: a new attempt drops the finished one on the screen. *)
restartUnsaved ==
  /\ OnResults
  /\ calculateResults(state).pc < Size
  /\ Begin(clearTimerAnchor(sd))
  /\ UNCHANGED results

(* restart() of startPage.js, which replaces the one of answers.js: offered *)
(* when the test is failed.  The result is saved only if attempts are       *)
(* counted, and the checkpoint of the finished attempt stays.               *)
restart ==
  /\ OnResults
  /\ calculateResults(state).pc < Size
  /\ IF sd.attemptsUsed > 0
     THEN /\ Begin(clearTimerAnchor(saveAttemptResult(sd, state)))
          /\ results' = Append(results, calculateResults(state))
     ELSE Begin(clearTimerAnchor(sd)) /\ UNCHANGED results

viewSavedResults ==
  /\ state.phase = "start" /\ sd.best.att # 0
  /\ state' = [state EXCEPT !.phase = "viewResults"]
  /\ UNCHANGED <<TEST_DATA, lms, boots, history>>

backToStart ==
  /\ state.phase = "viewResults"
  /\ state' = [state EXCEPT !.phase = "start"]
  /\ UNCHANGED <<TEST_DATA, lms, boots, history>>

-----------------------------------------------------------------------------
(* The run                                                                  *)

hasAnswer == state.answers[state.currentIndex] # "none"

LeaveIntro ==
  /\ state.phase = "content"
  /\ state' = [state EXCEPT !.phase = "question"]
  /\ UNCHANGED <<TEST_DATA, lms, boots, history>>

(* An answer is picked, unless it was confirmed.                            *)
select(v) ==
  /\ OnQuestion
  /\ state.questionStatuses[state.currentIndex] # "answered"
  /\ state' = [state EXCEPT !.answers[state.currentIndex] = v]
  /\ UNCHANGED <<TEST_DATA, lms, boots, history>>

(* Mutant: the answer is fixed, and saved only when the learner goes on. *)
confirmUnsaved ==
  /\ OnQuestion /\ hasAnswer
  /\ LET q == state.currentIndex
     IN  /\ state' = [state EXCEPT !.questionStatuses[q] = "answered"]
         /\ moved' = [moved EXCEPT ![state.att][q] = state.answers[q]]
  /\ UNCHANGED <<TEST_DATA, lms, boots, begun, finished, results, spent, lost, aged>>

(* The answer is fixed, and saved at once.                                  *)
confirmAnswer ==
  /\ OnQuestion /\ hasAnswer
  /\ LET q == state.currentIndex
         p == [state EXCEPT !.questionStatuses[q] = "answered"]
     IN  /\ state' = p /\ sd' = saveCurrentSession(sd, p)
         /\ moved' = [moved EXCEPT ![state.att][q] = state.answers[q]]
  /\ UNCHANGED <<TEST_DATA, totalTime, sessionTime, boots, begun, finished, results, spent, lost, aged>>

(* The checkpoint still points to the question that is left.                *)
advanceAfterCommit(p) ==
  IF p.currentIndex < Size
  THEN /\ sd' = saveCurrentSession(sd, p)
       /\ state' = [p EXCEPT !.currentIndex = @ + 1]
       /\ UNCHANGED finished
  ELSE IF TEST_DATA.flexible /\ \E q \in Questions : p.questionStatuses[q] # "answered"
       THEN /\ sd' = saveCurrentSession(sd, p)
            /\ state' = [p EXCEPT !.phase = "review"]
            /\ UNCHANGED finished
       ELSE submit(sd, p)

next ==
  /\ OnQuestion /\ hasAnswer
  /\ TEST_DATA.flexible \/ state.currentIndex < Size
  /\ moved' = [moved EXCEPT ![state.att][state.currentIndex] = state.answers[state.currentIndex]]
  /\ advanceAfterCommit([state EXCEPT !.questionStatuses[state.currentIndex] = "answered"])
  /\ UNCHANGED <<TEST_DATA, totalTime, sessionTime, boots, begun, results, spent, lost, aged>>

(* The draft of a skipped question is dropped.                              *)
skipQuestion ==
  /\ OnQuestion /\ TEST_DATA.flexible
  /\ state.questionStatuses[state.currentIndex] # "answered"
  /\ advanceAfterCommit([state EXCEPT !.questionStatuses[state.currentIndex] = "skipped",
                                      !.answers[state.currentIndex] = "none"])
  /\ UNCHANGED <<TEST_DATA, totalTime, sessionTime, boots, begun, results, moved, spent, lost, aged>>

(* Mutant: the learner can go back from the first question. *)
goBackFurther ==
  /\ OnQuestion /\ TEST_DATA.flexible /\ state.currentIndex > 0
  /\ LET p == [state EXCEPT !.currentIndex = @ - 1]
     IN  state' = p /\ sd' = saveCurrentSession(sd, p)
  /\ UNCHANGED <<TEST_DATA, totalTime, sessionTime, boots, history>>

goBack ==
  /\ OnQuestion /\ TEST_DATA.flexible /\ state.currentIndex > 1
  /\ LET p == [state EXCEPT !.currentIndex = @ - 1]
     IN  state' = p /\ sd' = saveCurrentSession(sd, p)
  /\ UNCHANGED <<TEST_DATA, totalTime, sessionTime, boots, history>>

(* The review lists what the learner has reached.                           *)
goToReview ==
  /\ OnQuestion
  /\ \E q \in Questions : state.questionStatuses[q] = "skipped"
  /\ state' = [state EXCEPT !.phase = "review"]
  /\ UNCHANGED <<TEST_DATA, lms, boots, history>>

goToQuestionIndex(q) ==
  /\ state.phase = "review"
  /\ q <= state.currentIndex \/ state.questionStatuses[q] # "unanswered"
  /\ state' = [state EXCEPT !.phase = "question", !.currentIndex = q]
  /\ UNCHANGED <<TEST_DATA, lms, boots, history>>

(* The test is finished from the last question of a strict test, or from    *)
(* the review; both want an answer to the question that is current.         *)
Finish ==
  /\ \/ OnQuestion /\ ~TEST_DATA.flexible /\ state.currentIndex = Size
     \/ state.phase = "review"
  /\ hasAnswer
  /\ submit(sd, state)
  /\ UNCHANGED <<TEST_DATA, totalTime, sessionTime, boots, begun, results, moved, spent, lost, aged>>

-----------------------------------------------------------------------------
Init ==
  /\ TEST_DATA \in Tests
  /\ sd = [attemptsUsed |-> 0, best |-> NoSummary, last |-> NoSummary,
           currentSession |-> NoCheckpoint, timer |-> None]
  /\ totalTime = 0 /\ sessionTime = 0
  /\ state = [FreshPage EXCEPT !.phase = "closed"]
  /\ boots = 0 /\ begun = 0 /\ finished = {} /\ results = <<>>
  /\ moved = [a \in Runs |-> Untouched]
  /\ spent = 0 /\ lost = 0 /\ aged = FALSE

Launches == (\E stale \in BOOLEAN : Boot(stale)) \/ Kill \/ Close \/ finishAndClose
Screens  == startTest \/ restart \/ viewSavedResults \/ backToStart
Walk     ==
  \/ LeaveIntro \/ (\E v \in Answers \ {"none"} : select(v)) \/ confirmAnswer
  \/ next \/ skipQuestion \/ goBack \/ goToReview
  \/ (\E q \in Questions : goToQuestionIndex(q)) \/ Finish

Next == Launches \/ Screens \/ Walk \/ Tick \/ commitSessionTime

Spec == Init /\ [][Next]_vars

FairSpec == Spec /\ WF_vars(Tick)

-----------------------------------------------------------------------------
(* A limit on attempts holds across launches: each attempt was counted for  *)
(* good before its first page was shown, and no crash, no checkpoint and no *)
(* result written later gives it back (suspendAttempts.js:169, :184).       *)
LimitKept ==
  TEST_DATA.maxAttempts > 0 =>
    sd.attemptsUsed = begun /\ begun <= TEST_DATA.maxAttempts

(* The best of some results, the later one of equals.                       *)
BestOf(rs) ==
  rs[Max({i \in DOMAIN rs : \A j \in DOMAIN rs : rs[j].pc <= rs[i].pc})]

(* Three fields stand for the whole list of results that was once stored:   *)
(* after any number of attempts and launches they give its best and its     *)
(* last member (runState.js:218, suspendAttempts.js:214).                   *)
SummaryExact ==
  results # <<>> => sd.best = BestOf(results) /\ getLastAttempt(sd) = Last(results)

(* Where attempts are counted and no time limit runs, a finished attempt is *)
(* never lost: its result is saved, or it is on the results screen, or the  *)
(* checkpoint still has it, unless that grew older than a day.              *)
FinishedKept ==
  (TEST_DATA.maxAttempts > 0 /\ ~Timed /\ ~aged) =>
    \A a \in finished :
      \/ \E i \in DOMAIN results : results[i].att = a
      \/ state.submitted /\ state.att = a
      \/ sd.currentSession.att = a

(* An answer that was confirmed or gone on from cannot be given anew:        *)
(* however the page dies and is launched again, it is there and locked      *)
(* (answers.js:164, isAnswerLocked; feedback.js:70).                        *)
MovedOnIsFixed ==
  Running =>
    \A q \in Questions :
      moved[state.att][q] # "none" =>
        state.answers[q] = moved[state.att][q] /\ state.questionStatuses[q] = "answered"

(* Closing and launching again gives no time back: the time that is left is *)
(* the limit less all the active time of the attempt, but for what no       *)
(* commit reported (sessionRecovery.js:145).                                *)
NoFreeTime ==
  state.timing => state.startSeconds - state.elapsed + spent - lost <= TEST_DATA.timeLimit

(* A timed run that is left open is submitted by its timer, on whatever     *)
(* screen of the run the learner is.                                        *)
BuzzerSounds == (Timed /\ Running) ~> ~Running

(* What is resumed is the attempt that is under way.                        *)
OwnCheckpoint == Running => state.att = begun

=============================================================================
