------------------------ MODULE PackageSessionProofs ------------------------
(***************************************************************************)
(* Proofs about PackageSession, for any set of packages, any number of     *)
(* questions, attempts and launches.                                       *)
(***************************************************************************)
EXTENDS PackageSession, FiniteSetTheorems, TLAPS

(* suspend_data, as TypeOK describes it.                                    *)
Stored ==
  [attemptsUsed : Nat, best : Summary, last : Summary,
   currentSession : Checkpoint, timer : {None} \cup Nat]

(* What saveCurrentSession writes for a page.                               *)
CheckpointOf(p) ==
  [att |-> p.att, i |-> p.currentIndex, an |-> p.answers, st |-> p.questionStatuses]

(* A page in the middle of an attempt.                                      *)
InRun(p) ==
  /\ p \in Page
  /\ p.phase \in {"content", "question", "review"} /\ ~p.submitted
  /\ p.att \in 1 .. MaxRuns /\ p.currentIndex \in Questions

(* The page belongs to an attempt exactly on the screens of a run and of    *)
(* the results; the results screen shows the attempt of the checkpoint.     *)
PageInv ==
  /\ state.phase \in {"start", "viewResults", "closed"} =>
       state.att = 0 /\ ~state.submitted /\ ~state.timing
  /\ state.phase \in {"content", "question", "review"} => state.att \in 1 .. begun
  /\ state.submitted =>
       state.phase = "question" /\ ~state.timing /\ sd.currentSession.att = state.att
  /\ Running => state.currentIndex \in Questions
  /\ sd.currentSession.att <= begun

TypeInv == TypeOK /\ PageInv

-----------------------------------------------------------------------------
(* The operators on the stored state                                        *)

(* The larger of zero and an integer, as the code's Math.max(0, x).         *)
LEMMA MaxZero ==
  ASSUME NEW x \in Int
  PROVE  Max({0, x}) = IF x > 0 THEN x ELSE 0
<1> DEFINE m == IF x > 0 THEN x ELSE 0
           M == CHOOSE y \in {0, x} : \A z \in {0, x} : y >= z
<1>1. m \in {0, x} /\ \A z \in {0, x} : m >= z
  OBVIOUS
<1>2. M \in {0, x} /\ \A z \in {0, x} : M >= z
  BY <1>1
<1>3. Max({0, x}) = M
  BY DEF Max
<1> HIDE DEF M
<1>4. M = m
  BY <1>2
<1> QED
  BY <1>3, <1>4

(* The result of a page names its attempt, and is a count of questions.     *)
LEMMA ResultFacts ==
  ASSUME NEW p \in Page
  PROVE  calculateResults(p) \in Summary /\ calculateResults(p).att = p.att
<1> DEFINE R == {q \in Questions : gradedAnswerFor(p, q) = "right"}
<1>1. Size \in Nat
  BY PackageAssumption
<1>2. IsFiniteSet(Questions) /\ Cardinality(Questions) = Size
  <2>1. /\ IsFiniteSet(1 .. Size)
        /\ Cardinality(1 .. Size) = IF 1 > Size THEN 0 ELSE Size - 1 + 1
    BY <1>1, FS_Interval
  <2> QED
    BY <1>1, <2>1 DEF Questions
<1>3. R \subseteq Questions
  OBVIOUS
<1> HIDE DEF R
<1>4. IsFiniteSet(R) /\ Cardinality(R) <= Cardinality(Questions)
  BY <1>2, <1>3, FS_Subset
<1>5. Cardinality(R) \in Nat
  BY <1>4, FS_CardinalityType
<1>6. Cardinality(R) \in 0 .. Size
  BY <1>1, <1>2, <1>4, <1>5
<1>7. calculateResults(p) = [att |-> p.att, pc |-> Cardinality(R)]
  BY DEF calculateResults, R
<1>8. p.att \in 0 .. MaxRuns
  BY DEF Page
<1> QED
  BY <1>6, <1>7, <1>8 DEF Summary

LEMMA StoredFacts ==
  ASSUME NEW s \in Stored
  PROVE  /\ s.attemptsUsed \in Nat /\ s.best \in Summary /\ s.last \in Summary
         /\ s.currentSession \in Checkpoint /\ s.timer \in {None} \cup Nat
BY DEF Stored

LEMMA CheckpointTyped ==
  ASSUME NEW p \in Page, p.currentIndex \in Questions
  PROVE  CheckpointOf(p) \in Checkpoint
BY DEF Page, CheckpointOf, Checkpoint

LEMMA SavedFacts ==
  ASSUME NEW s \in Stored, NEW p \in Page, p.currentIndex \in Questions
  PROVE  /\ saveCurrentSession(s, p) \in Stored
         /\ saveCurrentSession(s, p).currentSession = CheckpointOf(p)
         /\ saveCurrentSession(s, p).currentSession.att = p.att
         /\ saveCurrentSession(s, p).currentSession.an = p.answers
         /\ saveCurrentSession(s, p).currentSession.st = p.questionStatuses
         /\ saveCurrentSession(s, p).attemptsUsed = s.attemptsUsed
         /\ saveCurrentSession(s, p).best = s.best
         /\ saveCurrentSession(s, p).last = s.last
         /\ saveCurrentSession(s, p).timer = s.timer
<1>1. saveCurrentSession(s, p) = [s EXCEPT !.currentSession = CheckpointOf(p)]
  BY DEF saveCurrentSession, CheckpointOf
<1>2. CheckpointOf(p) \in Checkpoint
  BY CheckpointTyped
<1>3. /\ CheckpointOf(p).att = p.att /\ CheckpointOf(p).an = p.answers
      /\ CheckpointOf(p).st = p.questionStatuses
  BY DEF CheckpointOf
<1> QED
  BY <1>1, <1>2, <1>3 DEF Stored

LEMMA ClearedFacts ==
  ASSUME NEW s \in Stored
  PROVE  /\ clearCurrentSession(s) \in Stored
         /\ clearCurrentSession(s).currentSession = NoCheckpoint
         /\ clearCurrentSession(s).attemptsUsed = s.attemptsUsed
         /\ clearCurrentSession(s).best = s.best
         /\ clearCurrentSession(s).last = s.last
         /\ clearCurrentSession(s).timer = s.timer
<1>1. NoCheckpoint \in Checkpoint /\ NoCheckpoint.att = 0
  BY PackageAssumption
     DEF NoCheckpoint, Checkpoint, Untouched, Unseen, Questions, Answers, Statuses
<1> QED
  BY <1>1 DEF clearCurrentSession, Stored

LEMMA UnanchoredFacts ==
  ASSUME NEW s \in Stored
  PROVE  /\ clearTimerAnchor(s) \in Stored
         /\ clearTimerAnchor(s).currentSession = s.currentSession
         /\ clearTimerAnchor(s).attemptsUsed = s.attemptsUsed
         /\ clearTimerAnchor(s).best = s.best
         /\ clearTimerAnchor(s).last = s.last
         /\ clearTimerAnchor(s).timer = None
BY DEF clearTimerAnchor, Stored

(* Saving a result changes the summaries and nothing else.                  *)
LEMMA ResultSaved ==
  ASSUME NEW s \in Stored, NEW p \in Page
  PROVE  /\ saveAttemptResult(s, p) \in Stored
         /\ saveAttemptResult(s, p).currentSession = s.currentSession
         /\ saveAttemptResult(s, p).attemptsUsed = s.attemptsUsed
         /\ saveAttemptResult(s, p).best = pickBest(s.best, calculateResults(p))
         /\ saveAttemptResult(s, p).last =
              IF pickBest(s.best, calculateResults(p)) = calculateResults(p)
              THEN NoSummary ELSE calculateResults(p)
         /\ saveAttemptResult(s, p).timer = s.timer
<1> DEFINE r == calculateResults(p)
           b == pickBest(s.best, r)
           l == IF b = r THEN NoSummary ELSE r
<1>1. r \in Summary
  BY ResultFacts
<1>2. NoSummary \in Summary
  BY PackageAssumption DEF NoSummary, Summary
<1>3. b \in Summary
  BY <1>1, StoredFacts DEF pickBest
<1>4. saveAttemptResult(s, p) = [s EXCEPT !.best = b, !.last = l]
  BY DEF saveAttemptResult
<1> HIDE DEF r, b
<1>5. l \in Summary
  BY <1>1, <1>2
<1> HIDE DEF l
<1>6. /\ saveAttemptResult(s, p) \in Stored
      /\ saveAttemptResult(s, p).currentSession = s.currentSession
      /\ saveAttemptResult(s, p).attemptsUsed = s.attemptsUsed
      /\ saveAttemptResult(s, p).best = b
      /\ saveAttemptResult(s, p).last = l
      /\ saveAttemptResult(s, p).timer = s.timer
  BY <1>3, <1>4, <1>5 DEF Stored
<1> QED
  BY <1>6 DEF l, b, r

LEMMA StartRegistered ==
  ASSUME NEW s \in Stored
  PROVE  /\ registerAttemptStart(s) \in Stored
         /\ registerAttemptStart(s).currentSession = s.currentSession
         /\ registerAttemptStart(s).attemptsUsed =
              IF TEST_DATA.maxAttempts = 0 THEN s.attemptsUsed ELSE s.attemptsUsed + 1
         /\ registerAttemptStart(s).best = s.best
         /\ registerAttemptStart(s).last = s.last
         /\ registerAttemptStart(s).timer = s.timer
BY DEF registerAttemptStart, Stored

LEMMA FreshFacts ==
  /\ FreshPage \in Page /\ FreshPage.phase = "start" /\ FreshPage.att = 0
  /\ FreshPage.currentIndex = 1 /\ FreshPage.answers = Untouched
  /\ FreshPage.questionStatuses = Unseen
  /\ FreshPage.submitted = FALSE /\ FreshPage.timing = FALSE
  /\ FreshPage.startSeconds = 0 /\ FreshPage.elapsed = 0
BY PackageAssumption
   DEF FreshPage, Page, Phases, Untouched, Unseen, Questions, Answers, Statuses

-----------------------------------------------------------------------------
(* The steps that several actions share                                     *)

(* What submit leaves: the results screen of the attempt, its answers in    *)
(* the checkpoint, no anchor.                                               *)
Handed(s, p) ==
  /\ sd' \in Stored /\ state' \in Page
  /\ sd'.currentSession = CheckpointOf(p) /\ sd'.timer = None
  /\ sd'.attemptsUsed = s.attemptsUsed /\ sd'.best = s.best /\ sd'.last = s.last
  /\ state'.phase = "question" /\ state'.submitted = TRUE /\ state'.timing = FALSE
  /\ state'.att = p.att
  /\ finished' = finished \cup {p.att}

LEMMA SubmitFacts ==
  ASSUME NEW s \in Stored, NEW p \in Page, p.currentIndex \in Questions, submit(s, p)
  PROVE  Handed(s, p)
<1> DEFINE c == saveCurrentSession(s, p)
<1>1. /\ c \in Stored /\ c.currentSession = CheckpointOf(p)
      /\ c.attemptsUsed = s.attemptsUsed /\ c.best = s.best /\ c.last = s.last
  BY SavedFacts
<1>2. sd' = clearTimerAnchor(c) /\ finished' = finished \cup {p.att}
  BY DEF submit
<1>3. state' = [p EXCEPT !.submitted = TRUE, !.timing = FALSE, !.phase = "question",
                         !.currentIndex = Size + 1]
  BY DEF submit
<1> HIDE DEF c
<1>4. /\ sd' \in Stored /\ sd'.currentSession = c.currentSession /\ sd'.timer = None
      /\ sd'.attemptsUsed = c.attemptsUsed /\ sd'.best = c.best /\ sd'.last = c.last
  BY <1>1, <1>2, UnanchoredFacts
<1>5. Size + 1 \in 1 .. Size + 1
  BY PackageAssumption
<1>6. /\ state' \in Page /\ state'.phase = "question" /\ state'.submitted = TRUE
      /\ state'.timing = FALSE /\ state'.att = p.att
  BY <1>3, <1>5 DEF Page, Phases
<1> QED
  BY <1>1, <1>2, <1>4, <1>6 DEF Handed

(* The time left when a timer is set up.                                    *)
Left(s) ==
  TEST_DATA.timeLimit - (IF Timed /\ CanRestoreTimer(s) THEN Consumed(s) ELSE 0)

(* What initTimer leaves of a run that goes on.                             *)
SetUp(s, p) ==
  /\ sd' \in Stored /\ state' \in Page
  /\ sd'.currentSession = s.currentSession
  /\ sd'.attemptsUsed = s.attemptsUsed /\ sd'.best = s.best /\ sd'.last = s.last
  /\ sd'.timer = IF Timed /\ ~CanRestoreTimer(s) /\ TEST_DATA.clock
                 THEN totalTime ELSE s.timer
  /\ state'.phase = p.phase /\ state'.att = p.att /\ state'.currentIndex = p.currentIndex
  /\ state'.answers = p.answers /\ state'.questionStatuses = p.questionStatuses
  /\ state'.submitted = p.submitted
  /\ state'.timing = Timed /\ state'.elapsed = 0 /\ state'.startSeconds = Left(s)
  /\ UNCHANGED finished

LEMMA TimerFacts ==
  ASSUME TypeOK, NEW s \in Stored, NEW p \in Page, p.currentIndex \in Questions,
         initTimer(s, p)
  PROVE  (Timed /\ Handed(s, p)) \/ SetUp(s, p)
<1>1. TEST_DATA.timeLimit \in Nat /\ totalTime \in Nat /\ s.timer \in {None} \cup Nat
  BY PackageAssumption, StoredFacts DEF TypeOK
<1>2. Left(s) \in Int
  <2>1. CASE Timed /\ CanRestoreTimer(s)
    <3>1. totalTime - s.timer \in Int
      BY <1>1, <2>1 DEF CanRestoreTimer
    <3>2. Consumed(s) \in Int
      BY <3>1, MaxZero DEF Consumed
    <3> QED
      BY <1>1, <2>1, <3>2 DEF Left
  <2>2. CASE ~(Timed /\ CanRestoreTimer(s))
    BY <1>1, <2>2 DEF Left
  <2> QED
    BY <2>1, <2>2
<1>3. CASE Timed /\ Left(s) <= 0
  <2>1. submit(s, p)
    BY <1>3 DEF initTimer, Left
  <2> QED
    BY <1>3, <2>1, SubmitFacts
<1>4. CASE ~(Timed /\ Left(s) <= 0)
  <2>1. /\ sd' = IF Timed /\ ~CanRestoreTimer(s) /\ TEST_DATA.clock
                 THEN [s EXCEPT !.timer = totalTime] ELSE s
        /\ state' = [p EXCEPT !.timing = Timed, !.elapsed = 0, !.startSeconds = Left(s)]
        /\ UNCHANGED finished
    BY <1>4 DEF initTimer, Left
  <2>2. /\ sd' \in Stored /\ sd'.currentSession = s.currentSession
        /\ sd'.attemptsUsed = s.attemptsUsed /\ sd'.best = s.best /\ sd'.last = s.last
        /\ sd'.timer = IF Timed /\ ~CanRestoreTimer(s) /\ TEST_DATA.clock
                       THEN totalTime ELSE s.timer
    BY <1>1, <2>1 DEF Stored
  <2>3. Timed \in BOOLEAN
    BY DEF Timed
  <2>4. /\ state' \in Page
        /\ state'.phase = p.phase /\ state'.att = p.att
        /\ state'.currentIndex = p.currentIndex
        /\ state'.answers = p.answers /\ state'.questionStatuses = p.questionStatuses
        /\ state'.submitted = p.submitted
        /\ state'.timing = Timed /\ state'.elapsed = 0 /\ state'.startSeconds = Left(s)
    BY <1>2, <2>1, <2>3 DEF Page
  <2> QED
    BY <2>1, <2>2, <2>4 DEF SetUp
<1> QED
  BY <1>3, <1>4

(* The end of the page.                                                     *)
LEMMA EndFacts ==
  ASSUME TypeOK, SessionEnds
  PROVE  /\ state' \in Page /\ state'.phase = "closed" /\ state'.att = 0
         /\ state'.submitted = FALSE /\ state'.timing = FALSE
         /\ totalTime' = totalTime + sessionTime /\ sessionTime' = 0
         /\ totalTime' \in Nat /\ lost' \in Nat
         /\ lost' >= lost
         /\ state.timing => lost' >= lost + (state.elapsed - sessionTime)
         /\ UNCHANGED <<TEST_DATA, boots, begun, finished, moved, spent, aged>>
<1>1. state' = [FreshPage EXCEPT !.phase = "closed"]
  BY DEF SessionEnds
<1>2. /\ state' \in Page /\ state'.phase = "closed" /\ state'.att = 0
      /\ state'.submitted = FALSE /\ state'.timing = FALSE
  BY <1>1, FreshFacts DEF Page, Phases
<1>3. /\ totalTime' = totalTime + sessionTime /\ sessionTime' = 0
      /\ UNCHANGED <<TEST_DATA, boots, begun, finished, moved, spent, aged>>
  BY DEF SessionEnds
<1>4. totalTime \in Nat /\ sessionTime \in Nat /\ lost \in Nat /\ state \in Page
  BY DEF TypeOK
<1>5. state.elapsed \in Nat /\ state.timing \in BOOLEAN
  BY <1>4 DEF Page
<1>6. lost' = lost + (IF state.timing THEN Max({0, state.elapsed - sessionTime}) ELSE 0)
  BY DEF SessionEnds
<1>7. state.elapsed - sessionTime \in Int
  BY <1>4, <1>5
<1>8. Max({0, state.elapsed - sessionTime}) =
        IF state.elapsed - sessionTime > 0 THEN state.elapsed - sessionTime ELSE 0
  BY <1>7, MaxZero
<1>9. /\ lost' \in Nat /\ lost' >= lost
      /\ state.timing => lost' >= lost + (state.elapsed - sessionTime)
  BY <1>4, <1>5, <1>6, <1>7, <1>8
<1> QED
  BY <1>2, <1>3, <1>4, <1>9

(* The first page of an attempt.                                            *)
LEMMA FirstPageFacts ==
  ASSUME NEW a \in Runs
  PROVE  /\ InRun(FirstPage(a))
         /\ FirstPage(a).att = a
         /\ FirstPage(a).answers = Untouched
         /\ FirstPage(a).phase \in {"content", "question"}
<1>1. a \in 0 .. MaxRuns /\ a \in 1 .. MaxRuns
  BY PackageAssumption DEF Runs
<1>2. 1 \in Questions
  BY PackageAssumption DEF Questions
<1>3. FirstPage(a) =
        [FreshPage EXCEPT !.phase = IF TEST_DATA.intro THEN "content" ELSE "question",
                          !.att = a]
  BY DEF FirstPage
<1>4. FirstPage(a) \in Page
  BY <1>1, <1>3, FreshFacts DEF Page, Phases
<1>5. /\ FirstPage(a).att = a /\ FirstPage(a).answers = Untouched
      /\ FirstPage(a).phase \in {"content", "question"}
      /\ FirstPage(a).currentIndex = 1 /\ ~FirstPage(a).submitted
  BY <1>3, FreshFacts DEF Page
<1> QED
  BY <1>1, <1>2, <1>4, <1>5 DEF InRun

(* The page a checkpoint is restored to.                                    *)
LEMMA RestoredFacts ==
  ASSUME NEW c \in Checkpoint, c.att # 0
  PROVE  /\ InRun(restored(c))
         /\ restored(c).phase = "question" /\ restored(c).att = c.att
         /\ restored(c).currentIndex = c.i
         /\ restored(c).answers = c.an /\ restored(c).questionStatuses = c.st
<1>1. /\ c.att \in 0 .. MaxRuns /\ c.att \in 1 .. MaxRuns /\ c.i \in Questions
      /\ c.an \in [Questions -> Answers] /\ c.st \in [Questions -> Statuses]
  BY PackageAssumption DEF Checkpoint
<1>2. restored(c) =
        [FreshPage EXCEPT !.phase = "question", !.att = c.att, !.currentIndex = c.i,
                          !.answers = c.an, !.questionStatuses = c.st]
  BY DEF restored
<1>3. c.i \in 1 .. Size + 1
  BY <1>1, PackageAssumption DEF Questions
<1>4. restored(c) \in Page
  BY <1>1, <1>2, <1>3, FreshFacts DEF Page, Phases
<1>5. /\ restored(c).phase = "question" /\ restored(c).att = c.att
      /\ restored(c).currentIndex = c.i /\ ~restored(c).submitted
      /\ restored(c).answers = c.an /\ restored(c).questionStatuses = c.st
  BY <1>2, FreshFacts DEF Page
<1> QED
  BY <1>1, <1>4, <1>5 DEF InRun

(* The page under way is a page in a run.                                   *)
LEMMA RunningFacts ==
  ASSUME TypeInv, Running
  PROVE  InRun(state) /\ state.att <= begun
<1>1. state.att \in 1 .. begun /\ begun \in 0 .. MaxRuns /\ state \in Page
  BY DEF TypeInv, TypeOK, PageInv, Running
<1>2. state.att \in 1 .. MaxRuns
  BY <1>1, PackageAssumption
<1> QED
  BY <1>1, <1>2 DEF TypeInv, PageInv, Running, InRun

(* What a page is, field by field.                                          *)
LEMMA PageFacts ==
  ASSUME NEW p \in Page
  PROVE  /\ p.phase \in Phases /\ p.att \in 0 .. MaxRuns /\ p.currentIndex \in 1 .. Size + 1
         /\ p.answers \in [Questions -> Answers]
         /\ p.questionStatuses \in [Questions -> Statuses]
         /\ p.submitted \in BOOLEAN /\ p.timing \in BOOLEAN
         /\ p.startSeconds \in Int /\ p.elapsed \in Nat
BY DEF Page

-----------------------------------------------------------------------------
(* Types                                                                    *)

LEMMA HandedPage ==
  ASSUME TypeOK, NEW s \in Stored, NEW p \in Page, InRun(p), Handed(s, p),
         begun' \in 0 .. MaxRuns, p.att <= begun'
  PROVE  PageInv' /\ finished' \subseteq Runs
<1>1. p.att \in 1 .. MaxRuns /\ p.att \in 1 .. begun' /\ finished \subseteq Runs
  BY DEF TypeOK, InRun
<1>2. finished' \subseteq Runs
  BY <1>1 DEF Handed, Runs
<1>3. sd'.currentSession.att = p.att
  BY DEF Handed, CheckpointOf
<1> QED
  BY <1>1, <1>2, <1>3 DEF Handed, PageInv, Running

LEMMA SetUpPage ==
  ASSUME TypeOK, NEW s \in Stored, NEW p \in Page, InRun(p), SetUp(s, p),
         begun' \in 0 .. MaxRuns, p.att <= begun', s.currentSession.att <= begun'
  PROVE  PageInv' /\ finished' \subseteq Runs
<1>1. p.att \in 1 .. MaxRuns /\ p.att \in 1 .. begun' /\ finished \subseteq Runs
  BY DEF TypeOK, InRun
<1>2. /\ state'.phase \in {"content", "question", "review"} /\ state'.att = p.att
      /\ state'.currentIndex \in Questions /\ state'.submitted = FALSE
      /\ sd'.currentSession = s.currentSession /\ finished' = finished
  BY PageFacts DEF SetUp, InRun
<1> QED
  BY <1>1, <1>2 DEF PageInv, Running

(* What a timer that is set up leaves is well typed.                        *)
LEMMA TimerTyped ==
  ASSUME TypeOK, NEW s \in Stored, NEW p \in Page, InRun(p), initTimer(s, p),
         begun' \in 0 .. MaxRuns, p.att <= begun', s.currentSession.att <= begun'
  PROVE  sd' \in Stored /\ state' \in Page /\ finished' \subseteq Runs /\ PageInv'
<1>1. p.currentIndex \in Questions
  BY DEF InRun
<1>2. (Timed /\ Handed(s, p)) \/ SetUp(s, p)
  BY <1>1, TimerFacts
<1>3. CASE Handed(s, p)
  BY <1>3, HandedPage DEF Handed
<1>4. CASE SetUp(s, p)
  BY <1>4, SetUpPage DEF SetUp
<1> QED
  BY <1>2, <1>3, <1>4

LEMMA TypeInit == Init => TypeInv
<1> SUFFICES ASSUME Init PROVE TypeInv
  OBVIOUS
<1>1. NoSummary \in Summary
  BY PackageAssumption DEF NoSummary, Summary
<1>2. NoCheckpoint \in Checkpoint /\ NoCheckpoint.att = 0
  BY PackageAssumption
     DEF NoCheckpoint, Checkpoint, Untouched, Unseen, Questions, Answers, Statuses
<1>3. sd \in Stored /\ sd.currentSession = NoCheckpoint
  BY <1>1, <1>2 DEF Init, Stored
<1>4. /\ state \in Page /\ state.phase = "closed" /\ state.att = 0
      /\ state.submitted = FALSE /\ state.timing = FALSE
  BY FreshFacts DEF Init, Page, Phases
<1>5. moved \in [Runs -> [Questions -> Answers]]
  BY DEF Init, Untouched, Answers
<1>6. results \in Seq([att : Runs, pc : 0 .. Size])
  BY DEF Init
<1>7. boots \in 0 .. MaxBoots /\ begun \in 0 .. MaxRuns
  BY PackageAssumption DEF Init
<1>8. TypeOK
  BY <1>3, <1>4, <1>5, <1>6, <1>7 DEF Init, TypeOK, Stored
<1>9. PageInv
  BY <1>2, <1>3, <1>4, <1>7 DEF PageInv, Running, Init
<1> QED
  BY <1>8, <1>9 DEF TypeInv

(* The parts of TypeOK that no operator of this section is about.           *)
Bookkeeping ==
  /\ TEST_DATA \in Tests
  /\ totalTime \in Nat /\ sessionTime \in Nat
  /\ boots \in 0 .. MaxBoots /\ begun \in 0 .. MaxRuns
  /\ results \in Seq([att : Runs, pc : 0 .. Size])
  /\ moved \in [Runs -> [Questions -> Answers]]
  /\ spent \in Nat /\ lost \in Nat /\ aged \in BOOLEAN

LEMMA TypeParts ==
  /\ TypeInv <=>
       Bookkeeping /\ sd \in Stored /\ state \in Page /\ finished \subseteq Runs /\ PageInv
  /\ Bookkeeping' /\ sd' \in Stored /\ state' \in Page /\ finished' \subseteq Runs /\ PageInv' =>
       TypeInv'
BY DEF TypeInv, TypeOK, Bookkeeping, Stored

(* A result that is appended is typed.                                      *)
LEMMA ResultAppended ==
  ASSUME TypeInv, state.submitted
  PROVE  Append(results, calculateResults(state)) \in Seq([att : Runs, pc : 0 .. Size])
<1>1. state \in Page /\ begun \in 0 .. MaxRuns /\ state.att \in 1 .. begun
  BY DEF TypeInv, TypeOK, PageInv
<1>2. state.att \in Runs
  BY <1>1, PackageAssumption DEF Runs
<1>3. calculateResults(state) \in [att : Runs, pc : 0 .. Size]
  BY <1>1, <1>2, ResultFacts DEF Summary
<1> QED
  BY <1>3 DEF TypeInv, TypeOK

LEMMA LaunchTyped ==
  ASSUME TypeInv, NEW stale \in BOOLEAN, Boot(stale)
  PROVE  TypeInv'
<1> DEFINE c == sd.currentSession
<1>1. /\ sd \in Stored /\ c \in Checkpoint /\ c.att <= begun /\ begun \in 0 .. MaxRuns
      /\ finished \subseteq Runs /\ boots \in 0 .. MaxBoots
  BY StoredFacts DEF TypeInv, TypeOK, Stored, PageInv
<1>2. Bookkeeping'
  BY <1>1, PackageAssumption DEF Boot, Bookkeeping, TypeInv, TypeOK
<1>3. begun' = begun /\ begun' \in 0 .. MaxRuns
  BY <1>1 DEF Boot
<1>4. CASE determineRecovery(stale) = "restore"
  <2>1. c.att # 0
    BY <1>4 DEF determineRecovery, NoCheckpoint
  <2>2. initTimer(sd, restored(c))
    BY <1>4 DEF Boot
  <2>3. InRun(restored(c)) /\ restored(c) \in Page /\ restored(c).att = c.att
    BY <1>1, <2>1, RestoredFacts DEF InRun
  <2> HIDE DEF c
  <2>4. sd' \in Stored /\ state' \in Page /\ finished' \subseteq Runs /\ PageInv'
    BY <1>1, <1>3, <2>2, <2>3, TimerTyped DEF TypeInv, c
  <2> QED
    BY <1>2, <2>4, TypeParts
<1>5. CASE determineRecovery(stale) # "restore"
  <2>1. /\ sd' = clearCurrentSession(sd) /\ finished' = finished
        /\ state' = FreshPage \/ state' = [FreshPage EXCEPT !.phase = "viewResults"]
    BY <1>5 DEF Boot, determineRecovery
  <2>2. sd' \in Stored /\ sd'.currentSession = NoCheckpoint
    BY <1>1, <2>1, ClearedFacts
  <2>3. /\ state' \in Page /\ state'.phase \in {"start", "viewResults"} /\ state'.att = 0
        /\ state'.submitted = FALSE /\ state'.timing = FALSE
    BY <2>1, FreshFacts DEF Page, Phases
  <2>4. PageInv'
    BY <1>3, <2>2, <2>3 DEF PageInv, Running, NoCheckpoint
  <2> QED
    BY <1>1, <1>2, <2>1, <2>2, <2>3, <2>4, TypeParts
<1> QED
  BY <1>4, <1>5

(* The page ends with a stored state that keeps or drops its checkpoint.    *)
LEMMA EndTyped ==
  ASSUME TypeInv, SessionEnds, sd' \in Stored, sd'.currentSession.att <= begun,
         results' \in Seq([att : Runs, pc : 0 .. Size])
  PROVE  TypeInv'
<1>1. /\ state' \in Page /\ state'.phase = "closed" /\ state'.att = 0
      /\ state'.submitted = FALSE /\ state'.timing = FALSE
      /\ totalTime' \in Nat /\ sessionTime' = 0 /\ lost' \in Nat
      /\ UNCHANGED <<TEST_DATA, boots, begun, finished, moved, spent, aged>>
  BY EndFacts DEF TypeInv
<1>2. Bookkeeping'
  BY <1>1 DEF Bookkeeping, TypeInv, TypeOK
<1>3. PageInv'
  BY <1>1 DEF PageInv, Running
<1>4. finished' \subseteq Runs
  BY <1>1 DEF TypeInv, TypeOK
<1> QED
  BY <1>1, <1>2, <1>3, <1>4, TypeParts

LEMMA EndingTyped ==
  ASSUME TypeInv, Kill \/ Close \/ finishAndClose
  PROVE  TypeInv'
<1>1. sd \in Stored /\ state \in Page /\ sd.currentSession.att <= begun /\ begun \in Nat
  BY DEF TypeInv, TypeOK, Stored, PageInv
<1>2. results \in Seq([att : Runs, pc : 0 .. Size])
  BY DEF TypeInv, TypeOK
<1>3. CASE UNCHANGED <<sd, results>> /\ SessionEnds
  BY <1>1, <1>2, <1>3, EndTyped
<1>4. CASE OnQuestion /\ sd' = saveCurrentSession(sd, state) /\ SessionEnds
           /\ UNCHANGED results
  <2>1. Running
    BY <1>4 DEF OnQuestion, Running
  <2>2. InRun(state) /\ state.att <= begun /\ state.currentIndex \in Questions
    BY <2>1, RunningFacts DEF InRun
  <2>3. sd' \in Stored /\ sd'.currentSession = CheckpointOf(state)
    BY <1>1, <1>4, <2>2, SavedFacts
  <2> QED
    BY <1>2, <1>4, <2>2, <2>3, EndTyped DEF CheckpointOf
<1>5. CASE /\ state.submitted /\ SessionEnds
           /\ sd' = clearCurrentSession(saveAttemptResult(sd, state))
           /\ results' = Append(results, calculateResults(state))
  <2>1. saveAttemptResult(sd, state) \in Stored
    BY <1>1, ResultSaved
  <2>2. sd' \in Stored /\ sd'.currentSession = NoCheckpoint
    BY <1>5, <2>1, ClearedFacts
  <2>3. results' \in Seq([att : Runs, pc : 0 .. Size])
    BY <1>5, ResultAppended
  <2> QED
    BY <1>1, <1>5, <2>2, <2>3, EndTyped DEF NoCheckpoint
<1> QED
  BY <1>3, <1>4, <1>5 DEF Kill, Close, finishAndClose, OnResults

(* An attempt begins over a stored state whose checkpoint is the present one. *)
LEMMA BeginTyped ==
  ASSUME TypeInv, NEW s \in Stored, s.currentSession = sd.currentSession, Begin(s),
         results' \in Seq([att : Runs, pc : 0 .. Size])
  PROVE  TypeInv'
<1> DEFINE r == registerAttemptStart(s)
           p == FirstPage(begun + 1)
<1>1. sd.currentSession.att <= begun /\ begun \in 0 .. MaxRuns /\ sd.currentSession.att \in Nat
  BY StoredFacts DEF TypeInv, TypeOK, PageInv, Checkpoint
<1>2. begun + 1 \in Runs /\ begun' = begun + 1 /\ begun' \in 0 .. MaxRuns
  BY <1>1, PackageAssumption DEF Begin, Runs
<1>3. Bookkeeping'
  BY <1>2 DEF Begin, Bookkeeping, TypeInv, TypeOK
<1>4. r \in Stored /\ r.currentSession = sd.currentSession
  BY StartRegistered
<1>5. InRun(p) /\ p \in Page /\ p.att = begun + 1
  BY <1>2, FirstPageFacts DEF InRun
<1>6. initTimer(r, p)
  BY DEF Begin
<1> HIDE DEF r, p
<1>7. r.currentSession.att <= begun' /\ p.att <= begun'
  BY <1>1, <1>2, <1>4, <1>5
<1>8. sd' \in Stored /\ state' \in Page /\ finished' \subseteq Runs /\ PageInv'
  BY <1>2, <1>4, <1>5, <1>6, <1>7, TimerTyped DEF TypeInv
<1> QED
  BY <1>3, <1>8, TypeParts

LEMMA StartTyped ==
  ASSUME TypeInv, startTest \/ restart
  PROVE  TypeInv'
<1>1. sd \in Stored /\ state \in Page /\ results \in Seq([att : Runs, pc : 0 .. Size])
  BY DEF TypeInv, TypeOK, Stored
<1>2. CASE startTest
  BY <1>1, <1>2, BeginTyped DEF startTest
<1>3. CASE restart /\ sd.attemptsUsed > 0
  <2> DEFINE s == saveAttemptResult(sd, state)
  <2>1. Begin(clearTimerAnchor(s)) /\ results' = Append(results, calculateResults(state))
        /\ state.submitted
    BY <1>3 DEF restart, OnResults
  <2>2. s \in Stored /\ s.currentSession = sd.currentSession
    BY <1>1, ResultSaved
  <2> HIDE DEF s
  <2>3. clearTimerAnchor(s) \in Stored
        /\ clearTimerAnchor(s).currentSession = sd.currentSession
    BY <2>2, UnanchoredFacts
  <2>4. results' \in Seq([att : Runs, pc : 0 .. Size])
    BY <2>1, ResultAppended
  <2> QED
    BY <2>1, <2>3, <2>4, BeginTyped
<1>4. CASE restart /\ ~(sd.attemptsUsed > 0)
  <2>1. Begin(clearTimerAnchor(sd)) /\ results' = results
    BY <1>4 DEF restart
  <2>2. clearTimerAnchor(sd) \in Stored
        /\ clearTimerAnchor(sd).currentSession = sd.currentSession
    BY <1>1, UnanchoredFacts
  <2> QED
    BY <1>1, <2>1, <2>2, BeginTyped
<1> QED
  BY <1>2, <1>3, <1>4

(* A step of the page that leaves the stored state and the books alone.     *)
LEMMA PageStepTyped ==
  ASSUME TypeInv, UNCHANGED <<TEST_DATA, lms, boots, history>>, state' \in Page, PageInv'
  PROVE  TypeInv'
<1>1. Bookkeeping' /\ sd' \in Stored /\ finished' \subseteq Runs
  BY TypeParts DEF lms, history, Bookkeeping
<1> QED
  BY <1>1, TypeParts

(* A step whose page stays in the run of the attempt.                       *)
LEMMA RunStepTyped ==
  ASSUME TypeInv, Bookkeeping', begun' = begun, finished' = finished,
         sd' \in Stored, sd'.currentSession.att <= begun, InRun(state'), state'.att <= begun
  PROVE  TypeInv'
<1>1. begun \in 0 .. MaxRuns /\ finished \subseteq Runs
  BY DEF TypeInv, TypeOK
<1>2. /\ state' \in Page /\ state'.phase \in {"content", "question", "review"}
      /\ state'.submitted = FALSE /\ state'.att \in 1 .. begun'
      /\ state'.currentIndex \in Questions
  BY <1>1, PageFacts DEF InRun
<1>3. PageInv'
  BY <1>2 DEF PageInv, Running
<1> QED
  BY <1>1, <1>2, <1>3, TypeParts

LEMMA ScreenTyped ==
  ASSUME TypeInv, viewSavedResults \/ backToStart
  PROVE  TypeInv'
<1>1. state \in Page /\ state.phase \in {"start", "viewResults"} /\ state.att = 0
      /\ ~state.submitted /\ ~state.timing /\ sd.currentSession.att <= begun
  BY DEF TypeInv, TypeOK, PageInv, viewSavedResults, backToStart
<1>2. /\ state' = [state EXCEPT !.phase = "viewResults"]
           \/ state' = [state EXCEPT !.phase = "start"]
      /\ UNCHANGED <<TEST_DATA, lms, boots, history>>
  BY DEF viewSavedResults, backToStart
<1>3. /\ state' \in Page /\ state'.phase \in {"start", "viewResults"} /\ state'.att = 0
      /\ state'.submitted = state.submitted /\ state'.timing = state.timing
  BY <1>1, <1>2 DEF Page, Phases
<1>4. PageInv'
  BY <1>1, <1>2, <1>3 DEF PageInv, Running, lms, history
<1> QED
  BY <1>2, <1>3, <1>4, PageStepTyped

(* The steps of the walk that only move the page or change an answer.       *)
Moves ==
  LeaveIntro \/ (\E v \in Answers \ {"none"} : select(v)) \/ goToReview
    \/ (\E q \in Questions : goToQuestionIndex(q))

(* What such a step changes.                                                *)
LEMMA MoveFacts ==
  ASSUME TypeInv, Moves
  PROVE  /\ Running /\ InRun(state')
         /\ state'.att = state.att /\ state'.questionStatuses = state.questionStatuses
         /\ state'.timing = state.timing /\ state'.elapsed = state.elapsed
         /\ state'.startSeconds = state.startSeconds
         /\ \A q \in Questions :
              state.questionStatuses[q] = "answered" => state'.answers[q] = state.answers[q]
         /\ UNCHANGED <<TEST_DATA, lms, boots, history>>
<1>1. Running
  BY DEF Moves, Running, LeaveIntro, select, goToReview, goToQuestionIndex, OnQuestion,
         TypeInv, PageInv
<1>2. InRun(state) /\ state \in Page
  BY <1>1, RunningFacts DEF InRun
<1>3. Questions \subseteq 1 .. Size + 1
  BY PackageAssumption DEF Questions
<1>4. CASE \E f \in {"question", "review"} :
             /\ state' = [state EXCEPT !.phase = f]
             /\ UNCHANGED <<TEST_DATA, lms, boots, history>>
  BY <1>1, <1>2, <1>4 DEF InRun, Page, Phases
<1>5. CASE \E q \in Questions : goToQuestionIndex(q)
  BY <1>1, <1>2, <1>3, <1>5 DEF InRun, Page, Phases, goToQuestionIndex
<1>6. CASE \E v \in Answers \ {"none"} : select(v)
  <2>1. PICK v \in Answers : select(v)
    BY <1>6
  <2> DEFINE k == state.currentIndex
             a == [state.answers EXCEPT ![k] = v]
  <2>2. k \in Questions /\ state.answers \in [Questions -> Answers]
    BY <1>2 DEF InRun, Page
  <2>3. state' = [state EXCEPT !.answers = a]
    BY <2>1, <2>2 DEF select, Page
  <2>4. a \in [Questions -> Answers]
        /\ \A q \in Questions : state.questionStatuses[q] = "answered" => a[q] = state.answers[q]
    BY <2>1, <2>2 DEF select
  <2> HIDE DEF a, k
  <2>5. InRun(state')
        /\ state'.att = state.att /\ state'.questionStatuses = state.questionStatuses
        /\ state'.timing = state.timing /\ state'.elapsed = state.elapsed
        /\ state'.startSeconds = state.startSeconds /\ state'.answers = a
    BY <1>2, <2>3, <2>4 DEF InRun, Page
  <2>6. UNCHANGED <<TEST_DATA, lms, boots, history>>
    BY <2>1 DEF select
  <2> QED
    BY <1>1, <2>4, <2>5, <2>6
<1> QED
  BY <1>4, <1>5, <1>6 DEF Moves, LeaveIntro, goToReview

LEMMA MoveTyped ==
  ASSUME TypeInv, Moves
  PROVE  TypeInv'
<1>1. /\ Running /\ InRun(state') /\ state'.att = state.att
      /\ UNCHANGED <<TEST_DATA, lms, boots, history>>
  BY MoveFacts
<1>2. state.att <= begun
  BY <1>1, RunningFacts
<1>3. Bookkeeping' /\ sd' \in Stored /\ sd'.currentSession.att <= begun
  BY <1>1, TypeParts DEF lms, history, Bookkeeping, PageInv
<1> QED
  BY <1>1, <1>2, <1>3, RunStepTyped DEF history

(* The page after the answer to the question that is current is fixed.      *)
Confirmed == [state EXCEPT !.questionStatuses[state.currentIndex] = "answered"]

(* ... and after its question is skipped.                                   *)
Skipped ==
  [state EXCEPT !.questionStatuses[state.currentIndex] = "skipped",
                !.answers[state.currentIndex] = "none"]

LEMMA ConfirmedFacts ==
  ASSUME TypeInv, OnQuestion
  PROVE  /\ InRun(Confirmed) /\ Confirmed.att = state.att /\ state.currentIndex \in Questions
         /\ Confirmed.phase = "question" /\ Confirmed.currentIndex = state.currentIndex
         /\ Confirmed.answers = state.answers
         /\ Confirmed.questionStatuses =
              [state.questionStatuses EXCEPT ![state.currentIndex] = "answered"]
         /\ Confirmed.timing = state.timing /\ Confirmed.elapsed = state.elapsed
         /\ Confirmed.startSeconds = state.startSeconds
<1>1. Running
  BY DEF OnQuestion, Running
<1>2. InRun(state) /\ state \in Page /\ state.currentIndex \in Questions
  BY <1>1, RunningFacts DEF InRun
<1> DEFINE t == [state.questionStatuses EXCEPT ![state.currentIndex] = "answered"]
<1>3. Confirmed = [state EXCEPT !.questionStatuses = t]
  BY DEF Confirmed
<1>4. t \in [Questions -> Statuses]
  BY <1>2 DEF Page, Statuses
<1> HIDE DEF t
<1>5. /\ InRun(Confirmed) /\ Confirmed.att = state.att
      /\ Confirmed.phase = "question" /\ Confirmed.currentIndex = state.currentIndex
      /\ Confirmed.answers = state.answers /\ Confirmed.questionStatuses = t
      /\ Confirmed.timing = state.timing /\ Confirmed.elapsed = state.elapsed
      /\ Confirmed.startSeconds = state.startSeconds
  BY <1>2, <1>3, <1>4 DEF InRun, Page, OnQuestion
<1> QED
  BY <1>2, <1>5 DEF t

LEMMA SkippedFacts ==
  ASSUME TypeInv, OnQuestion
  PROVE  /\ InRun(Skipped) /\ Skipped.att = state.att /\ state.currentIndex \in Questions
         /\ Skipped.phase = "question" /\ Skipped.currentIndex = state.currentIndex
         /\ Skipped.answers = [state.answers EXCEPT ![state.currentIndex] = "none"]
         /\ Skipped.questionStatuses =
              [state.questionStatuses EXCEPT ![state.currentIndex] = "skipped"]
         /\ Skipped.timing = state.timing /\ Skipped.elapsed = state.elapsed
         /\ Skipped.startSeconds = state.startSeconds
<1>1. Running
  BY DEF OnQuestion, Running
<1>2. InRun(state) /\ state \in Page /\ state.currentIndex \in Questions
  BY <1>1, RunningFacts DEF InRun
<1> DEFINE t == [state.questionStatuses EXCEPT ![state.currentIndex] = "skipped"]
           a == [state.answers EXCEPT ![state.currentIndex] = "none"]
<1>3. Skipped = [state EXCEPT !.questionStatuses = t, !.answers = a]
  BY <1>2 DEF Skipped, Page
<1>4. t \in [Questions -> Statuses] /\ a \in [Questions -> Answers]
  BY <1>2 DEF Page, Statuses, Answers
<1> HIDE DEF t, a
<1>5. /\ InRun(Skipped) /\ Skipped.att = state.att
      /\ Skipped.phase = "question" /\ Skipped.currentIndex = state.currentIndex
      /\ Skipped.answers = a /\ Skipped.questionStatuses = t
      /\ Skipped.timing = state.timing /\ Skipped.elapsed = state.elapsed
      /\ Skipped.startSeconds = state.startSeconds
  BY <1>2, <1>3, <1>4 DEF InRun, Page, OnQuestion
<1> QED
  BY <1>2, <1>5 DEF t, a

(* What going on to another screen of the run leaves: the answers are in    *)
(* the checkpoint, the page is still in the run.                            *)
GoneOn(p) ==
  /\ sd' \in Stored /\ InRun(state')
  /\ sd'.currentSession.att = p.att /\ sd'.currentSession.an = p.answers
  /\ sd'.currentSession.st = p.questionStatuses
  /\ sd'.attemptsUsed = sd.attemptsUsed /\ sd'.best = sd.best /\ sd'.last = sd.last
  /\ sd'.timer = sd.timer
  /\ state'.att = p.att /\ state'.answers = p.answers
  /\ state'.questionStatuses = p.questionStatuses
  /\ state'.timing = p.timing /\ state'.elapsed = p.elapsed
  /\ state'.startSeconds = p.startSeconds
  /\ finished' = finished

LEMMA AdvanceFacts ==
  ASSUME TypeInv, NEW p \in Page, InRun(p), p.phase = "question", advanceAfterCommit(p)
  PROVE  GoneOn(p) \/ Handed(sd, p)
<1>1. p.currentIndex \in Questions /\ sd \in Stored /\ p.currentIndex \in Int
  BY DEF TypeInv, TypeOK, Stored, InRun, Questions
<1>2. /\ saveCurrentSession(sd, p) \in Stored
      /\ saveCurrentSession(sd, p).currentSession.att = p.att
      /\ saveCurrentSession(sd, p).currentSession.an = p.answers
      /\ saveCurrentSession(sd, p).currentSession.st = p.questionStatuses
      /\ saveCurrentSession(sd, p).attemptsUsed = sd.attemptsUsed
      /\ saveCurrentSession(sd, p).best = sd.best
      /\ saveCurrentSession(sd, p).last = sd.last
      /\ saveCurrentSession(sd, p).timer = sd.timer
  BY <1>1, SavedFacts
<1>3. CASE p.currentIndex < Size
  <2>1. /\ sd' = saveCurrentSession(sd, p) /\ finished' = finished
        /\ state' = [p EXCEPT !.currentIndex = p.currentIndex + 1]
    BY <1>3 DEF advanceAfterCommit
  <2>2. p.currentIndex + 1 \in Questions /\ p.currentIndex + 1 \in 1 .. Size + 1
    BY <1>1, <1>3, PackageAssumption DEF Questions
  <2> QED
    BY <1>2, <2>1, <2>2 DEF GoneOn, InRun, Page
<1>4. CASE /\ sd' = saveCurrentSession(sd, p) /\ finished' = finished
           /\ state' = [p EXCEPT !.phase = "review"]
  <2>1. InRun(state')
    BY <1>4 DEF InRun, Page, Phases
  <2>2. /\ state'.att = p.att /\ state'.answers = p.answers
        /\ state'.questionStatuses = p.questionStatuses
        /\ state'.timing = p.timing /\ state'.elapsed = p.elapsed
        /\ state'.startSeconds = p.startSeconds
    BY <1>4 DEF Page
  <2> QED
    BY <1>2, <1>4, <2>1, <2>2 DEF GoneOn
<1>5. CASE submit(sd, p)
  BY <1>1, <1>5, SubmitFacts
<1> QED
  BY <1>3, <1>4, <1>5 DEF advanceAfterCommit

(* The walk's steps that save the answers: what page they save, what they   *)
(* leave, and what they fix of the answers.                                 *)
Commits == confirmAnswer \/ next \/ skipQuestion \/ goBack

WalkBooks ==
  UNCHANGED <<TEST_DATA, totalTime, sessionTime, boots, begun, results, spent, lost, aged>>

LEMMA CommitFacts ==
  ASSUME TypeInv, Commits
  PROVE  /\ Running /\ WalkBooks /\ state.currentIndex \in Questions
         /\ \/ /\ GoneOn(Confirmed) \/ Handed(sd, Confirmed)
               /\ moved' = [moved EXCEPT ![state.att][state.currentIndex] =
                                           state.answers[state.currentIndex]]
            \/ /\ GoneOn(Skipped) \/ Handed(sd, Skipped)
               /\ state.questionStatuses[state.currentIndex] # "answered"
               /\ moved' = moved
            \/ GoneOn(state) /\ moved' = moved
<1>1. OnQuestion
  BY DEF Commits, confirmAnswer, next, skipQuestion, goBack
<1>2. Running
  BY <1>1 DEF OnQuestion, Running
<1>3. InRun(state) /\ state \in Page /\ sd \in Stored
  BY <1>2, RunningFacts DEF InRun, TypeInv, TypeOK, Stored
<1>4. /\ InRun(Confirmed) /\ Confirmed.phase = "question" /\ Confirmed \in Page
      /\ state.currentIndex \in Questions
  BY <1>1, ConfirmedFacts DEF InRun
<1>5. CASE confirmAnswer
  <2>1. /\ state' = Confirmed /\ sd' = saveCurrentSession(sd, Confirmed)
        /\ moved' = [moved EXCEPT ![state.att][state.currentIndex] =
                                    state.answers[state.currentIndex]]
        /\ WalkBooks /\ finished' = finished
    BY <1>5 DEF confirmAnswer, Confirmed, WalkBooks
  <2>2. Confirmed.currentIndex \in Questions
    BY <1>4 DEF InRun
  <2>3. GoneOn(Confirmed)
    BY <1>3, <1>4, <2>1, <2>2, SavedFacts DEF GoneOn
  <2> QED
    BY <1>2, <1>4, <2>1, <2>3
<1>6. CASE next
  <2>1. /\ advanceAfterCommit(Confirmed) /\ WalkBooks
        /\ moved' = [moved EXCEPT ![state.att][state.currentIndex] =
                                    state.answers[state.currentIndex]]
    BY <1>6 DEF next, Confirmed, WalkBooks
  <2> QED
    BY <1>2, <1>4, <2>1, AdvanceFacts
<1>7. CASE skipQuestion
  <2>1. /\ advanceAfterCommit(Skipped) /\ WalkBooks /\ moved' = moved
        /\ state.questionStatuses[state.currentIndex] # "answered"
    BY <1>7 DEF skipQuestion, Skipped, WalkBooks
  <2>2. InRun(Skipped) /\ Skipped.phase = "question" /\ Skipped \in Page
    BY <1>1, SkippedFacts DEF InRun
  <2> QED
    BY <1>2, <1>4, <2>1, <2>2, AdvanceFacts
<1>8. CASE goBack
  <2> DEFINE p == [state EXCEPT !.currentIndex = state.currentIndex - 1]
  <2>1. /\ state' = p /\ sd' = saveCurrentSession(sd, p)
        /\ state.currentIndex > 1
        /\ UNCHANGED <<TEST_DATA, totalTime, sessionTime, boots, history>>
    BY <1>8 DEF goBack
  <2>2. state.currentIndex - 1 \in Questions /\ state.currentIndex - 1 \in 1 .. Size + 1
    BY <1>4, <2>1, PackageAssumption DEF Questions
  <2>3. /\ InRun(p) /\ p \in Page /\ p.currentIndex \in Questions
        /\ p.att = state.att /\ p.answers = state.answers
        /\ p.questionStatuses = state.questionStatuses
        /\ p.timing = state.timing /\ p.elapsed = state.elapsed
        /\ p.startSeconds = state.startSeconds
    BY <1>3, <2>2 DEF InRun, Page
  <2> HIDE DEF p
  <2>4. GoneOn(state)
    BY <1>3, <2>1, <2>3, SavedFacts DEF GoneOn, history
  <2>5. WalkBooks /\ moved' = moved
    BY <2>1 DEF WalkBooks, history
  <2> QED
    BY <1>2, <1>4, <2>4, <2>5
<1> QED
  BY <1>5, <1>6, <1>7, <1>8 DEF Commits

LEMMA CommitTyped ==
  ASSUME TypeInv, Commits
  PROVE  TypeInv'
<1>1. /\ Running /\ WalkBooks /\ state.currentIndex \in Questions
      /\ \/ /\ GoneOn(Confirmed) \/ Handed(sd, Confirmed)
            /\ moved' = [moved EXCEPT ![state.att][state.currentIndex] =
                                        state.answers[state.currentIndex]]
         \/ (GoneOn(Skipped) \/ Handed(sd, Skipped)) /\ moved' = moved
         \/ GoneOn(state) /\ moved' = moved
  BY CommitFacts
<1>2. /\ InRun(state) /\ state \in Page /\ state.att <= begun /\ sd \in Stored
      /\ begun \in 0 .. MaxRuns
  BY <1>1, RunningFacts DEF InRun, TypeInv, TypeOK, Stored
<1>3. moved' \in [Runs -> [Questions -> Answers]]
  <2>1. moved \in [Runs -> [Questions -> Answers]]
    BY DEF TypeInv, TypeOK
  <2>2. state.answers[state.currentIndex] \in Answers /\ state.att \in Runs
    BY <1>1, <1>2 DEF Page, InRun, Runs
  <2> QED
    BY <1>1, <2>1, <2>2
<1>4. Bookkeeping' /\ begun' = begun
  BY <1>1, <1>3 DEF WalkBooks, Bookkeeping, TypeInv, TypeOK
<1>5. ASSUME NEW p \in Page, GoneOn(p), p.att = state.att
      PROVE  TypeInv'
  <2>1. sd' \in Stored /\ sd'.currentSession.att <= begun /\ finished' = finished
        /\ InRun(state') /\ state'.att <= begun
    BY <1>2, <1>5 DEF GoneOn
  <2> QED
    BY <1>4, <2>1, RunStepTyped
<1>6. ASSUME NEW p \in Page, InRun(p), Handed(sd, p), p.att = state.att
      PROVE  TypeInv'
  <2>1. PageInv' /\ finished' \subseteq Runs
    BY <1>2, <1>4, <1>6, HandedPage DEF TypeInv
  <2> QED
    BY <1>4, <1>6, <2>1, TypeParts DEF Handed
<1>7. CASE Commits /\ OnQuestion
  <2>1. /\ InRun(Confirmed) /\ Confirmed \in Page /\ Confirmed.att = state.att
        /\ InRun(Skipped) /\ Skipped \in Page /\ Skipped.att = state.att
    BY <1>7, ConfirmedFacts, SkippedFacts DEF InRun
  <2> QED
    BY <1>1, <1>2, <1>5, <1>6, <2>1
<1> QED
  BY <1>7 DEF Commits, confirmAnswer, next, skipQuestion, goBack

(* The test is handed in by the learner.                                    *)
LEMMA FinishFacts ==
  ASSUME TypeInv, Finish
  PROVE  Running /\ Handed(sd, state) /\ WalkBooks /\ moved' = moved
<1>1. Running
  BY DEF Finish, OnQuestion, Running, TypeInv, PageInv
<1>2. InRun(state) /\ state \in Page /\ state.currentIndex \in Questions /\ sd \in Stored
  BY <1>1, RunningFacts DEF InRun, TypeInv, TypeOK, Stored
<1>3. submit(sd, state) /\ WalkBooks /\ moved' = moved
  BY DEF Finish, WalkBooks
<1> QED
  BY <1>1, <1>2, <1>3, SubmitFacts

(* A unit of time: it is counted, or the test is handed in by the clock.    *)
LEMMA TickFacts ==
  ASSUME TypeInv, Tick
  PROVE  /\ Running /\ state.timing /\ spent' = spent + 1
         /\ UNCHANGED <<TEST_DATA, totalTime, sessionTime, boots, begun, results, moved,
                        lost, aged>>
         /\ \/ Handed(sd, state)
            \/ /\ InRun(state') /\ sd' = sd /\ finished' = finished
               /\ state'.att = state.att /\ state'.answers = state.answers
               /\ state'.questionStatuses = state.questionStatuses
               /\ state'.timing = state.timing
               /\ state'.elapsed = state.elapsed + 1
               /\ state'.startSeconds = state.startSeconds
<1> DEFINE p == [state EXCEPT !.elapsed = state.elapsed + 1]
<1>1. Running /\ state.timing
  BY DEF Tick, Running, TypeInv, PageInv, TypeOK, Page, Phases
<1>2. InRun(state) /\ state \in Page /\ state.currentIndex \in Questions /\ sd \in Stored
      /\ state.elapsed \in Nat
  BY <1>1, RunningFacts, PageFacts DEF InRun, TypeInv, TypeOK, Stored
<1>3. /\ spent' = spent + 1
      /\ UNCHANGED <<TEST_DATA, totalTime, sessionTime, boots, begun, results, moved,
                     lost, aged>>
      /\ submit(sd, p) \/ (state' = p /\ sd' = sd /\ finished' = finished)
  BY DEF Tick
<1>4. /\ InRun(p) /\ p \in Page /\ p.currentIndex \in Questions
      /\ p.att = state.att /\ p.answers = state.answers
      /\ p.currentIndex = state.currentIndex
      /\ p.questionStatuses = state.questionStatuses
      /\ p.timing = state.timing /\ p.elapsed = state.elapsed + 1
      /\ p.startSeconds = state.startSeconds
  BY <1>2 DEF InRun, Page
<1> HIDE DEF p
<1>5. CASE submit(sd, p)
  <2>1. Handed(sd, p)
    BY <1>2, <1>4, <1>5, SubmitFacts
  <2>2. CheckpointOf(p) = CheckpointOf(state)
    BY <1>4 DEF CheckpointOf
  <2>3. Handed(sd, state)
    BY <1>4, <2>1, <2>2 DEF Handed
  <2> QED
    BY <1>1, <1>3, <2>3
<1>6. CASE state' = p /\ sd' = sd /\ finished' = finished
  BY <1>1, <1>3, <1>4, <1>6
<1> QED
  BY <1>3, <1>5, <1>6

LEMMA FinishTyped ==
  ASSUME TypeInv, Finish \/ Tick
  PROVE  TypeInv'
<1>1. Running
  BY FinishFacts, TickFacts
<1>2. /\ InRun(state) /\ state \in Page /\ state.att <= begun /\ sd \in Stored
      /\ begun \in 0 .. MaxRuns /\ spent \in Nat
  BY <1>1, RunningFacts DEF InRun, TypeInv, TypeOK, Stored
<1>3. Bookkeeping' /\ begun' = begun
  <2>1. CASE Finish
    BY <2>1, FinishFacts DEF WalkBooks, Bookkeeping, TypeInv, TypeOK
  <2>2. CASE Tick
    BY <1>2, <2>2, TickFacts DEF Bookkeeping, TypeInv, TypeOK
  <2> QED
    BY <2>1, <2>2
<1>4. CASE Handed(sd, state)
  <2>1. PageInv' /\ finished' \subseteq Runs
    BY <1>2, <1>3, <1>4, HandedPage DEF TypeInv
  <2> QED
    BY <1>3, <1>4, <2>1, TypeParts DEF Handed
<1>5. CASE InRun(state') /\ sd' = sd /\ finished' = finished /\ state'.att = state.att
  <2>1. sd'.currentSession.att <= begun
    BY <1>5 DEF TypeInv, PageInv
  <2> QED
    BY <1>2, <1>3, <1>5, <2>1, RunStepTyped
<1> QED
  BY <1>4, <1>5, FinishFacts, TickFacts

LEMMA TypeNext == TypeInv /\ [Next]_vars => TypeInv'
<1> SUFFICES ASSUME TypeInv, [Next]_vars PROVE TypeInv'
  OBVIOUS
<1>1. CASE Launches
  BY <1>1, LaunchTyped, EndingTyped DEF Launches
<1>2. CASE Screens
  BY <1>2, StartTyped, ScreenTyped DEF Screens
<1>3. CASE Walk
  BY <1>3, MoveTyped, CommitTyped, FinishTyped DEF Walk, Moves, Commits
<1>4. CASE Tick
  BY <1>4, FinishTyped
<1>5. CASE commitSessionTime
  <2>1. /\ sessionTime' = state.elapsed /\ state.elapsed \in Nat
        /\ UNCHANGED <<TEST_DATA, sd, totalTime, state, boots, history>>
    BY <1>5, PageFacts DEF commitSessionTime, TypeInv, TypeOK
  <2>2. Bookkeeping' /\ finished' = finished
    BY <2>1 DEF Bookkeeping, TypeInv, TypeOK, history
  <2>3. PageInv'
    BY <2>1 DEF PageInv, Running, history, TypeInv
  <2> QED
    BY <2>1, <2>2, <2>3, TypeParts
<1>6. CASE UNCHANGED vars
  <2>1. Bookkeeping' /\ finished' = finished /\ PageInv' /\ sd' = sd /\ state' = state
    BY <1>6 DEF Bookkeeping, TypeInv, TypeOK, history, vars, lms, PageInv, Running
  <2> QED
    BY <2>1, TypeParts
<1> QED
  BY <1>1, <1>2, <1>3, <1>4, <1>5, <1>6 DEF Next

LEMMA Typed == Spec => []TypeInv
<1>1. TypeInv /\ [Next]_vars => TypeInv'
  BY TypeNext
<1> QED
  BY <1>1, TypeInit, PTL DEF Spec

(* Every variable keeps its type, through every launch, crash and result.   *)
THEOREM TypeCorrect == Spec => []TypeOK
<1>1. TypeInv => TypeOK
  BY DEF TypeInv
<1> QED
  BY <1>1, Typed, PTL

-----------------------------------------------------------------------------
(* What launches, ends of the page and starts do                            *)

LEMMA BootFacts ==
  ASSUME TypeInv, NEW stale \in BOOLEAN, Boot(stale)
  PROVE  /\ state.phase = "closed"
         /\ aged' = (aged \/ (stale /\ sd.currentSession.att # 0))
         /\ UNCHANGED <<TEST_DATA, totalTime, sessionTime, begun, results, moved, spent, lost>>
         /\ \/ /\ sd.currentSession.att # 0 /\ ~stale
               /\ Timed => CanRestoreTimer(sd)
               /\ \/ Timed /\ Handed(sd, restored(sd.currentSession))
                  \/ SetUp(sd, restored(sd.currentSession))
            \/ /\ sd.currentSession.att = 0 \/ stale \/ Timed
               /\ sd'.currentSession = NoCheckpoint /\ sd'.timer = sd.timer
               /\ sd'.attemptsUsed = sd.attemptsUsed
               /\ sd'.best = sd.best /\ sd'.last = sd.last
               /\ state'.phase \in {"start", "viewResults"}
               /\ state'.submitted = FALSE /\ state'.timing = FALSE
               /\ finished' = finished
<1> DEFINE c == sd.currentSession
<1>1. sd \in Stored /\ c \in Checkpoint
  BY StoredFacts DEF TypeInv, TypeOK, Stored
<1>2. /\ state.phase = "closed"
      /\ aged' = (aged \/ (stale /\ c.att # 0))
      /\ UNCHANGED <<TEST_DATA, totalTime, sessionTime, begun, results, moved, spent, lost>>
  BY DEF Boot
<1>3. CASE determineRecovery(stale) = "restore"
  <2>1. ~stale /\ c.att # 0 /\ (Timed => CanRestoreTimer(sd))
    BY <1>3 DEF determineRecovery, NoCheckpoint
  <2>2. initTimer(sd, restored(c))
    BY <1>3 DEF Boot
  <2> HIDE DEF c
  <2>3. restored(c) \in Page /\ restored(c).currentIndex \in Questions
    BY <1>1, <2>1, RestoredFacts DEF InRun
  <2>4. (Timed /\ Handed(sd, restored(c))) \/ SetUp(sd, restored(c))
    BY <1>1, <2>2, <2>3, TimerFacts DEF TypeInv, c
  <2> QED
    BY <1>2, <2>1, <2>4 DEF c
<1>4. CASE determineRecovery(stale) # "restore"
  <2>1. c.att = 0 \/ stale \/ Timed
    BY <1>4 DEF determineRecovery, NoCheckpoint
  <2>2. /\ sd' = clearCurrentSession(sd) /\ finished' = finished
        /\ state' = FreshPage \/ state' = [FreshPage EXCEPT !.phase = "viewResults"]
    BY <1>4 DEF Boot, determineRecovery
  <2>3. /\ sd'.currentSession = NoCheckpoint /\ sd'.timer = sd.timer
        /\ sd'.attemptsUsed = sd.attemptsUsed
        /\ sd'.best = sd.best /\ sd'.last = sd.last
    BY <1>1, <2>2, ClearedFacts
  <2>4. /\ state'.phase \in {"start", "viewResults"}
        /\ state'.submitted = FALSE /\ state'.timing = FALSE
    BY <2>2, FreshFacts DEF Page, Phases
  <2> QED
    BY <1>2, <2>1, <2>2, <2>3, <2>4
<1> QED
  BY <1>3, <1>4

(* The result on the screen is saved in stored state s.                     *)
Banked(s) ==
  /\ state.submitted
  /\ s.best = pickBest(sd.best, calculateResults(state))
  /\ s.last = IF pickBest(sd.best, calculateResults(state)) = calculateResults(state)
              THEN NoSummary ELSE calculateResults(state)
  /\ results' = Append(results, calculateResults(state))

(* No result is saved.                                                      *)
Unbanked(s) == s.best = sd.best /\ s.last = sd.last /\ results' = results

LEMMA EndingFacts ==
  ASSUME TypeInv, Kill \/ Close \/ finishAndClose
  PROVE  /\ SessionEnds
         /\ sd'.timer = sd.timer /\ sd'.attemptsUsed = sd.attemptsUsed
         /\ \/ sd'.currentSession = sd.currentSession /\ Unbanked(sd')
            \/ /\ Running /\ Unbanked(sd')
               /\ sd'.currentSession.att = state.att
               /\ sd'.currentSession.an = state.answers
               /\ sd'.currentSession.st = state.questionStatuses
            \/ sd'.currentSession = NoCheckpoint /\ Banked(sd')
<1>1. sd \in Stored /\ state \in Page
  BY DEF TypeInv, TypeOK, Stored
<1>2. CASE UNCHANGED <<sd, results>> /\ SessionEnds
  BY <1>2 DEF Unbanked
<1>3. CASE OnQuestion /\ sd' = saveCurrentSession(sd, state) /\ SessionEnds
           /\ UNCHANGED results
  <2>1. Running
    BY <1>3 DEF OnQuestion, Running
  <2>2. state.currentIndex \in Questions
    BY <2>1, RunningFacts DEF InRun
  <2> QED
    BY <1>1, <1>3, <2>1, <2>2, SavedFacts DEF Unbanked
<1>4. CASE /\ state.submitted /\ SessionEnds
           /\ sd' = clearCurrentSession(saveAttemptResult(sd, state))
           /\ results' = Append(results, calculateResults(state))
  <2> DEFINE s == saveAttemptResult(sd, state)
  <2>1. /\ s \in Stored /\ s.attemptsUsed = sd.attemptsUsed /\ s.timer = sd.timer
        /\ s.best = pickBest(sd.best, calculateResults(state))
        /\ s.last = IF pickBest(sd.best, calculateResults(state)) = calculateResults(state)
                    THEN NoSummary ELSE calculateResults(state)
    BY <1>1, ResultSaved
  <2>2. sd' = clearCurrentSession(s)
    BY <1>4
  <2> HIDE DEF s
  <2>3. /\ sd'.currentSession = NoCheckpoint
        /\ sd'.attemptsUsed = s.attemptsUsed /\ sd'.timer = s.timer
        /\ sd'.best = s.best /\ sd'.last = s.last
    BY <2>1, <2>2, ClearedFacts
  <2> QED
    BY <1>4, <2>1, <2>3 DEF Banked
<1> QED
  BY <1>2, <1>3, <1>4 DEF Kill, Close, finishAndClose, OnResults

(* What beginning an attempt over stored state s leaves.                    *)
Begun(s) ==
  /\ hasAttemptsLeft(sd)
  /\ begun + 1 \in Runs /\ begun' = begun + 1 /\ spent' = 0 /\ lost' = 0
  /\ UNCHANGED <<TEST_DATA, totalTime, sessionTime, boots, moved, aged>>
  /\ registerAttemptStart(s) \in Stored
  /\ FirstPage(begun + 1) \in Page
  /\ \/ Timed /\ Handed(registerAttemptStart(s), FirstPage(begun + 1))
     \/ SetUp(registerAttemptStart(s), FirstPage(begun + 1))

LEMMA BeginFacts ==
  ASSUME TypeInv, NEW s \in Stored, Begin(s)
  PROVE  Begun(s)
<1> DEFINE r == registerAttemptStart(s)
           p == FirstPage(begun + 1)
<1>1. begun \in 0 .. MaxRuns
  BY DEF TypeInv, TypeOK
<1>2. /\ hasAttemptsLeft(sd)
      /\ begun + 1 \in Runs /\ begun' = begun + 1 /\ spent' = 0 /\ lost' = 0
      /\ UNCHANGED <<TEST_DATA, totalTime, sessionTime, boots, moved, aged>>
  BY <1>1, PackageAssumption DEF Begin, Runs
<1>3. r \in Stored
  BY StartRegistered
<1>4. p \in Page /\ p.currentIndex \in Questions
  BY <1>2, FirstPageFacts DEF InRun
<1>5. initTimer(r, p)
  BY DEF Begin
<1> HIDE DEF r, p
<1>6. (Timed /\ Handed(r, p)) \/ SetUp(r, p)
  BY <1>3, <1>4, <1>5, TimerFacts DEF TypeInv
<1> QED
  BY <1>2, <1>3, <1>4, <1>6 DEF Begun, r, p

(* A start keeps the checkpoint; it saves the finished attempt it replaces  *)
(* where attempts are counted.                                              *)
LEMMA StartFacts ==
  ASSUME TypeInv, startTest \/ restart
  PROVE  \E s \in Stored :
           /\ Begun(s)
           /\ s.currentSession = sd.currentSession /\ s.attemptsUsed = sd.attemptsUsed
           /\ s.timer = sd.timer \/ s.timer = None
           /\ \/ state.phase = "start" /\ Unbanked(s)
              \/ state.submitted /\ sd.attemptsUsed > 0 /\ Banked(s)
              \/ state.submitted /\ ~(sd.attemptsUsed > 0) /\ Unbanked(s)
<1>1. sd \in Stored /\ state \in Page
  BY DEF TypeInv, TypeOK, Stored
<1>2. CASE startTest
  <2>1. Begun(sd)
    BY <1>1, <1>2, BeginFacts DEF startTest
  <2>2. state.phase = "start" /\ Unbanked(sd)
    BY <1>2 DEF startTest, Unbanked
  <2> QED
    BY <1>1, <2>1, <2>2
<1>3. CASE restart /\ sd.attemptsUsed > 0
  <2> DEFINE s == saveAttemptResult(sd, state)
             t == clearTimerAnchor(s)
  <2>1. Begin(t) /\ results' = Append(results, calculateResults(state)) /\ state.submitted
    BY <1>3 DEF restart, OnResults
  <2>2. /\ s \in Stored /\ s.currentSession = sd.currentSession
        /\ s.attemptsUsed = sd.attemptsUsed
        /\ s.best = pickBest(sd.best, calculateResults(state))
        /\ s.last = IF pickBest(sd.best, calculateResults(state)) = calculateResults(state)
                    THEN NoSummary ELSE calculateResults(state)
    BY <1>1, ResultSaved
  <2> HIDE DEF s
  <2>3. /\ t \in Stored /\ t.currentSession = s.currentSession
        /\ t.attemptsUsed = s.attemptsUsed /\ t.timer = None
        /\ t.best = s.best /\ t.last = s.last
    BY <2>2, UnanchoredFacts
  <2> HIDE DEF t
  <2>4. Begun(t) /\ Banked(t)
    BY <2>1, <2>2, <2>3, BeginFacts DEF Banked
  <2> QED
    BY <1>3, <2>1, <2>2, <2>3, <2>4
<1>4. CASE restart /\ ~(sd.attemptsUsed > 0)
  <2> DEFINE t == clearTimerAnchor(sd)
  <2>1. Begin(t) /\ results' = results /\ state.submitted
    BY <1>4 DEF restart, OnResults
  <2>2. /\ t \in Stored /\ t.currentSession = sd.currentSession
        /\ t.attemptsUsed = sd.attemptsUsed /\ t.timer = None
        /\ t.best = sd.best /\ t.last = sd.last
    BY <1>1, UnanchoredFacts
  <2> HIDE DEF t
  <2>3. Begun(t) /\ Unbanked(t)
    BY <2>1, <2>2, BeginFacts DEF Unbanked
  <2> QED
    BY <1>4, <2>1, <2>2, <2>3
<1> QED
  BY <1>2, <1>3, <1>4

(* The stored state after a start.                                          *)
LEMMA BegunFacts ==
  ASSUME NEW s \in Stored, Begun(s)
  PROVE  /\ sd'.best = s.best /\ sd'.last = s.last
         /\ sd'.attemptsUsed =
              IF TEST_DATA.maxAttempts = 0 THEN s.attemptsUsed ELSE s.attemptsUsed + 1
<1> DEFINE r == registerAttemptStart(s)
<1>1. r.best = s.best /\ r.last = s.last
      /\ r.attemptsUsed =
           IF TEST_DATA.maxAttempts = 0 THEN s.attemptsUsed ELSE s.attemptsUsed + 1
  BY StartRegistered
<1>2. sd'.best = r.best /\ sd'.last = r.last /\ sd'.attemptsUsed = r.attemptsUsed
  BY DEF Begun, Handed, SetUp
<1> QED
  BY <1>1, <1>2

-----------------------------------------------------------------------------
(* Attempts and results                                                     *)

(* What a step does to the counts ...                                       *)
Counted ==
  \/ UNCHANGED begun /\ sd'.attemptsUsed = sd.attemptsUsed
  \/ /\ hasAttemptsLeft(sd) /\ begun' = begun + 1
     /\ sd'.attemptsUsed =
          IF TEST_DATA.maxAttempts = 0 THEN sd.attemptsUsed ELSE sd.attemptsUsed + 1

(* ... and to the results.                                                  *)
LEMMA BooksKept ==
  ASSUME TypeInv, [Next]_vars
  PROVE  UNCHANGED TEST_DATA /\ Counted /\ (Banked(sd') \/ Unbanked(sd'))
<1>1. CASE \E stale \in BOOLEAN : Boot(stale)
  <2>1. /\ UNCHANGED <<TEST_DATA, begun, results>>
        /\ sd'.attemptsUsed = sd.attemptsUsed /\ sd'.best = sd.best /\ sd'.last = sd.last
    BY <1>1, BootFacts DEF Handed, SetUp
  <2> QED
    BY <2>1 DEF Counted, Unbanked
<1>2. CASE Kill \/ Close \/ finishAndClose
  <2>1. UNCHANGED <<TEST_DATA, begun>>
    BY <1>2, EndingFacts DEF SessionEnds
  <2> QED
    BY <1>2, <2>1, EndingFacts DEF Counted
<1>3. CASE startTest \/ restart
  <2>1. PICK s \in Stored :
           /\ Begun(s) /\ s.attemptsUsed = sd.attemptsUsed
           /\ Banked(s) \/ Unbanked(s)
    BY <1>3, StartFacts
  <2>2. UNCHANGED TEST_DATA /\ Counted
    BY <2>1, BegunFacts DEF Counted, Begun
  <2>3. Banked(sd') \/ Unbanked(sd')
    BY <2>1, BegunFacts DEF Banked, Unbanked
  <2> QED
    BY <2>2, <2>3
<1>4. CASE UNCHANGED <<TEST_DATA, sd, begun, results>>
  BY <1>4 DEF Counted, Unbanked
<1>5. CASE Commits
  <2>1. WalkBooks /\ sd'.attemptsUsed = sd.attemptsUsed
        /\ sd'.best = sd.best /\ sd'.last = sd.last
    BY <1>5, CommitFacts DEF GoneOn, Handed
  <2> QED
    BY <2>1 DEF Counted, Unbanked, WalkBooks
<1>6. CASE Finish \/ Tick
  <2>1. UNCHANGED <<TEST_DATA, begun, results>> /\ sd'.attemptsUsed = sd.attemptsUsed
        /\ sd'.best = sd.best /\ sd'.last = sd.last
    BY <1>6, FinishFacts, TickFacts DEF Handed, WalkBooks
  <2> QED
    BY <2>1 DEF Counted, Unbanked
<1>7. CASE Moves
  BY <1>4, <1>7, MoveFacts DEF lms, history
<1>8. CASE viewSavedResults \/ backToStart \/ commitSessionTime \/ UNCHANGED vars
  BY <1>4, <1>8
     DEF viewSavedResults, backToStart, commitSessionTime, vars, lms, history
<1> QED
  BY <1>1, <1>2, <1>3, <1>5, <1>6, <1>7, <1>8
     DEF Next, Launches, Screens, Walk, Moves, Commits

LEMMA LimitNext == TypeInv /\ LimitKept /\ [Next]_vars => LimitKept'
<1> SUFFICES ASSUME TypeInv, LimitKept, [Next]_vars PROVE LimitKept'
  OBVIOUS
<1>1. UNCHANGED TEST_DATA /\ Counted
  BY BooksKept
<1>2. TEST_DATA.maxAttempts \in Nat /\ sd.attemptsUsed \in Nat /\ begun \in Nat
  BY PackageAssumption DEF TypeInv, TypeOK
<1> QED
  BY <1>1, <1>2 DEF LimitKept, Counted, hasAttemptsLeft

(* A limit on attempts holds across every launch, crash and late result:    *)
(* what is counted is what was begun, and no more than the limit.           *)
THEOREM AttemptsWithinLimit == Spec => []LimitKept
<1>1. Init => LimitKept
  BY PackageAssumption DEF Init, LimitKept
<1> QED
  BY <1>1, LimitNext, Typed, PTL DEF Spec

LEMMA Members ==
  ASSUME NEW S, NEW q \in Seq(S)
  PROVE  \A j \in DOMAIN q : q[j] \in S /\ j \in Nat
OBVIOUS

(* The best result is the latest of the best, the last is the last.         *)
BestAt(b, rs, n) ==
  /\ b = rs[n]
  /\ \A j \in DOMAIN rs : rs[j].pc <= rs[n].pc
  /\ \A j \in DOMAIN rs : j > n => rs[j].pc < rs[n].pc

SummaryInv ==
  IF results = <<>>
  THEN sd.best = NoSummary /\ sd.last = NoSummary
  ELSE (\E n \in DOMAIN results : BestAt(sd.best, results, n)) /\ getLastAttempt(sd) = Last(results)

LEMMA SummaryKept == TypeInv /\ SummaryInv /\ [Next]_vars => SummaryInv'
<1> SUFFICES ASSUME TypeInv, SummaryInv, [Next]_vars PROVE SummaryInv'
  OBVIOUS
<1> DEFINE Result == [att : Runs, pc : 0 .. Size]
<1>1. CASE Unbanked(sd')
  BY <1>1 DEF Unbanked, SummaryInv, BestAt, getLastAttempt
<1>2. CASE Banked(sd')
  <2> DEFINE r == calculateResults(state)
             n1 == Len(results) + 1
  <2>1. results \in Seq(Result) /\ results' \in Seq(Result) /\ results' = Append(results, r)
    BY <1>2, ResultAppended DEF TypeInv, TypeOK, Banked
  <2>2. r \in Result
    <3>1. state \in Page /\ begun \in 0 .. MaxRuns /\ state.att \in 1 .. begun
      BY <1>2 DEF TypeInv, TypeOK, PageInv, Banked
    <3>2. state.att \in Runs
      BY <3>1, PackageAssumption DEF Runs
    <3> QED
      BY <3>1, <3>2, ResultFacts DEF Summary
  <2>3. /\ sd'.best = pickBest(sd.best, r)
        /\ sd'.last = IF pickBest(sd.best, r) = r THEN NoSummary ELSE r
    BY <1>2 DEF Banked
  <2> HIDE DEF r
  <2>4. r.att \in Nat \ {0} /\ r.pc \in Nat /\ r # NoSummary
    BY <2>2, PackageAssumption DEF NoSummary, Runs
  <2>5. /\ Len(results) \in Nat /\ DOMAIN results = 1 .. Len(results)
        /\ DOMAIN results' = 1 .. n1 /\ n1 \in 1 .. n1 /\ results' # <<>>
        /\ results'[n1] = r /\ \A j \in 1 .. Len(results) : results'[j] = results[j]
        /\ Last(results') = r
    BY <2>1, <2>2 DEF Last
  <2>6. \A j \in 1 .. Len(results) : results[j].att \in Nat \ {0} /\ results[j].pc \in Nat
    <3>1. \A j \in 1 .. Len(results) : results[j] \in Result
      BY <2>1, <2>5, Members
    <3>2. \A x \in Result : x.att \in Nat \ {0} /\ x.pc \in Nat
      BY PackageAssumption DEF Runs
    <3> QED
      BY <3>1, <3>2
  <2>7. getLastAttempt(sd') = r
    BY <2>3, <2>4 DEF getLastAttempt
  <2>8. \E n \in DOMAIN results' : BestAt(sd'.best, results', n)
    <3>1. CASE results = <<>>
      <4>1. sd.best = NoSummary /\ Len(results) = 0
        BY <2>1, <3>1 DEF SummaryInv
      <4>2. sd'.best = r
        BY <2>3, <4>1 DEF pickBest, NoSummary
      <4>3. n1 = 1 /\ \A j \in DOMAIN results' : j = n1
        BY <2>5, <4>1
      <4> HIDE DEF n1
      <4>4. BestAt(sd'.best, results', n1)
        BY <2>4, <2>5, <4>2, <4>3 DEF BestAt
      <4> QED
        BY <2>5, <4>4
    <3>2. CASE results # <<>>
      <4>1. PICK n \in DOMAIN results : BestAt(sd.best, results, n)
        BY <3>2 DEF SummaryInv
      <4>2. n \in 1 .. Len(results) /\ sd.best = results[n]
        BY <2>5, <4>1 DEF BestAt
      <4>3. sd.best.att # 0 /\ sd.best.pc \in Nat
        BY <2>6, <4>2
      <4>4. CASE r.pc >= sd.best.pc
        <5>1. sd'.best = r
          BY <2>3, <4>3, <4>4 DEF pickBest
        <5>2. \A j \in DOMAIN results' : results'[j].pc <= results'[n1].pc
          <6> TAKE j \in DOMAIN results'
          <6>1. CASE j = n1
            BY <2>4, <2>5, <6>1
          <6>2. CASE j \in 1 .. Len(results)
            BY <2>4, <2>5, <2>6, <4>1, <4>2, <4>3, <4>4, <6>2 DEF BestAt
          <6> QED
            BY <2>5, <6>1, <6>2
        <5>3. \A j \in DOMAIN results' : ~(j > n1)
          BY <2>5
        <5>4. BestAt(sd'.best, results', n1)
          BY <2>5, <5>1, <5>2, <5>3 DEF BestAt
        <5> QED
          BY <2>5, <5>4
      <4>5. CASE ~(r.pc >= sd.best.pc)
        <5>1. sd'.best = sd.best /\ results'[n] = results[n]
          BY <2>3, <2>5, <4>2, <4>3, <4>5 DEF pickBest
        <5>2. ASSUME NEW j \in DOMAIN results'
              PROVE  /\ results'[j].pc <= results'[n].pc
                     /\ j > n => results'[j].pc < results'[n].pc
          <6>1. CASE j = n1
            BY <2>4, <2>5, <4>2, <4>3, <4>5, <5>1, <6>1
          <6>2. CASE j \in 1 .. Len(results)
            BY <2>5, <4>1, <5>1, <6>2 DEF BestAt
          <6> QED
            BY <2>5, <6>1, <6>2
        <5>3. BestAt(sd'.best, results', n)
          BY <4>2, <5>1, <5>2 DEF BestAt
        <5> QED
          BY <2>5, <4>2, <5>3
      <4> QED
        BY <4>4, <4>5
    <3> QED
      BY <3>1, <3>2
  <2> QED
    BY <2>5, <2>7, <2>8 DEF SummaryInv
<1> QED
  BY <1>1, <1>2, BooksKept

LEMMA SummaryMeans == TypeInv /\ SummaryInv => SummaryExact
<1> SUFFICES ASSUME TypeInv, SummaryInv, results # <<>>
             PROVE  sd.best = BestOf(results) /\ getLastAttempt(sd) = Last(results)
  BY DEF SummaryExact
<1> DEFINE I == {i \in DOMAIN results :
                   \A j \in DOMAIN results : results[j].pc <= results[i].pc}
           M == CHOOSE x \in I : \A y \in I : x >= y
<1>1. PICK n \in DOMAIN results : BestAt(sd.best, results, n)
  BY DEF SummaryInv
<1>2. /\ DOMAIN results \subseteq Nat
      /\ \A j \in DOMAIN results : results[j].pc \in Nat
  <2>1. results \in Seq([att : Runs, pc : 0 .. Size])
    BY DEF TypeInv, TypeOK
  <2>2. \A j \in DOMAIN results : results[j] \in [att : Runs, pc : 0 .. Size] /\ j \in Nat
    BY <2>1, Members
  <2>3. \A x \in [att : Runs, pc : 0 .. Size] : x.pc \in Nat
    BY PackageAssumption
  <2> QED
    BY <2>2, <2>3
<1>3. n \in I
  BY <1>1 DEF BestAt
<1>4. \A m \in I : n >= m
  BY <1>1, <1>2 DEF BestAt
<1>5. I \subseteq Nat
  BY <1>2
<1> HIDE DEF I
<1>6. M \in I /\ \A y \in I : M >= y
  BY <1>3, <1>4
<1> HIDE DEF M
<1>7. M = n
  BY <1>3, <1>4, <1>5, <1>6
<1>8. BestOf(results) = results[M]
  BY DEF BestOf, Max, M, I
<1> QED
  BY <1>1, <1>7, <1>8 DEF SummaryInv, BestAt

(* Three fields stand for the whole list of results that was once stored.   *)
THEOREM SummaryStandsForResults == Spec => []SummaryExact
<1>1. Init => SummaryInv
  BY DEF Init, SummaryInv
<1> QED
  BY <1>1, SummaryKept, SummaryMeans, Typed, PTL DEF Spec

-----------------------------------------------------------------------------
(* Finished attempts                                                        *)

SavedResult(rs, a) == \E i \in DOMAIN rs : rs[i].att = a

(* An unsaved finished attempt is in the checkpoint, and no other attempt   *)
(* is on the page that could write over it.                                 *)
KeptInv ==
  (TEST_DATA.maxAttempts > 0 /\ ~Timed /\ ~aged) =>
    \A a \in finished :
      \/ SavedResult(results, a)
      \/ sd.currentSession.att = a /\ (state.phase = "closed" \/ state.att = a)

LEMMA SavedLater ==
  ASSUME TypeInv, [Next]_vars, NEW a, SavedResult(results, a)
  PROVE  SavedResult(results', a)
<1>1. results' = results \/ results' = Append(results, calculateResults(state))
  BY BooksKept DEF Banked, Unbanked
<1>2. PICK i \in DOMAIN results : results[i].att = a
  BY DEF SavedResult
<1>3. results \in Seq([att : Runs, pc : 0 .. Size])
  BY DEF TypeInv, TypeOK
<1>4. i \in DOMAIN results' /\ results'[i] = results[i]
  <2>1. CASE results' = results
    BY <1>2, <2>1
  <2>2. CASE results' = Append(results, calculateResults(state))
    <3> DEFINE r == calculateResults(state)
    <3> HIDE DEF r
    <3>1. /\ DOMAIN results = 1 .. Len(results) /\ Len(results) \in Nat
          /\ Len(Append(results, r)) = Len(results) + 1
          /\ DOMAIN Append(results, r) = 1 .. Len(results) + 1
          /\ \A j \in 1 .. Len(results) : Append(results, r)[j] = results[j]
      BY <1>3
    <3> QED
      BY <1>2, <2>2, <3>1 DEF r
  <2> QED
    BY <1>1, <2>1, <2>2
<1> QED
  BY <1>2, <1>4 DEF SavedResult

(* The result that was just saved.                                          *)
LEMMA SavedNow ==
  ASSUME TypeInv, state.submitted, results' = Append(results, calculateResults(state))
  PROVE  SavedResult(results', state.att)
<1> DEFINE r == calculateResults(state)
           n == Len(results) + 1
<1>1. r.att = state.att
  BY ResultFacts DEF TypeInv, TypeOK
<1>2. results \in Seq([att : Runs, pc : 0 .. Size]) /\ results' = Append(results, r)
  BY DEF TypeInv, TypeOK
<1> HIDE DEF r
<1>3. n \in DOMAIN results' /\ results'[n] = r
  BY <1>2
<1> HIDE DEF n
<1> QED
  BY <1>1, <1>3 DEF SavedResult

LEMMA KeptNext == TypeInv /\ LimitKept /\ KeptInv /\ [Next]_vars => KeptInv'
<1> SUFFICES ASSUME TypeInv, LimitKept, KeptInv, [Next]_vars,
                    TEST_DATA'.maxAttempts > 0, ~Timed', ~aged',
                    NEW a \in finished', ~SavedResult(results', a)
             PROVE  sd'.currentSession.att = a /\ (state'.phase = "closed" \/ state'.att = a)
  BY DEF KeptInv
<1>1. TEST_DATA' = TEST_DATA /\ TEST_DATA.maxAttempts > 0 /\ ~Timed
  BY BooksKept DEF Timed
<1>2. aged \in BOOLEAN /\ begun \in Nat /\ state \in Page /\ sd \in Stored
  BY DEF TypeInv, TypeOK, Stored
<1>3. ~aged
  BY <1>2, BootFacts, EndingFacts, StartFacts, CommitFacts, FinishFacts, TickFacts, MoveFacts
     DEF Next, Launches, Screens, Walk, Moves, Commits, SessionEnds, Begun, WalkBooks, history,
         viewSavedResults, backToStart, commitSessionTime, vars
<1>4. TypeInv'
  BY TypeNext
<1>5. a # 0
  BY <1>4, PackageAssumption DEF TypeInv, TypeOK, Runs
<1>6. a \in finished =>
        sd.currentSession.att = a /\ (state.phase = "closed" \/ state.att = a)
  BY <1>1, <1>3, SavedLater DEF KeptInv
<1>7. ASSUME NEW s \in Stored, NEW p \in Page, Handed(s, p), finished' = finished \cup {p.att},
             a \in finished => a = p.att
      PROVE  sd'.currentSession.att = a /\ state'.att = a
  <2>1. sd'.currentSession.att = p.att /\ state'.att = p.att
    BY <1>7 DEF Handed, CheckpointOf
  <2> QED
    BY <1>7, <2>1
<1>8. CASE \E stale \in BOOLEAN : Boot(stale)
  <2>1. PICK stale \in BOOLEAN : Boot(stale)
    BY <1>8
  <2> DEFINE c == sd.currentSession
             p == restored(c)
  <2>2. state.phase = "closed" /\ state.att = 0
    BY <2>1, BootFacts DEF TypeInv, PageInv
  <2>3. a \in finished => c.att = a /\ ~stale
    BY <1>2, <1>5, <1>6, <2>1, BootFacts
  <2>4. CASE c.att # 0 /\ SetUp(sd, p)
    <3>1. p.att = c.att
      BY <1>2, <2>4, StoredFacts, RestoredFacts
    <3>2. sd'.currentSession = c /\ state'.att = p.att /\ finished' = finished
      BY <2>4 DEF SetUp
    <3> QED
      BY <2>3, <3>1, <3>2
  <2>5. CASE /\ c.att = 0 \/ stale \/ Timed
             /\ finished' = finished
    <3>1. a \in finished
      BY <2>5
    <3> QED
      BY <1>1, <1>5, <2>3, <2>5, <3>1
  <2> QED
    BY <1>1, <2>1, <2>4, <2>5, BootFacts
<1>9. CASE Kill \/ Close \/ finishAndClose
  <2>1. finished' = finished /\ state'.phase = "closed"
    BY <1>9, EndingFacts, EndFacts DEF TypeInv
  <2>2. sd.currentSession.att = a
    BY <1>6, <2>1
  <2>3. CASE sd'.currentSession = sd.currentSession
    BY <2>1, <2>2, <2>3
  <2>4. CASE Running /\ sd'.currentSession.att = state.att
    <3>1. state.att = a
      BY <1>6, <2>1, <2>4 DEF Running
    <3> QED
      BY <2>1, <2>4, <3>1
  <2>5. CASE Banked(sd')
    <3>1. state.att = a
      BY <2>2, <2>5 DEF Banked, TypeInv, PageInv
    <3> QED
      BY <2>5, <3>1, SavedNow DEF Banked
  <2> QED
    BY <1>9, <2>3, <2>4, <2>5, EndingFacts
<1>10. CASE startTest \/ restart
  <2>1. PICK s \in Stored :
          /\ Begun(s) /\ s.currentSession = sd.currentSession
          /\ \/ state.phase = "start"
             \/ state.submitted /\ sd.attemptsUsed > 0 /\ Banked(s)
             \/ state.submitted /\ ~(sd.attemptsUsed > 0)
    BY <1>10, StartFacts
  <2>2. a \notin finished
    <3>1. CASE state.phase = "start"
      BY <1>5, <1>6, <3>1 DEF TypeInv, PageInv
    <3>2. CASE state.submitted /\ sd.attemptsUsed > 0 /\ Banked(s)
      <4>1. a \in finished => a = state.att
        BY <1>6, <3>2 DEF TypeInv, PageInv
      <4> QED
        BY <3>2, <4>1, SavedNow DEF Banked
    <3>3. CASE state.submitted /\ ~(sd.attemptsUsed > 0)
      <4>1. sd.attemptsUsed = begun
        BY <1>1 DEF LimitKept
      <4>2. state.att \in 1 .. begun
        BY <3>3 DEF TypeInv, PageInv
      <4> QED
        BY <1>2, <3>3, <4>1, <4>2
    <3> QED
      BY <2>1, <3>1, <3>2, <3>3
  <2>3. finished' = finished
    BY <1>1, <2>1 DEF Begun, SetUp
  <2> QED
    BY <2>2, <2>3
<1>11. CASE Commits
  <2>1. /\ Running /\ OnQuestion
        /\ \/ \E p \in {Confirmed, Skipped} : GoneOn(p) \/ Handed(sd, p)
           \/ GoneOn(state)
    BY <1>11, CommitFacts
       DEF Commits, confirmAnswer, next, skipQuestion, goBack
  <2>2. \A p \in {Confirmed, Skipped, state} : p \in Page /\ p.att = state.att
    BY <1>2, <2>1, ConfirmedFacts, SkippedFacts DEF InRun
  <2>3. a \in finished => a = state.att
    BY <1>6, <2>1 DEF Running
  <2>4. PICK p \in {Confirmed, Skipped, state} : GoneOn(p) \/ Handed(sd, p)
    BY <2>1
  <2>5. CASE GoneOn(p)
    BY <2>2, <2>3, <2>5 DEF GoneOn
  <2>6. CASE Handed(sd, p)
    BY <1>2, <1>7, <2>2, <2>3, <2>6 DEF Handed
  <2> QED
    BY <2>4, <2>5, <2>6
<1>12. CASE Finish \/ Tick
  <2>1. /\ Running
        /\ \/ Handed(sd, state)
           \/ sd' = sd /\ finished' = finished /\ state'.att = state.att
    <3>1. CASE Finish
      BY <3>1, FinishFacts
    <3>2. CASE Tick
      BY <3>2, TickFacts
    <3> QED
      BY <1>12, <3>1, <3>2
  <2>2. a \in finished => a = state.att
    BY <1>6, <2>1 DEF Running
  <2>3. CASE Handed(sd, state)
    BY <1>2, <1>7, <2>2, <2>3 DEF Handed
  <2>4. CASE sd' = sd /\ finished' = finished /\ state'.att = state.att
    BY <1>6, <2>2, <2>4
  <2> QED
    BY <2>1, <2>3, <2>4
<1>13. CASE Moves
  <2>1. Running /\ state'.att = state.att /\ sd' = sd /\ finished' = finished
    BY <1>13, MoveFacts DEF lms, history
  <2> QED
    BY <1>6, <2>1 DEF Running
<1>14. CASE viewSavedResults \/ backToStart
  <2>1. /\ state.phase \in {"start", "viewResults"} /\ state.att = 0 /\ finished' = finished
    BY <1>14 DEF viewSavedResults, backToStart, TypeInv, PageInv, history
  <2> QED
    BY <1>5, <1>6, <2>1
<1>15. CASE commitSessionTime \/ UNCHANGED vars
  BY <1>6, <1>15 DEF commitSessionTime, vars, lms, history
<1> QED
  BY <1>8, <1>9, <1>10, <1>11, <1>12, <1>13, <1>14, <1>15
     DEF Next, Launches, Screens, Walk, Moves, Commits

LEMMA KeptMeans == TypeInv /\ KeptInv => FinishedKept
<1> SUFFICES ASSUME TypeInv, KeptInv,
                    TEST_DATA.maxAttempts > 0, ~Timed, ~aged, NEW a \in finished
             PROVE  \/ \E i \in DOMAIN results : results[i].att = a
                    \/ state.submitted /\ state.att = a
                    \/ sd.currentSession.att = a
  BY DEF FinishedKept
<1> QED
  BY DEF KeptInv, SavedResult

(* Where attempts are counted and no time limit runs, a finished attempt is *)
(* never lost: a crash, a restart and a new attempt leave its result, or    *)
(* the checkpoint to finish it from.                                        *)
THEOREM FinishedIsKept == Spec => []FinishedKept
<1>1. Init => KeptInv
  BY DEF Init, KeptInv
<1> QED
  BY <1>1, KeptNext, KeptMeans, Typed, AttemptsWithinLimit, PTL DEF Spec

-----------------------------------------------------------------------------
(* Fixed answers                                                            *)

(* What is fixed in f is in the answers, and locked.                        *)
Preserved(f, an, st) ==
  \A q \in Questions : f[q] # "none" => an[q] = f[q] /\ st[q] = "answered"

(* What was confirmed is on the page of the run and in the checkpoint, each *)
(* for its own attempt; an attempt to come has confirmed nothing.           *)
FixedInv ==
  /\ Running => Preserved(moved[state.att], state.answers, state.questionStatuses)
  /\ sd.currentSession.att # 0 =>
       Preserved(moved[sd.currentSession.att], sd.currentSession.an, sd.currentSession.st)
  /\ \A a \in Runs : a > begun => moved[a] = Untouched

LEMMA FixedNext == TypeInv /\ FixedInv /\ [Next]_vars => FixedInv'
<1> SUFFICES ASSUME TypeInv, FixedInv, [Next]_vars PROVE FixedInv'
  OBVIOUS
<1>1. /\ begun \in 0 .. MaxRuns /\ state \in Page /\ sd \in Stored
      /\ sd.currentSession \in Checkpoint /\ sd.currentSession.att \in Nat
      /\ sd.currentSession.att <= begun
      /\ moved \in [Runs -> [Questions -> Answers]]
  BY StoredFacts DEF TypeInv, TypeOK, Stored, PageInv, Checkpoint
<1>2. ASSUME NEW s, NEW p \in Page, Handed(s, p),
             Preserved(moved'[p.att], p.answers, p.questionStatuses),
             \A a \in Runs : a > begun' => moved'[a] = Untouched
      PROVE  FixedInv'
  <2>1. ~Running'
    BY <1>2 DEF Handed, Running
  <2>2. /\ sd'.currentSession.att = p.att /\ sd'.currentSession.an = p.answers
        /\ sd'.currentSession.st = p.questionStatuses
    BY <1>2 DEF Handed, CheckpointOf
  <2> QED
    BY <1>2, <2>1, <2>2 DEF FixedInv
<1>3. CASE \E stale \in BOOLEAN : Boot(stale)
  <2> DEFINE c == sd.currentSession
             p == restored(c)
  <2>1. begun' = begun /\ moved' = moved
    BY <1>3, BootFacts
  <2>2. \A a \in Runs : a > begun' => moved'[a] = Untouched
    BY <2>1 DEF FixedInv
  <2>3. CASE c.att # 0 /\ (Handed(sd, p) \/ SetUp(sd, p))
    <3>1. p \in Page /\ p.att = c.att /\ p.answers = c.an /\ p.questionStatuses = c.st
      BY <1>1, <2>3, RestoredFacts DEF InRun
    <3>2. Preserved(moved'[c.att], c.an, c.st)
      BY <2>1, <2>3 DEF FixedInv
    <3> HIDE DEF p
    <3>3. CASE Handed(sd, p)
      BY <1>2, <2>2, <3>1, <3>2, <3>3
    <3>4. CASE SetUp(sd, p)
      <4>1. /\ sd'.currentSession = c /\ state'.att = c.att /\ state'.answers = c.an
            /\ state'.questionStatuses = c.st
        BY <3>1, <3>4 DEF SetUp
      <4> QED
        BY <2>2, <3>2, <4>1 DEF FixedInv
    <3> QED
      BY <2>3, <3>3, <3>4
  <2>4. CASE sd'.currentSession = NoCheckpoint /\ state'.phase \in {"start", "viewResults"}
    BY <2>2, <2>4 DEF FixedInv, Running, NoCheckpoint
  <2> QED
    BY <1>3, <2>3, <2>4, BootFacts
<1>4. CASE Kill \/ Close \/ finishAndClose
  <2>1. /\ begun' = begun /\ moved' = moved /\ state'.phase = "closed"
    BY <1>4, EndingFacts, EndFacts DEF TypeInv
  <2>2. ~Running' /\ \A a \in Runs : a > begun' => moved'[a] = Untouched
    BY <2>1 DEF FixedInv, Running
  <2>3. CASE sd'.currentSession = sd.currentSession
    BY <2>1, <2>2, <2>3 DEF FixedInv
  <2>4. CASE /\ Running
             /\ sd'.currentSession.att = state.att
             /\ sd'.currentSession.an = state.answers
             /\ sd'.currentSession.st = state.questionStatuses
    BY <2>1, <2>2, <2>4 DEF FixedInv
  <2>5. CASE sd'.currentSession = NoCheckpoint
    BY <2>2, <2>5 DEF FixedInv, NoCheckpoint
  <2> QED
    BY <1>4, <2>3, <2>4, <2>5, EndingFacts
<1>5. CASE startTest \/ restart
  <2>1. PICK s \in Stored : Begun(s) /\ s.currentSession = sd.currentSession
    BY <1>5, StartFacts
  <2> DEFINE r == registerAttemptStart(s)
             p == FirstPage(begun + 1)
  <2>2. /\ begun + 1 \in Runs /\ begun' = begun + 1 /\ moved' = moved
        /\ p \in Page /\ r \in Stored
        /\ Handed(r, p) \/ SetUp(r, p)
    BY <2>1 DEF Begun
  <2>3. r.currentSession = sd.currentSession
    BY <2>1, StartRegistered
  <2>4. p.att = begun + 1 /\ p.answers = Untouched
    BY <2>2, FirstPageFacts
  <2>5. \A a \in Runs : a > begun' => moved'[a] = Untouched
    BY <1>1, <2>2 DEF FixedInv, Runs
  <2>6. moved'[begun + 1] = Untouched
    BY <1>1, <2>2 DEF FixedInv
  <2>7. \A q \in Questions : Untouched[q] = "none"
    BY DEF Untouched
  <2> HIDE DEF r, p
  <2>8. Preserved(moved'[p.att], p.answers, p.questionStatuses)
    BY <2>4, <2>6, <2>7 DEF Preserved
  <2>9. CASE Handed(r, p)
    BY <1>2, <2>2, <2>5, <2>8, <2>9
  <2>10. CASE SetUp(r, p)
    <3>1. /\ sd'.currentSession = sd.currentSession
          /\ state'.att = p.att /\ state'.answers = p.answers
          /\ state'.questionStatuses = p.questionStatuses
      BY <2>3, <2>10 DEF SetUp
    <3> QED
      BY <2>2, <2>5, <2>8, <3>1 DEF FixedInv
  <2> QED
    BY <2>2, <2>9, <2>10
<1>6. CASE Commits
  <2> DEFINE k == state.currentIndex
             f == moved[state.att]
  <2>1. OnQuestion /\ Running
    BY <1>6, CommitFacts DEF Commits, confirmAnswer, next, skipQuestion, goBack
  <2>2. state.att \in Runs /\ state.att <= begun /\ k \in Questions
    BY <2>1, RunningFacts DEF InRun, Runs
  <2>3. /\ state.answers \in [Questions -> Answers]
        /\ state.questionStatuses \in [Questions -> Statuses] /\ f \in [Questions -> Answers]
    BY <1>1, <2>2, PageFacts
  <2>4. begun' = begun
    BY <1>6, CommitFacts DEF WalkBooks
  <2>5. Preserved(f, state.answers, state.questionStatuses)
    BY <2>1 DEF FixedInv
  <2>6. ASSUME NEW p \in Page, GoneOn(p) \/ Handed(sd, p), p.att = state.att,
               Preserved(moved'[p.att], p.answers, p.questionStatuses),
               \A a \in Runs : a # state.att => moved'[a] = moved[a]
        PROVE  FixedInv'
    <3>1. \A a \in Runs : a > begun' => moved'[a] = Untouched
      BY <1>1, <2>2, <2>4, <2>6 DEF FixedInv, Runs
    <3>2. CASE GoneOn(p)
      BY <2>6, <3>1, <3>2 DEF GoneOn, FixedInv
    <3>3. CASE Handed(sd, p)
      BY <1>2, <2>6, <3>1, <3>3
    <3> QED
      BY <2>6, <3>2, <3>3
  <2>7. CASE /\ GoneOn(Confirmed) \/ Handed(sd, Confirmed)
             /\ moved' = [moved EXCEPT ![state.att][k] = state.answers[k]]
    <3>1. /\ Confirmed \in Page /\ Confirmed.att = state.att
          /\ Confirmed.answers = state.answers
          /\ Confirmed.questionStatuses = [state.questionStatuses EXCEPT ![k] = "answered"]
      BY <2>1, ConfirmedFacts DEF InRun
    <3>2. /\ moved'[state.att] = [f EXCEPT ![k] = state.answers[k]]
          /\ \A a \in Runs : a # state.att => moved'[a] = moved[a]
      BY <1>1, <2>2, <2>7
    <3> HIDE DEF f, k
    <3>3. Preserved(moved'[state.att], Confirmed.answers, Confirmed.questionStatuses)
      BY <2>2, <2>3, <2>5, <3>1, <3>2 DEF Preserved
    <3> QED
      BY <2>6, <2>7, <3>1, <3>2, <3>3
  <2>8. CASE /\ GoneOn(Skipped) \/ Handed(sd, Skipped)
             /\ state.questionStatuses[k] # "answered" /\ moved' = moved
    <3>1. /\ Skipped \in Page /\ Skipped.att = state.att
          /\ Skipped.answers = [state.answers EXCEPT ![k] = "none"]
          /\ Skipped.questionStatuses = [state.questionStatuses EXCEPT ![k] = "skipped"]
      BY <2>1, SkippedFacts DEF InRun
    <3>2. moved'[state.att] = f
      BY <2>8
    <3> HIDE DEF f, k
    <3>3. Preserved(moved'[state.att], Skipped.answers, Skipped.questionStatuses)
      BY <2>2, <2>3, <2>5, <2>8, <3>1, <3>2 DEF Preserved
    <3> QED
      BY <2>6, <2>8, <3>1, <3>3
  <2>9. CASE GoneOn(state) /\ moved' = moved
    BY <1>1, <2>5, <2>6, <2>9
  <2> QED
    BY <1>6, <2>7, <2>8, <2>9, CommitFacts
<1>7. CASE Finish \/ Tick
  <2>1. /\ Running /\ begun' = begun /\ moved' = moved
        /\ \/ Handed(sd, state)
           \/ /\ sd' = sd /\ state'.att = state.att /\ state'.answers = state.answers
              /\ state'.questionStatuses = state.questionStatuses
    <3>1. CASE Finish
      BY <3>1, FinishFacts DEF WalkBooks
    <3>2. CASE Tick
      BY <3>2, TickFacts
    <3> QED
      BY <1>7, <3>1, <3>2
  <2>2. /\ Preserved(moved'[state.att], state.answers, state.questionStatuses)
        /\ \A a \in Runs : a > begun' => moved'[a] = Untouched
    BY <2>1 DEF FixedInv
  <2>3. CASE Handed(sd, state)
    BY <1>1, <1>2, <2>2, <2>3
  <2>4. CASE /\ sd' = sd /\ state'.att = state.att /\ state'.answers = state.answers
             /\ state'.questionStatuses = state.questionStatuses
    BY <2>1, <2>2, <2>4 DEF FixedInv
  <2> QED
    BY <2>1, <2>3, <2>4
<1>8. CASE Moves
  <2>1. /\ Running /\ state'.att = state.att
        /\ state'.questionStatuses = state.questionStatuses
        /\ \A q \in Questions :
             state.questionStatuses[q] = "answered" => state'.answers[q] = state.answers[q]
        /\ sd' = sd /\ begun' = begun /\ moved' = moved
    BY <1>8, MoveFacts DEF lms, history
  <2>2. Preserved(moved[state.att], state.answers, state.questionStatuses)
    BY <2>1 DEF FixedInv
  <2>3. Preserved(moved'[state.att], state'.answers, state'.questionStatuses)
    BY <2>1, <2>2 DEF Preserved
  <2> QED
    BY <2>1, <2>3 DEF FixedInv
<1>9. CASE viewSavedResults \/ backToStart
  <2>1. /\ sd' = sd /\ begun' = begun /\ moved' = moved
        /\ \/ state' = [state EXCEPT !.phase = "viewResults"]
           \/ state' = [state EXCEPT !.phase = "start"]
    BY <1>9 DEF viewSavedResults, backToStart, lms, history
  <2>2. ~Running'
    BY <1>1, <2>1 DEF Running, Page
  <2> QED
    BY <2>1, <2>2 DEF FixedInv
<1>10. CASE commitSessionTime \/ UNCHANGED vars
  BY <1>10 DEF commitSessionTime, vars, lms, history, FixedInv, Running
<1> QED
  BY <1>3, <1>4, <1>5, <1>6, <1>7, <1>8, <1>9, <1>10
     DEF Next, Launches, Screens, Walk, Moves, Commits

(* An answer that was confirmed or gone on from is on every later page of   *)
(* its attempt, and locked, however often the page dies in between.         *)
THEOREM ConfirmedStays == Spec => []MovedOnIsFixed
<1>1. Init => FixedInv
  BY FreshFacts, PackageAssumption
     DEF Init, FixedInv, Running, NoCheckpoint, Page, Runs
<1>2. FixedInv => MovedOnIsFixed
  BY DEF FixedInv, Preserved, MovedOnIsFixed
<1> QED
  BY <1>1, <1>2, FixedNext, Typed, PTL DEF Spec

-----------------------------------------------------------------------------
(* Time                                                                     *)

(* The active time of the page that no end of a page has dealt with.        *)
Unreported(p) == IF p.timing THEN p.elapsed ELSE 0

(* The anchor is in the past, and what the LMS was told since is at least   *)
(* the active time of the attempt, but for what was lost and for what the   *)
(* page under way still counts.                                             *)
TimeInv ==
  /\ sd.timer # None =>
       sd.timer <= totalTime /\ spent - lost - Unreported(state) <= totalTime - sd.timer
  /\ NoFreeTime

LEMMA ConsumedFacts ==
  ASSUME TypeOK, NEW s \in Stored, s.timer # None, s.timer <= totalTime
  PROVE  Consumed(s) = totalTime - s.timer /\ Consumed(s) \in Nat
<1>1. s.timer \in Nat /\ totalTime \in Nat
  BY StoredFacts DEF TypeOK
<1>2. totalTime - s.timer \in Int /\ totalTime - s.timer >= 0
  BY <1>1
<1>3. Consumed(s) = IF totalTime - s.timer > 0 THEN totalTime - s.timer ELSE 0
  BY <1>2, MaxZero DEF Consumed
<1> QED
  BY <1>1, <1>2, <1>3

LEMMA NoneLeft ==
  ASSUME NEW l \in Nat, NEW x \in Nat, NEW y \in Nat, x <= y
  PROVE  l - 0 + x - y <= l /\ x - y - 0 <= l - l
OBVIOUS

(* A timer that is set up over an anchor in the past, for an attempt whose  *)
(* active time the anchor accounts for.                                     *)
LEMMA TimeSetUp ==
  ASSUME TypeInv, NEW s \in Stored, NEW p \in Page, SetUp(s, p),
         TEST_DATA' = TEST_DATA, totalTime' = totalTime,
         spent' \in Nat, lost' \in Nat,
         s.timer # None => s.timer <= totalTime /\ spent' - lost' <= totalTime - s.timer,
         ~CanRestoreTimer(s) => ~Timed \/ spent' <= lost'
  PROVE  TimeInv'
<1>1. /\ totalTime \in Nat /\ TEST_DATA.timeLimit \in Nat /\ TEST_DATA.clock \in BOOLEAN
      /\ s.timer \in {None} \cup Nat /\ TypeOK
  BY StoredFacts, PackageAssumption DEF TypeInv, TypeOK
<1>2. /\ state'.timing = Timed /\ state'.elapsed = 0 /\ state'.startSeconds = Left(s)
      /\ sd'.timer = IF Timed /\ ~CanRestoreTimer(s) /\ TEST_DATA.clock
                     THEN totalTime ELSE s.timer
  BY DEF SetUp
<1>3. Unreported(state') = 0
  BY <1>2 DEF Unreported
<1>4. CASE Timed /\ CanRestoreTimer(s)
  <2>1. s.timer # None /\ s.timer <= totalTime /\ spent' - lost' <= totalTime - s.timer
    BY <1>4 DEF CanRestoreTimer
  <2>2. Consumed(s) = totalTime - s.timer
    BY <1>1, <2>1, ConsumedFacts
  <2>3. state'.startSeconds = TEST_DATA.timeLimit - (totalTime - s.timer)
    BY <1>2, <1>4, <2>2 DEF Left
  <2>4. state'.startSeconds - state'.elapsed + spent' - lost' <= TEST_DATA'.timeLimit
    BY <1>1, <1>2, <2>1, <2>3
  <2>5. sd'.timer = s.timer
    BY <1>2, <1>4
  <2>6. spent' - lost' - Unreported(state') <= totalTime' - sd'.timer
    BY <1>1, <1>3, <2>1, <2>5
  <2> QED
    BY <2>1, <2>4, <2>5, <2>6 DEF TimeInv, NoFreeTime
<1>5. CASE Timed /\ ~CanRestoreTimer(s)
  <2>1. spent' <= lost'
    BY <1>5
  <2>2. Left(s) = TEST_DATA.timeLimit
    BY <1>1, <1>5 DEF Left
  <2>3. state'.startSeconds = TEST_DATA.timeLimit /\ state'.elapsed = 0
    BY <1>2, <2>2
  <2>4. state'.startSeconds - state'.elapsed + spent' - lost' <= TEST_DATA'.timeLimit
    <3>1. TEST_DATA.timeLimit - 0 + spent' - lost' <= TEST_DATA.timeLimit
      BY <1>1, <2>1, NoneLeft
    <3> QED
      BY <2>3, <3>1
  <2>5. sd'.timer = totalTime \/ sd'.timer = s.timer
    BY <1>2
  <2>6. spent' - lost' - Unreported(state') <= totalTime - totalTime
    BY <1>1, <1>3, <2>1, NoneLeft
  <2>7. sd'.timer # None =>
          sd'.timer <= totalTime' /\ spent' - lost' - Unreported(state') <= totalTime' - sd'.timer
    <3>1. CASE sd'.timer = totalTime
      BY <1>1, <2>6, <3>1
    <3>2. CASE sd'.timer = s.timer
      <4>1. s.timer # None =>
              s.timer <= totalTime /\ spent' - lost' - 0 <= totalTime - s.timer
        BY <1>1
      <4> QED
        BY <1>3, <3>2, <4>1
    <3> QED
      BY <2>5, <3>1, <3>2
  <2> QED
    BY <2>4, <2>7 DEF TimeInv, NoFreeTime
<1>6. CASE ~Timed
  <2>1. sd'.timer = s.timer /\ ~state'.timing
    BY <1>2, <1>6
  <2>2. sd'.timer # None =>
          sd'.timer <= totalTime' /\ spent' - lost' - Unreported(state') <= totalTime' - sd'.timer
    BY <1>1, <1>3, <2>1
  <2> QED
    BY <2>1, <2>2 DEF TimeInv, NoFreeTime
<1> QED
  BY <1>4, <1>5, <1>6

LEMMA TimeNext == TypeInv /\ TimeInv /\ [Next]_vars => TimeInv'
<1> SUFFICES ASSUME TypeInv, TimeInv, [Next]_vars PROVE TimeInv'
  OBVIOUS
<1>1. /\ state \in Page /\ sd \in Stored /\ sd.timer \in {None} \cup Nat
      /\ sd.currentSession \in Checkpoint /\ begun \in 0 .. MaxRuns
      /\ totalTime \in Nat /\ sessionTime \in Nat /\ spent \in Nat /\ lost \in Nat
      /\ state.elapsed \in Nat /\ state.timing \in BOOLEAN
      /\ TEST_DATA.timeLimit \in Nat /\ state.startSeconds \in Int
  BY StoredFacts, PageFacts, PackageAssumption DEF TypeInv, TypeOK, Stored
<1>2. Unreported(state) \in Nat
  BY <1>1 DEF Unreported
<1>3. ASSUME NEW s, NEW p, Handed(s, p)
      PROVE  TimeInv'
  BY <1>3 DEF Handed, TimeInv, NoFreeTime
<1>4. ASSUME UNCHANGED <<TEST_DATA, totalTime, spent, lost>>, sd'.timer = sd.timer,
             state'.timing = state.timing, state'.elapsed = state.elapsed,
             state'.startSeconds = state.startSeconds
      PROVE  TimeInv'
  BY <1>4 DEF TimeInv, NoFreeTime, Unreported
<1>5. CASE \E stale \in BOOLEAN : Boot(stale)
  <2> DEFINE c == sd.currentSession
             p == restored(c)
  <2>1. /\ UNCHANGED <<TEST_DATA, totalTime, spent, lost>> /\ state.phase = "closed"
    BY <1>5, BootFacts
  <2>2. ~state.timing
    BY <2>1 DEF TypeInv, PageInv
  <2>3. Unreported(state) = 0
    BY <2>2 DEF Unreported
  <2>4. sd.timer # None => sd.timer <= totalTime /\ spent' - lost' <= totalTime - sd.timer
    BY <1>1, <2>1, <2>3 DEF TimeInv
  <2>5. CASE c.att # 0 /\ (Timed => CanRestoreTimer(sd)) /\ (Handed(sd, p) \/ SetUp(sd, p))
    <3>1. p \in Page
      BY <1>1, <2>5, RestoredFacts DEF InRun
    <3> HIDE DEF p
    <3>2. CASE SetUp(sd, p)
      BY <1>1, <2>1, <2>4, <2>5, <3>1, <3>2, TimeSetUp
    <3> QED
      BY <1>3, <2>5, <3>2
  <2>6. CASE sd'.timer = sd.timer /\ state'.timing = FALSE
    <3>1. Unreported(state') = 0
      BY <2>6 DEF Unreported
    <3>2. sd'.timer # None =>
            sd'.timer <= totalTime'
            /\ spent' - lost' - Unreported(state') <= totalTime' - sd'.timer
      BY <1>1, <2>1, <2>4, <2>6, <3>1
    <3> QED
      BY <2>6, <3>2 DEF TimeInv, NoFreeTime
  <2> QED
    BY <1>5, <2>5, <2>6, BootFacts
<1>6. CASE Kill \/ Close \/ finishAndClose
  <2>1. /\ state'.timing = FALSE /\ sd'.timer = sd.timer
        /\ totalTime' = totalTime + sessionTime /\ spent' = spent
        /\ lost' \in Nat /\ lost' >= lost
        /\ state.timing => lost' >= lost + (state.elapsed - sessionTime)
    BY <1>6, EndingFacts, EndFacts DEF TypeInv
  <2>2. Unreported(state') = 0
    BY <2>1 DEF Unreported
  <2>3. lost' + sessionTime >= lost + Unreported(state)
    BY <1>1, <2>1 DEF Unreported
  <2>4. sd'.timer # None =>
          sd'.timer <= totalTime' /\ spent' - lost' - Unreported(state') <= totalTime' - sd'.timer
    <3>1. SUFFICES ASSUME sd.timer # None
                   PROVE  /\ sd.timer <= totalTime + sessionTime
                          /\ spent - lost' <= totalTime + sessionTime - sd.timer
      BY <1>1, <2>1, <2>2
    <3>2. /\ sd.timer \in Nat /\ sd.timer <= totalTime
          /\ spent - lost - Unreported(state) <= totalTime - sd.timer
      BY <1>1, <3>1 DEF TimeInv
    <3> QED
      BY <1>1, <1>2, <2>1, <2>3, <3>2
  <2> QED
    BY <2>1, <2>4 DEF TimeInv, NoFreeTime
<1>7. CASE startTest \/ restart
  <2>1. PICK s \in Stored : Begun(s) /\ (s.timer = sd.timer \/ s.timer = None)
    BY <1>7, StartFacts
  <2> DEFINE r == registerAttemptStart(s)
             p == FirstPage(begun + 1)
  <2>2. /\ spent' = 0 /\ lost' = 0 /\ TEST_DATA' = TEST_DATA /\ totalTime' = totalTime
        /\ p \in Page /\ r \in Stored
        /\ Handed(r, p) \/ SetUp(r, p)
    BY <2>1 DEF Begun
  <2>3. r.timer = s.timer
    BY StartRegistered
  <2> HIDE DEF r, p
  <2>4. r.timer # None => r.timer <= totalTime /\ spent' - lost' <= totalTime - r.timer
    BY <1>1, <2>1, <2>2, <2>3 DEF TimeInv
  <2>5. CASE SetUp(r, p)
    BY <2>2, <2>4, <2>5, TimeSetUp
  <2> QED
    BY <1>3, <2>2, <2>5
<1>8. CASE Commits
  <2>1. OnQuestion
    BY <1>8 DEF Commits, confirmAnswer, next, skipQuestion, goBack
  <2>2. /\ UNCHANGED <<TEST_DATA, totalTime, spent, lost>>
        /\ \E p \in {Confirmed, Skipped, state} : GoneOn(p) \/ Handed(sd, p)
    BY <1>8, CommitFacts DEF WalkBooks
  <2>3. PICK p \in {Confirmed, Skipped, state} : GoneOn(p) \/ Handed(sd, p)
    BY <2>2
  <2>4. p.timing = state.timing /\ p.elapsed = state.elapsed
        /\ p.startSeconds = state.startSeconds
    BY <2>1, ConfirmedFacts, SkippedFacts
  <2>5. CASE GoneOn(p)
    BY <1>4, <2>2, <2>4, <2>5 DEF GoneOn
  <2> QED
    BY <1>3, <2>3, <2>5
<1>9. CASE Finish
  BY <1>3, <1>9, FinishFacts
<1>10. CASE Tick
  <2>1. CASE Handed(sd, state)
    BY <1>3, <2>1
  <2>2. CASE ~Handed(sd, state)
    <3>1. /\ UNCHANGED <<TEST_DATA, totalTime, lost>> /\ spent' = spent + 1
          /\ sd' = sd /\ state.timing /\ state'.timing = state.timing
          /\ state'.elapsed = state.elapsed + 1
          /\ state'.startSeconds = state.startSeconds
      BY <1>10, <2>2, TickFacts
    <3>2. Unreported(state') = state'.elapsed /\ Unreported(state) = state.elapsed
      BY <3>1 DEF Unreported
    <3>3. state.startSeconds - state.elapsed + spent - lost <= TEST_DATA.timeLimit
      BY <3>1 DEF TimeInv, NoFreeTime
    <3>4. state'.startSeconds - state'.elapsed + spent' - lost' <= TEST_DATA'.timeLimit
      BY <1>1, <3>1, <3>3
    <3>5. sd.timer # None =>
            sd.timer <= totalTime /\ spent - lost - state.elapsed <= totalTime - sd.timer
      BY <3>2 DEF TimeInv
    <3>6. sd'.timer # None =>
            sd'.timer <= totalTime'
            /\ spent' - lost' - Unreported(state') <= totalTime' - sd'.timer
      BY <1>1, <3>1, <3>2, <3>5
    <3> QED
      BY <3>4, <3>6 DEF TimeInv, NoFreeTime
  <2> QED
    BY <2>1, <2>2
<1>11. CASE Moves
  BY <1>4, <1>11, MoveFacts DEF lms, history
<1>12. CASE viewSavedResults \/ backToStart
  <2>1. /\ state' = [state EXCEPT !.phase = "viewResults"]
           \/ state' = [state EXCEPT !.phase = "start"]
        /\ UNCHANGED <<TEST_DATA, sd, totalTime, spent, lost>>
    BY <1>12 DEF viewSavedResults, backToStart, lms, history
  <2>2. /\ state'.timing = state.timing /\ state'.elapsed = state.elapsed
        /\ state'.startSeconds = state.startSeconds
    BY <1>1, <2>1 DEF Page
  <2> QED
    BY <1>4, <2>1, <2>2
<1>13. CASE commitSessionTime \/ UNCHANGED vars
  <2>1. UNCHANGED <<TEST_DATA, sd, totalTime, state, spent, lost>>
    BY <1>13 DEF commitSessionTime, vars, lms, history
  <2> QED
    BY <1>4, <2>1
<1> QED
  BY <1>5, <1>6, <1>7, <1>8, <1>9, <1>10, <1>11, <1>12, <1>13
     DEF Next, Launches, Screens, Walk, Moves, Commits

(* Closing and launching again gives no time back, but for what no commit   *)
(* reported.                                                                *)
THEOREM TimeIsNotGivenBack == Spec => []NoFreeTime
<1>1. Init => TimeInv
  BY FreshFacts DEF Init, TimeInv, NoFreeTime, Page
<1>2. TimeInv => NoFreeTime
  BY DEF TimeInv
<1> QED
  BY <1>1, <1>2, TimeNext, Typed, PTL DEF Spec

=============================================================================
