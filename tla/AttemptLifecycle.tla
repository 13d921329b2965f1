-------------------------- MODULE AttemptLifecycle --------------------------
(***************************************************************************)
(* The attempts of one standard test: POST /attempts/start, save-progress  *)
(* and finish (server/routes/attempts.ts), the assignments that scope the  *)
(* attempt limit, the reset of a learner, and the publication of the test  *)
(* underneath (module Publication).                                        *)
(*                                                                         *)
(* A request is a sequence of steps, one per database call; any other      *)
(* request runs between them.  Client[r] is the learner whose browser      *)
(* sends request r: a learner with one slot sends one request at a time, a *)
(* learner with two has two tabs, or a retry racing the original.          *)
(***************************************************************************)
EXTENDS Publication, RetakeGate

CONSTANTS
  Learners,
  Requests,        \* slots of learner requests running at the same time
  Client,          \* Client[r]: the learner who sends request r
  Draws,           \* what drawing the questions can deliver
  Answers,         \* answer sheets a learner can send
  RightAnswers,    \* those that pass the test
  Policy,          \* tests.retakePolicyJson
  Limit,           \* tests.maxAttempts, or Null
  MaxRows,         \* bound: attempts ever created
  MaxAssignments,  \* bound: assignments ever made
  MaxClock         \* bound: hours

VARIABLES
  attempts,   \* rows of the attempts table, by id; Null when there is no row
  created,    \* number of attempt ids handed out; a later id is a later startedAt
  assigned,   \* ids of the assignments that apply to each learner
  granted,    \* number of assignments made; a later id is a later assignedAt
  clock,      \* the server clock, in hours
  req         \* local state of every learner request

learnerVars == <<attempts, created, assigned, granted, clock, req>>
vars == <<pubVars, learnerVars>>

RowIds == 1 .. MaxRows
Hours  == 1 .. MaxClock

Result == [content : Editions, answers : Answers]

Row ==
  [owner      : Learners,
   snapshot   : SnapshotIds \cup {None},
   content    : Editions,                \* what the questions were drawn from
   active     : BOOLEAN,                 \* history: pinned to the active snapshot
   assignment : 0 .. MaxAssignments,
   drawn      : Draws,
   answers    : Answers \cup {Null},
   result     : Result \cup {Null},
   finishedAt : Hours \cup {Null}]

ASSUME LifecycleAssumption ==
  /\ Client \in [Requests -> Learners]
  /\ RightAnswers \subseteq Answers
  /\ Policy \in RetakePolicy(Nat)
  /\ Limit \in Nat \cup {Null}
  /\ MaxRows \in Nat
  /\ MaxAssignments \in Nat
  /\ MaxClock \in Nat \ {0}
  /\ Null \notin Nat \cup Row \cup Result

RequestSteps ==
  {"idle", "start_snapshot", "start_assignment", "start_attempts", "start_draw",
   "start_annul", "start_create", "save_write", "finish_grade", "finish_write"}

Request ==
  [pc         : RequestSteps,
   snapshot   : SnapshotIds \cup {None},
   content    : Editions \cup {0},
   assignment : 0 .. MaxAssignments,
   reopen     : BOOLEAN,                 \* openAttempt was found
   drawn      : Draws \cup {Null},
   row        : RowIds \cup {0},
   answers    : Answers \cup {Null}]

IdleRequest ==
  [pc |-> "idle", snapshot |-> None, content |-> 0, assignment |-> 0,
   reopen |-> FALSE, drawn |-> Null, row |-> 0, answers |-> Null]

TypeOK ==
  /\ PublicationTypeOK
  /\ attempts \in [RowIds -> Row \cup {Null}]
  /\ created \in 0 .. MaxRows
  /\ assigned \in [Learners -> SUBSET (1 .. MaxAssignments)]
  /\ granted \in 0 .. MaxAssignments
  /\ clock \in Hours
  /\ req \in [Requests -> Request]

Init ==
  /\ PublicationInit
  /\ attempts = [i \in RowIds |-> Null]
  /\ created = 0
  /\ assigned = [l \in Learners |-> {}]
  /\ granted = 0
  /\ clock = 1
  /\ req = [r \in Requests |-> IdleRequest]

(* getAttemptsByUserAndTest *)
RowsOf(l) == {i \in RowIds : attempts[i] # Null /\ attempts[i].owner = l}

OpenRows(l) == {i \in RowsOf(l) : attempts[i].finishedAt = Null}

(* The open attempt, newest startedAt first.                                *)
NewestOpen(l) == CHOOSE i \in OpenRows(l) : \A j \in OpenRows(l) : j <= i

(* attemptFacts of the start handler.                                       *)
Outcomes(row) ==
  CASE row.result = Null -> "unknown"
    [] row.result # Null -> IF row.result.answers \in RightAnswers THEN "yes" ELSE "no"

FactsOf(l) ==
  {[id         |-> i,
    assignment |-> attempts[i].assignment,
    finishedAt |-> attempts[i].finishedAt,
    passed     |-> Outcomes(attempts[i])] : i \in RowsOf(l)}

(* getCurrentAssignmentId: the newest that applies, else the NULL bucket.   *)
CurrentAssignment(l) ==
  IF assigned[l] = {} THEN 0 ELSE CHOOSE a \in assigned[l] : \A b \in assigned[l] : b <= a

(* Mutant: one attempt too many. *)
MayStartOnceMore(l, assignment) ==
  /\ decideRetake(Policy, assignment, FactsOf(l), clock).allowed
  /\ Limit # Null => countAttemptsInAssignment(FactsOf(l), assignment) <= Limit

(* The gates of the start handler: decideRetake, then maxAttempts.          *)
MayStart(l, assignment) ==
  /\ decideRetake(Policy, assignment, FactsOf(l), clock).allowed
  /\ Limit # Null => countAttemptsInAssignment(FactsOf(l), assignment) < Limit

(* What the attempts pin: getReferencedSnapshotIds.                         *)
PinnedSnapshots ==
  {attempts[i].snapshot : i \in {j \in RowIds : attempts[j] # Null}} \ {None}

Drop(rows) == [i \in RowIds |-> IF i \in rows THEN Null ELSE attempts[i]]

Goto(r, fields) == req' = [req EXCEPT ![r] = fields]
Done(r)         == req' = [req EXCEPT ![r] = IdleRequest]

-----------------------------------------------------------------------------
(* POST /tests/:testId/attempts/start                                       *)

(* sourceForStart: the test row.  A deleted test answers 404.               *)
StartReadTest(r) ==
  /\ req[r].pc = "idle"
  /\ created + Cardinality({q \in Requests : req[q].pc \in
       {"start_snapshot", "start_assignment", "start_attempts", "start_draw",
        "start_annul", "start_create"}}) < MaxRows
  /\ status # "deleted"
  /\ Goto(r, [IdleRequest EXCEPT
                !.pc = IF status = "published" THEN "start_snapshot" ELSE "start_assignment"])
  /\ UNCHANGED <<pubVars, attempts, created, assigned, granted, clock>>

(* sourceForStart: the active snapshot; without one the delivery is live.   *)
StartReadSnapshot(r) ==
  /\ req[r].pc = "start_snapshot"
  /\ IF HasSnapshot
     THEN Goto(r, [req[r] EXCEPT !.pc = "start_assignment",
                                 !.snapshot = LatestSnapshot.id,
                                 !.content = LatestSnapshot.content])
     ELSE Goto(r, [req[r] EXCEPT !.pc = "start_assignment"])
  /\ UNCHANGED <<pubVars, attempts, created, assigned, granted, clock>>

StartReadAssignment(r) ==
  /\ req[r].pc = "start_assignment"
  /\ Goto(r, [req[r] EXCEPT !.pc = "start_attempts",
                            !.assignment = CurrentAssignment(Client[r])])
  /\ UNCHANGED <<pubVars, attempts, created, assigned, granted, clock>>

(* Mutant: a restart draws anew, as it did before questions were carried    *)
(* over.                                                                    *)
StartForgetsDraw(r) ==
  LET l == Client[r]
  IN  /\ req[r].pc = "start_attempts"
      /\ IF ~MayStart(l, req[r].assignment)
         THEN Done(r)
         ELSE Goto(r, [req[r] EXCEPT !.pc = "start_draw", !.reopen = OpenRows(l) # {}])
      /\ UNCHANGED <<pubVars, attempts, created, assigned, granted, clock>>

(* Mutant: an open attempt is taken for one that passed the gates already.  *)
StartReopensUngated(r) ==
  LET l == Client[r]
  IN  /\ req[r].pc = "start_attempts"
      /\ IF OpenRows(l) = {} /\ ~MayStart(l, 0)
         THEN Done(r)
         ELSE Goto(r, [req[r] EXCEPT !.pc = "start_draw", !.reopen = OpenRows(l) # {}])
      /\ UNCHANGED <<pubVars, attempts, created, assigned, granted, clock>>

(* getAttemptsByUserAndTest, read once: the gates are decided, the open     *)
(* attempt is looked up, and its questions are carried over when it was     *)
(* dealt from the same source.                                              *)
StartReadAttempts(r) ==
  LET l       == Client[r]
      reopen  == OpenRows(l) # {}
      carried == reopen /\ attempts[NewestOpen(l)].snapshot = req[r].snapshot
  IN  /\ req[r].pc = "start_attempts"
      /\ IF ~MayStart(l, req[r].assignment)
         THEN Done(r)
         ELSE Goto(r, [req[r] EXCEPT
                !.pc      = IF carried THEN "start_annul" ELSE "start_draw",
                !.reopen  = reopen,
                !.drawn   = IF carried THEN attempts[NewestOpen(l)].drawn ELSE Null,
                !.content = IF carried THEN attempts[NewestOpen(l)].content ELSE @])
      /\ UNCHANGED <<pubVars, attempts, created, assigned, granted, clock>>

(* The draw: from the snapshot already in memory, or from the live bank.    *)
StartDraw(r) ==
  /\ req[r].pc = "start_draw"
  /\ \E d \in Draws :
       Goto(r, [req[r] EXCEPT
                  !.pc      = IF req[r].reopen THEN "start_annul" ELSE "start_create",
                  !.drawn   = d,
                  !.content = IF req[r].snapshot = None THEN bank ELSE @])
  /\ UNCHANGED <<pubVars, attempts, created, assigned, granted, clock>>

(* Mutant: the annulment is skipped. *)
StartAnnulsNothing(r) ==
  /\ req[r].pc = "start_annul"
  /\ Goto(r, [req[r] EXCEPT !.pc = "start_create"])
  /\ UNCHANGED <<pubVars, attempts, created, assigned, granted, clock>>

(* annulInProgressAttempts(testId, userId), only when an open one was seen. *)
StartAnnul(r) ==
  /\ req[r].pc = "start_annul"
  /\ attempts' = Drop(OpenRows(Client[r]))
  /\ Goto(r, [req[r] EXCEPT !.pc = "start_create"])
  /\ UNCHANGED <<pubVars, created, assigned, granted, clock>>

(* createAttempt *)
StartCreate(r) ==
  LET l == Client[r]
      q == req[r]
      i == created + 1
  IN  /\ q.pc = "start_create"
      /\ created < MaxRows
      /\ created' = i
      /\ attempts' = [attempts EXCEPT ![i] =
           [owner |-> l, snapshot |-> q.snapshot, content |-> q.content,
            active |-> HasSnapshot /\ LatestSnapshot.id = q.snapshot,
            assignment |-> q.assignment, drawn |-> q.drawn,
            answers |-> Null, result |-> Null, finishedAt |-> Null]]
      /\ Done(r)
      /\ UNCHANGED <<pubVars, assigned, granted, clock>>

-----------------------------------------------------------------------------
(* POST /attempts/:attemptId/save-progress                                  *)

(* The row is read and must belong to the caller and be open; the variant   *)
(* written back is the one read here.                                       *)
SaveRead(r) ==
  /\ req[r].pc = "idle"
  /\ \E i \in OpenRows(Client[r]), a \in Answers :
       Goto(r, [IdleRequest EXCEPT !.pc = "save_write", !.row = i, !.answers = a,
                                   !.drawn = attempts[i].drawn])
  /\ UNCHANGED <<pubVars, attempts, created, assigned, granted, clock>>

(* Mutant: a save writes the whole row it read back, finishedAt included.   *)
SaveWritesRow(r) ==
  LET q == req[r]
  IN  /\ q.pc = "save_write"
      /\ attempts' = IF attempts[q.row] = Null THEN attempts
                     ELSE [attempts EXCEPT ![q.row].answers = q.answers,
                                           ![q.row].drawn = q.drawn,
                                           ![q.row].finishedAt = Null]
      /\ Done(r)
      /\ UNCHANGED <<pubVars, created, assigned, granted, clock>>

(* updateAttempt {answersJson, variantJson}; no row, no change, still 200.  *)
SaveWrite(r) ==
  LET q == req[r]
  IN  /\ q.pc = "save_write"
      /\ attempts' = IF attempts[q.row] = Null THEN attempts
                     ELSE [attempts EXCEPT ![q.row].answers = q.answers,
                                           ![q.row].drawn = q.drawn]
      /\ Done(r)
      /\ UNCHANGED <<pubVars, created, assigned, granted, clock>>

-----------------------------------------------------------------------------
(* POST /attempts/:attemptId/finish                                         *)

(* The row is read; unlike save-progress, a finished one is accepted too.   *)
FinishRead(r) ==
  /\ req[r].pc = "idle"
  /\ \E i \in RowsOf(Client[r]), a \in Answers :
       Goto(r, [IdleRequest EXCEPT !.pc = "finish_grade", !.row = i, !.answers = a,
                                   !.snapshot = attempts[i].snapshot])
  /\ UNCHANGED <<pubVars, attempts, created, assigned, granted, clock>>

(* Mutant: grading reads the live test. *)
FinishGradesLive(r) ==
  /\ req[r].pc = "finish_grade"
  /\ IF status = "deleted"
     THEN Done(r)
     ELSE Goto(r, [req[r] EXCEPT !.pc = "finish_write", !.content = bank])
  /\ UNCHANGED <<pubVars, attempts, created, assigned, granted, clock>>

(* Grading, from the source of the attempt; a live test that is gone        *)
(* answers 404.                                                             *)
FinishGrade(r) ==
  /\ req[r].pc = "finish_grade"
  /\ IF SnapshotsOf(req[r].snapshot) = {} /\ status = "deleted"
     THEN Done(r)
     ELSE Goto(r, [req[r] EXCEPT !.pc = "finish_write",
                                 !.content = dataSourceForAttempt(req[r].snapshot)])
  /\ UNCHANGED <<pubVars, attempts, created, assigned, granted, clock>>

(* Mutant: the answers saved last are kept.                                 *)
FinishKeepsAnswers(r) ==
  LET q == req[r]
  IN  /\ q.pc = "finish_write"
      /\ attempts' = IF attempts[q.row] = Null THEN attempts
                     ELSE [attempts EXCEPT
                             ![q.row].result     = [content |-> q.content, answers |-> q.answers],
                             ![q.row].finishedAt = clock]
      /\ Done(r)
      /\ UNCHANGED <<pubVars, created, assigned, granted, clock>>

(* updateAttempt {answersJson, resultJson, finishedAt}                      *)
FinishWrite(r) ==
  LET q == req[r]
  IN  /\ q.pc = "finish_write"
      /\ attempts' = IF attempts[q.row] = Null THEN attempts
                     ELSE [attempts EXCEPT
                             ![q.row].answers    = q.answers,
                             ![q.row].result     = [content |-> q.content, answers |-> q.answers],
                             ![q.row].finishedAt = clock]
      /\ Done(r)
      /\ UNCHANGED <<pubVars, created, assigned, granted, clock>>

-----------------------------------------------------------------------------
(* Assignments, reset and publication                                       *)

(* createTestAssignment, to one learner or to a group of them.              *)
Assign ==
  /\ granted < MaxAssignments
  /\ granted' = granted + 1
  /\ \E group \in SUBSET Learners \ {{}} :
       assigned' = [l \in Learners |->
                      IF l \in group THEN assigned[l] \cup {granted'} ELSE assigned[l]]
  /\ UNCHANGED <<pubVars, attempts, created, clock, req>>

(* deleteTestAssignment: the attempts keep the id they were taken under.    *)
Unassign ==
  /\ \E a \in UNION {assigned[l] : l \in Learners} :
       assigned' = [l \in Learners |-> assigned[l] \ {a}]
  /\ UNCHANGED <<pubVars, attempts, created, granted, clock, req>>

(* POST /users/:id/reset-attempts: finished and open rows alike.            *)
ResetAttempts(l) ==
  /\ RowsOf(l) # {}
  /\ attempts' = Drop(RowsOf(l))
  /\ UNCHANGED <<pubVars, created, assigned, granted, clock, req>>

(* Steps of the author that leave the attempts alone.                       *)
PublicationStep ==
  /\ \/ EditBank
     \/ \E to \in {"draft", "archived"} : Withdraw(to)
     \/ \E p \in Publishers :
          \/ BeginPublish(p)
          \/ PatchStatus(p)
          \/ BeginRepublishForce(p)
          \/ BuildContent(p)
          \/ ReadVersion(p)
          \/ InsertSnapshot(p)
          \/ ReadAll(p)
          \/ ReadReferenced(p, PinnedSnapshots)
          \/ DeleteDoomed(p)
  /\ UNCHANGED <<attempts, created, assigned, granted, clock, req>>

(* republish-force: annulInProgressAttempts(testId) for every learner.      *)
AnnulAll(p) ==
  /\ AnnulDone(p)
  /\ attempts' = Drop(UNION {OpenRows(l) : l \in Learners})
  /\ UNCHANGED <<created, assigned, granted, clock, req>>

(* DELETE /tests/:id: deleteTest takes attempts and assignments with it.    *)
DeleteEverything ==
  /\ DeleteTest
  /\ attempts' = [i \in RowIds |-> Null]
  /\ assigned' = [l \in Learners |-> {}]
  /\ UNCHANGED <<created, granted, clock, req>>

Tick ==
  /\ clock < MaxClock
  /\ clock' = clock + 1
  /\ UNCHANGED <<pubVars, attempts, created, assigned, granted, req>>

LearnerStep(r) ==
  \/ StartReadTest(r)
  \/ StartReadSnapshot(r)
  \/ StartReadAssignment(r)
  \/ StartReadAttempts(r)
  \/ StartDraw(r)
  \/ StartAnnul(r)
  \/ StartCreate(r)
  \/ SaveRead(r)
  \/ SaveWrite(r)
  \/ FinishRead(r)
  \/ FinishGrade(r)
  \/ FinishWrite(r)

Next ==
  \/ \E r \in Requests : LearnerStep(r)
  \/ \E l \in Learners : ResetAttempts(l)
  \/ \E p \in Publishers : AnnulAll(p)
  \/ Assign
  \/ Unassign
  \/ PublicationStep
  \/ DeleteEverything
  \/ Tick

Spec == Init /\ [][Next]_vars

-----------------------------------------------------------------------------
(* What holds however requests interleave.                                  *)

(* save-progress, start and the annulments race with finish: once an attempt *)
(* has a finishedAt it never becomes an attempt in progress again.          *)
FinishedNeverReopens ==
  [][\A i \in RowIds :
       attempts[i] # Null /\ attempts[i].finishedAt # Null /\ attempts'[i] # Null
         => attempts'[i].finishedAt # Null]_vars

(* annulInProgressAttempts runs in a start and in a forced republication,   *)
(* while finish is on its way: neither they nor any other request takes a   *)
(* finished attempt away; only the administrator's reset and the deletion   *)
(* of the test do.                                                          *)
NoRequestDropsFinished ==
  [][\A i \in RowIds :
       (attempts[i] # Null /\ attempts[i].finishedAt # Null /\ attempts'[i] = Null)
         => req' = req /\ pub' = pub]_vars

(* A finished attempt is final to every request: overlapping tabs, retries,  *)
(* restarts and forced republications leave it finished and in its place.   *)
FinishedIsFinal ==
  [][\A i \in RowIds :
       attempts[i] # Null /\ attempts[i].finishedAt # Null =>
         IF attempts'[i] = Null THEN req' = req /\ pub' = pub
         ELSE attempts'[i].finishedAt # Null]_vars

(* PRD-15 block B: such an attempt is graded from the content it was dealt   *)
(* from, whatever happened to the bank and to later publications.           *)
GradedAsDelivered ==
  \A i \in RowIds :
    (attempts[i] # Null /\ attempts[i].active /\ attempts[i].result # Null)
      => attempts[i].result.content = attempts[i].content

(* A request touches no attempt but its own learner's: in particular the     *)
(* annulment of a start is narrowed to the learner who starts.              *)
OthersUntouched ==
  [][\A r \in Requests : req'[r] # req[r] =>
       \A i \in RowIds : attempts'[i] # attempts[i] =>
         \A row \in {attempts[i], attempts'[i]} \ {Null} : row.owner = Client[r]]_vars

-----------------------------------------------------------------------------
(* What holds while publications of the test follow one another.            *)

(* pruneSnapshots: the active snapshot, the one of the highest version, is   *)
(* never deleted except with the test; a second publication under way would *)
(* have its snapshot taken for an old one.                                  *)
ActiveSnapshotKept ==
  [][HasSnapshot /\ status' # "deleted"
       => \E s \in snapshots' : s.version >= LatestSnapshot.version]_vars

-----------------------------------------------------------------------------
(* What holds when each learner sends one request at a time.                *)

(* The start route drops the open attempt before it opens the next one.     *)
AtMostOneOpen ==
  \A l \in Learners : \A i, j \in OpenRows(l) : i = j

(* PRD-31 FR-07: no assignment is worth more finished attempts than the      *)
(* limit, though finishing checks no limit and starting checks it several    *)
(* steps before the row is written.                                         *)
QuotaHolds ==
  Limit # Null =>
    \A l \in Learners, a \in 0 .. MaxAssignments :
      countAttemptsInAssignment(FactsOf(l), a) <= Limit

(* The gates are decided on attempts read steps before the row is written:   *)
(* they would still let the learner in at the moment it is.                 *)
OpenedUnderGate ==
  [][\A i \in RowIds :
       attempts[i] = Null /\ attempts'[i] # Null
         => MayStart(attempts'[i].owner, attempts'[i].assignment)]_vars

(* The answers on a finished attempt are those its result was graded from.  *)
ResultOfSavedAnswers ==
  \A i \in RowIds :
    (attempts[i] # Null /\ attempts[i].result # Null)
      => attempts[i].result.answers = attempts[i].answers

=============================================================================
