----------------------- MODULE AttemptLifecycleProofs -----------------------
(***************************************************************************)
(* Proofs about AttemptLifecycle and AttemptHistory, for any learners,     *)
(* requests, publishers, policy and bounds.                                *)
(*                                                                         *)
(* Types come first (TypeInv), then what holds however requests            *)
(* interleave (SafeInv).  What holds when each learner sends one request   *)
(* at a time (OneTabEach) follows: one open attempt (OneOpenInv), the      *)
(* answers behind a result (SavedInv), the gates and the quota (GateInv).  *)
(* What holds when publications follow one another (OnePublisher), however *)
(* many requests there are, is SourceInv.  What a learner is dealt         *)
(* (DealtInv) is last.                                                     *)
(***************************************************************************)
EXTENDS AttemptHistory, TLAPS, WellFoundedInduction, FiniteSetTheorems, FunctionTheorems

(* Sets of natural numbers below a bound have a greatest element: what the   *)
(* newest attempt, the latest version and the current assignment rest on.   *)
LEMMA GreatestExists ==
  ASSUME NEW n \in Nat, NEW S \in SUBSET (0 .. n), S # {}
  PROVE  \E m \in S : \A i \in S : i <= m
<1> DEFINE T == {n - i : i \in S}
<1>1. T \subseteq Nat /\ T # {}
  <2>1. T \subseteq Nat
    OBVIOUS
  <2>2. PICK i \in S : TRUE
    OBVIOUS
  <2>3. n - i \in T
    OBVIOUS
  <2> QED
    BY <2>1, <2>3
<1>2. PICK x \in T : \A y \in T : ~ (<<y, x>> \in OpToRel(<, Nat))
  <2> HIDE DEF T
  <2> QED
    BY <1>1, NatLessThanWellFounded, WFMin
<1>3. \A y \in T : x <= y
  <2> SUFFICES ASSUME NEW y \in T PROVE x <= y
    OBVIOUS
  <2>1. x \in Nat /\ y \in Nat
    BY <1>1
  <2>2. ~ (y < x)
    BY <1>2, <2>1 DEF OpToRel
  <2> QED
    BY <2>1, <2>2
<1>4. PICK m \in S : x = n - m
  OBVIOUS
<1>5. \A i \in S : n - m <= n - i
  BY <1>3, <1>4
<1> QED
  BY <1>5

-----------------------------------------------------------------------------
(* The inductive invariant behind the types: what a request carries is       *)
(* filled in by the step before the one that uses it, and versions never    *)
(* run ahead of the snapshots made.                                         *)

Drawn(q)    == q.drawn \in Draws /\ q.content \in Editions
Answered(q) == q.row \in RowIds /\ q.answers \in Answers

RequestReady(q) ==
  /\ q.pc \in {"start_annul", "start_create"} => Drawn(q)
  /\ q.pc \in {"start_snapshot", "start_assignment", "start_attempts", "start_draw"}
       /\ q.snapshot # None
       => q.content \in Editions
  /\ q.pc = "save_write" => Answered(q) /\ q.drawn \in Draws
  /\ q.pc = "finish_grade" => Answered(q)
  /\ q.pc = "finish_write" => Answered(q) /\ q.content \in Editions

PublisherReady(q) ==
  /\ q.pc \in {"version", "insert"} => q.content \in Editions
  /\ q.pc = "insert" => q.version \in 1 .. minted + 1

SnapshotsMinted == \A s \in snapshots : s.version <= minted

TypeInv ==
  /\ TypeOK
  /\ \A r \in Requests : RequestReady(req[r])
  /\ \A p \in Publishers : PublisherReady(pub[p])
  /\ SnapshotsMinted

PubInv ==
  /\ PublicationTypeOK
  /\ \A p \in Publishers : PublisherReady(pub[p])
  /\ SnapshotsMinted

(* getLatestSnapshot returns a row whenever there is one, and none has a     *)
(* higher version.                                                          *)
LEMMA LatestIsSnapshot ==
  ASSUME PubInv, HasSnapshot
  PROVE  /\ LatestSnapshot \in snapshots
         /\ \A t \in snapshots : t.version <= LatestSnapshot.version
<1> DEFINE versions == {s.version : s \in snapshots}
<1>1. minted \in Nat /\ snapshots \subseteq Snapshot
  BY PublicationAssumption DEF PubInv, PublicationTypeOK
<1>2. \A s \in snapshots : s.version \in 0 .. minted
  BY <1>1 DEF PubInv, SnapshotsMinted, Snapshot
<1>3. versions \in SUBSET (0 .. minted) /\ versions # {}
  <2>1. PICK s \in snapshots : TRUE
    BY DEF HasSnapshot
  <2>2. s.version \in versions
    OBVIOUS
  <2> QED
    BY <1>2, <2>2
<1>4. PICK v \in versions : \A w \in versions : w <= v
  <2> HIDE DEF versions
  <2> QED
    BY <1>1, <1>3, GreatestExists
<1>5. PICK s \in snapshots : s.version = v
  OBVIOUS
<1>6. \A t \in snapshots : t.version <= s.version
  BY <1>4, <1>5
<1> QED
  BY <1>5, <1>6 DEF LatestSnapshot

(* The open attempt the start handler picks is one of the learner's open    *)
(* attempts.                                                                *)
LEMMA NewestIsOpen ==
  ASSUME NEW l \in Learners, OpenRows(l) # {}
  PROVE  NewestOpen(l) \in OpenRows(l)
<1>1. OpenRows(l) \in SUBSET (0 .. MaxRows) /\ MaxRows \in Nat
  BY LifecycleAssumption DEF OpenRows, RowsOf, RowIds
<1>2. \E m \in OpenRows(l) : \A i \in OpenRows(l) : i <= m
  BY <1>1, GreatestExists
<1> QED
  BY <1>2 DEF NewestOpen

(* The current assignment of a learner is an assignment id or 0. *)
LEMMA CurrentAssignmentType ==
  ASSUME TypeOK, NEW l \in Learners
  PROVE  CurrentAssignment(l) \in 0 .. MaxAssignments
<1>1. MaxAssignments \in Nat /\ assigned[l] \in SUBSET (1 .. MaxAssignments)
  BY LifecycleAssumption DEF TypeOK
<1>2. CASE assigned[l] = {}
  BY <1>1, <1>2 DEF CurrentAssignment
<1>3. CASE assigned[l] # {}
  <2>1. assigned[l] \in SUBSET (0 .. MaxAssignments)
    BY <1>1
  <2>2. \E m \in assigned[l] : \A i \in assigned[l] : i <= m
    BY <1>1, <1>3, <2>1, GreatestExists
  <2>3. CurrentAssignment(l) \in assigned[l]
    BY <1>3, <2>2 DEF CurrentAssignment
  <2> QED
    BY <2>1, <2>3
<1> QED
  BY <1>2, <1>3

-----------------------------------------------------------------------------
(* Learner requests keep the invariant.                                     *)

ReqInv == req \in [Requests -> Request] /\ \A r \in Requests : RequestReady(req[r])

LEMMA TypeInvParts ==
  TypeInv <=> /\ ReqInv /\ PubInv
              /\ attempts \in [RowIds -> Row \cup {Null}]
              /\ created \in 0 .. MaxRows
              /\ assigned \in [Learners -> SUBSET (1 .. MaxAssignments)]
              /\ granted \in 0 .. MaxAssignments
              /\ clock \in Hours
BY DEF TypeInv, TypeOK, ReqInv, PubInv

LEMMA IdleIsReady == IdleRequest \in Request /\ RequestReady(IdleRequest)
<1>1. IdleRequest \in Request
  BY LifecycleAssumption DEF IdleRequest, Request, RequestSteps
<1> QED
  BY <1>1 DEF IdleRequest, RequestReady

(* A request moves to a local state that is typed and ready. *)
LEMMA GotoKeeps ==
  ASSUME ReqInv, NEW r \in Requests, NEW q \in Request, RequestReady(q), Goto(r, q)
  PROVE  ReqInv'
<1>1. req' = [req EXCEPT ![r] = q]
  BY DEF Goto
<1>2. req' \in [Requests -> Request]
  BY <1>1 DEF ReqInv
<1>3. \A x \in Requests : req'[x] = IF x = r THEN q ELSE req[x]
  BY <1>1 DEF ReqInv
<1>4. \A x \in Requests : RequestReady(req[x])'
  BY <1>3 DEF ReqInv, RequestReady, Drawn, Answered
<1> QED
  BY <1>2, <1>4 DEF ReqInv

LEMMA DoneKeeps ==
  ASSUME ReqInv, NEW r \in Requests, Done(r)
  PROVE  ReqInv'
<1>1. Goto(r, IdleRequest)
  BY DEF Done, Goto
<1> QED
  BY <1>1, GotoKeeps, IdleIsReady

(* A step that leaves the publication alone keeps its part. *)
LEMMA PubFrame ==
  ASSUME PubInv, UNCHANGED pubVars
  PROVE  PubInv'
BY DEF PubInv, pubVars, PublicationTypeOK, PublisherReady, SnapshotsMinted

(* A request that writes no row keeps everything once its own state is. *)
LEMMA RequestFrame ==
  ASSUME TypeInv, ReqInv',
         UNCHANGED <<pubVars, attempts, created, assigned, granted, clock>>
  PROVE  TypeInv'
<1>1. PubInv'
  BY PubFrame, TypeInvParts
<1> QED
  BY <1>1 DEF TypeInv, TypeOK, ReqInv, PubInv

(* The reads of a start, up to the draw. *)
LEMMA StartReadsTyped ==
  ASSUME TypeInv, NEW r \in Requests,
         StartReadTest(r) \/ StartReadSnapshot(r) \/ StartReadAssignment(r)
           \/ StartReadAttempts(r) \/ StartDraw(r)
  PROVE  TypeInv'
<1>1. /\ ReqInv /\ PubInv /\ req[r] \in Request /\ RequestReady(req[r])
      /\ Client[r] \in Learners
  BY TypeInvParts, LifecycleAssumption DEF ReqInv
<1>2. CASE StartReadTest(r)
  <2> DEFINE q == [IdleRequest EXCEPT
                     !.pc = IF status = "published" THEN "start_snapshot" ELSE "start_assignment"]
  <2>1. q \in Request /\ RequestReady(q)
    BY IdleIsReady DEF IdleRequest, Request, RequestSteps, RequestReady
  <2>2. Goto(r, q)
    BY <1>2 DEF StartReadTest
  <2> HIDE DEF q
  <2>3. ReqInv'
    BY <1>1, <2>1, <2>2, GotoKeeps
  <2> QED
    BY <1>2, <2>3, RequestFrame DEF StartReadTest
<1>3. CASE StartReadSnapshot(r)
  <2>1. ASSUME HasSnapshot
        PROVE  LatestSnapshot.id \in SnapshotIds /\ LatestSnapshot.content \in Editions
    <3>1. LatestSnapshot \in Snapshot
      BY <1>1, <2>1, LatestIsSnapshot DEF PubInv, PublicationTypeOK
    <3> QED
      BY <3>1 DEF Snapshot
  <2> DEFINE q == IF HasSnapshot
                  THEN [req[r] EXCEPT !.pc = "start_assignment",
                                      !.snapshot = LatestSnapshot.id,
                                      !.content = LatestSnapshot.content]
                  ELSE [req[r] EXCEPT !.pc = "start_assignment"]
  <2>2. Goto(r, q)
    BY <1>3 DEF StartReadSnapshot, Goto
  <2>3. q \in Request
    BY <1>1, <2>1 DEF Request, RequestSteps
  <2>4. RequestReady(q)
    <3>1. CASE HasSnapshot
      BY <1>1, <2>1, <3>1 DEF Request, RequestReady
    <3>2. CASE ~HasSnapshot
      <4>1. req[r].pc = "start_snapshot"
        BY <1>3 DEF StartReadSnapshot
      <4> QED
        BY <1>1, <3>2, <4>1 DEF Request, RequestReady
    <3> QED
      BY <3>1, <3>2
  <2> HIDE DEF q
  <2>5. ReqInv'
    BY <1>1, <2>2, <2>3, <2>4, GotoKeeps
  <2> QED
    BY <1>3, <2>5, RequestFrame DEF StartReadSnapshot
<1>4. CASE StartReadAssignment(r)
  <2> DEFINE q == [req[r] EXCEPT !.pc = "start_attempts",
                                 !.assignment = CurrentAssignment(Client[r])]
  <2>1. CurrentAssignment(Client[r]) \in 0 .. MaxAssignments
    BY <1>1, CurrentAssignmentType DEF TypeInv
  <2>2. q \in Request /\ RequestReady(q)
    <3>1. req[r].pc = "start_assignment"
      BY <1>4 DEF StartReadAssignment
    <3> QED
      BY <1>1, <2>1, <3>1 DEF Request, RequestSteps, RequestReady
  <2>3. Goto(r, q)
    BY <1>4 DEF StartReadAssignment
  <2> HIDE DEF q
  <2>4. ReqInv'
    BY <1>1, <2>2, <2>3, GotoKeeps
  <2> QED
    BY <1>4, <2>4, RequestFrame DEF StartReadAssignment
<1>5. CASE StartReadAttempts(r)
  <2> DEFINE l       == Client[r]
             reopen  == OpenRows(l) # {}
             carried == reopen /\ attempts[NewestOpen(l)].snapshot = req[r].snapshot
             q == [req[r] EXCEPT
                     !.pc      = IF carried THEN "start_annul" ELSE "start_draw",
                     !.reopen  = reopen,
                     !.drawn   = IF carried THEN attempts[NewestOpen(l)].drawn ELSE Null,
                     !.content = IF carried THEN attempts[NewestOpen(l)].content ELSE @]
  <2>1. Goto(r, q) \/ Done(r)
    BY <1>5 DEF StartReadAttempts
  <2>2. ASSUME reopen
        PROVE  attempts[NewestOpen(l)].drawn \in Draws /\ attempts[NewestOpen(l)].content \in Editions
    <3>1. NewestOpen(l) \in RowIds /\ attempts[NewestOpen(l)] # Null
      BY <1>1, <2>2, NewestIsOpen DEF OpenRows, RowsOf
    <3>2. attempts[NewestOpen(l)] \in Row
      BY <3>1, TypeInvParts
    <3> QED
      BY <3>2 DEF Row
  <2>3. q \in Request /\ RequestReady(q)
    <3>1. req[r].pc = "start_attempts"
      BY <1>5 DEF StartReadAttempts
    <3>2. CASE carried
      <4> HIDE DEF l, reopen
      <4> QED
        BY <1>1, <2>2, <3>2 DEF Request, RequestSteps, RequestReady, Drawn, reopen
    <3>3. CASE ~carried
      <4>1. q = [req[r] EXCEPT !.pc = "start_draw", !.reopen = reopen, !.drawn = Null,
                               !.content = req[r].content]
        BY <3>3
      <4> HIDE DEF carried, reopen, q
      <4>2. reopen \in BOOLEAN
        BY DEF reopen
      <4>3. q \in Request
        BY <1>1, <4>1, <4>2 DEF Request, RequestSteps
      <4>4. RequestReady(q)
        BY <1>1, <3>1, <4>1 DEF Request, RequestSteps, RequestReady
      <4> QED
        BY <4>3, <4>4
    <3> QED
      BY <3>2, <3>3
  <2> HIDE DEF q
  <2>4. ReqInv'
    BY <1>1, <2>1, <2>3, GotoKeeps, DoneKeeps
  <2> QED
    BY <1>5, <2>4, RequestFrame DEF StartReadAttempts
<1>6. CASE StartDraw(r)
  <2> DEFINE q(d) == [req[r] EXCEPT
                        !.pc      = IF req[r].reopen THEN "start_annul" ELSE "start_create",
                        !.drawn   = d,
                        !.content = IF req[r].snapshot = None THEN bank ELSE @]
  <2>1. PICK d \in Draws : Goto(r, q(d))
    BY <1>6 DEF StartDraw
  <2>2. q(d) \in Request /\ RequestReady(q(d))
    <3>1. req[r].pc = "start_draw" /\ bank \in Editions
      BY <1>1, <1>6 DEF StartDraw, PubInv, PublicationTypeOK
    <3>2. (IF req[r].snapshot = None THEN bank ELSE req[r].content) \in Editions
      BY <1>1, <3>1 DEF RequestReady
    <3> QED
      BY <1>1, <3>2 DEF Request, RequestSteps, RequestReady, Drawn
  <2>3. ReqInv'
    BY <1>1, <2>1, <2>2, GotoKeeps
  <2> QED
    BY <1>6, <2>3, RequestFrame DEF StartDraw
<1> QED
  BY <1>2, <1>3, <1>4, <1>5, <1>6

(* A request that writes rows keeps everything once the rows are typed. *)
LEMMA RowFrame ==
  ASSUME TypeInv, ReqInv', created' \in 0 .. MaxRows,
         attempts' \in [RowIds -> Row \cup {Null}],
         UNCHANGED <<pubVars, assigned, granted, clock>>
  PROVE  TypeInv'
<1>1. PubInv'
  BY PubFrame, TypeInvParts
<1> QED
  BY <1>1 DEF TypeInv, TypeOK, ReqInv, PubInv

LEMMA DropTyped ==
  ASSUME attempts \in [RowIds -> Row \cup {Null}], NEW rows
  PROVE  Drop(rows) \in [RowIds -> Row \cup {Null}]
BY DEF Drop

(* The end of a start. *)
LEMMA StartWritesTyped ==
  ASSUME TypeInv, NEW r \in Requests, StartAnnul(r) \/ StartCreate(r)
  PROVE  TypeInv'
<1>1. /\ ReqInv /\ PubInv /\ req[r] \in Request /\ RequestReady(req[r])
      /\ Client[r] \in Learners
      /\ attempts \in [RowIds -> Row \cup {Null}] /\ created \in 0 .. MaxRows
  BY TypeInvParts, LifecycleAssumption DEF ReqInv
<1>2. CASE StartAnnul(r)
  <2> DEFINE q == [req[r] EXCEPT !.pc = "start_create"]
  <2>1. q \in Request /\ RequestReady(q)
    <3>1. req[r].pc = "start_annul"
      BY <1>2 DEF StartAnnul
    <3> QED
      BY <1>1, <3>1 DEF Request, RequestSteps, RequestReady, Drawn
  <2>2. Goto(r, q)
    BY <1>2 DEF StartAnnul
  <2> HIDE DEF q
  <2>3. ReqInv'
    BY <1>1, <2>1, <2>2, GotoKeeps
  <2>4. attempts' \in [RowIds -> Row \cup {Null}]
    BY <1>1, <1>2, DropTyped DEF StartAnnul
  <2> QED
    BY <1>1, <1>2, <2>3, <2>4, RowFrame DEF StartAnnul
<1>3. CASE StartCreate(r)
  <2> DEFINE q   == req[r]
             row == [owner |-> Client[r], snapshot |-> q.snapshot, content |-> q.content,
                     active |-> HasSnapshot /\ LatestSnapshot.id = q.snapshot,
                     assignment |-> q.assignment, drawn |-> q.drawn,
                     answers |-> Null, result |-> Null, finishedAt |-> Null]
  <2>1. Drawn(q)
    BY <1>1, <1>3 DEF RequestReady, StartCreate
  <2>2. row \in Row
    <3> DEFINE active == HasSnapshot /\ LatestSnapshot.id = q.snapshot
    <3>1. active \in BOOLEAN
      OBVIOUS
    <3> HIDE DEF active
    <3>2. [owner |-> Client[r], snapshot |-> q.snapshot, content |-> q.content,
           active |-> active, assignment |-> q.assignment, drawn |-> q.drawn,
           answers |-> Null, result |-> Null, finishedAt |-> Null] \in Row
      BY <1>1, <2>1, <3>1 DEF Row, Drawn, Request
    <3> QED
      BY <3>2 DEF active
  <2>3. ReqInv'
    BY <1>1, <1>3, DoneKeeps DEF StartCreate
  <2>4. created' \in 0 .. MaxRows
    BY <1>1, <1>3, LifecycleAssumption DEF StartCreate
  <2>5. attempts' = [attempts EXCEPT ![created + 1] = row]
    BY <1>3 DEF StartCreate
  <2> HIDE DEF row
  <2>6. attempts' \in [RowIds -> Row \cup {Null}]
    BY <1>1, <2>2, <2>5
  <2> QED
    BY <1>3, <2>3, <2>4, <2>6, RowFrame DEF StartCreate
<1> QED
  BY <1>2, <1>3

(* save-progress and finish. *)
LEMMA SaveFinishTyped ==
  ASSUME TypeInv, NEW r \in Requests,
         SaveRead(r) \/ SaveWrite(r) \/ FinishRead(r) \/ FinishGrade(r) \/ FinishWrite(r)
  PROVE  TypeInv'
<1>1. /\ ReqInv /\ PubInv /\ req[r] \in Request /\ RequestReady(req[r])
      /\ attempts \in [RowIds -> Row \cup {Null}] /\ created \in 0 .. MaxRows
      /\ clock \in Hours
  BY TypeInvParts DEF ReqInv
<1>2. CASE SaveRead(r)
  <2> DEFINE q(i, a) == [IdleRequest EXCEPT !.pc = "save_write", !.row = i, !.answers = a,
                                            !.drawn = attempts[i].drawn]
  <2>1. PICK i \in OpenRows(Client[r]), a \in Answers : Goto(r, q(i, a))
    BY <1>2 DEF SaveRead
  <2>2. i \in RowIds /\ attempts[i] \in Row
    BY <1>1 DEF OpenRows, RowsOf
  <2>3. attempts[i].drawn \in Draws
    BY <2>2 DEF Row
  <2>4. q(i, a) \in Request /\ RequestReady(q(i, a))
    BY <2>2, <2>3, IdleIsReady DEF IdleRequest, Request, RequestSteps, RequestReady, Answered
  <2>5. ReqInv'
    BY <1>1, <2>1, <2>4, GotoKeeps
  <2> QED
    BY <1>2, <2>5, RequestFrame DEF SaveRead
<1>3. CASE SaveWrite(r)
  <2> DEFINE q == req[r]
  <2>1. Answered(q) /\ q.drawn \in Draws
    BY <1>1, <1>3 DEF RequestReady, SaveWrite
  <2>2. attempts' \in [RowIds -> Row \cup {Null}]
    <3>1. CASE attempts[q.row] = Null
      BY <1>1, <1>3, <3>1 DEF SaveWrite
    <3>2. CASE attempts[q.row] # Null
      <4> DEFINE row == [attempts[q.row] EXCEPT !.answers = q.answers, !.drawn = q.drawn]
      <4>1. attempts[q.row] \in Row
        BY <1>1, <2>1, <3>2 DEF Answered
      <4>2. row \in Row
        BY <2>1, <4>1 DEF Row, Answered
      <4>3. attempts' = [attempts EXCEPT ![q.row] = row]
        BY <1>1, <1>3, <3>2 DEF SaveWrite
      <4> HIDE DEF row
      <4> QED
        BY <1>1, <4>2, <4>3
    <3> QED
      BY <3>1, <3>2
  <2>3. ReqInv'
    BY <1>1, <1>3, DoneKeeps DEF SaveWrite
  <2> QED
    BY <1>1, <1>3, <2>2, <2>3, RowFrame DEF SaveWrite
<1>4. CASE FinishRead(r)
  <2> DEFINE q(i, a) == [IdleRequest EXCEPT !.pc = "finish_grade", !.row = i, !.answers = a,
                                            !.snapshot = attempts[i].snapshot]
  <2>1. PICK i \in RowsOf(Client[r]), a \in Answers : Goto(r, q(i, a))
    BY <1>4 DEF FinishRead
  <2>2. i \in RowIds /\ attempts[i] \in Row
    BY <1>1 DEF RowsOf
  <2>3. attempts[i].snapshot \in SnapshotIds \cup {None}
    BY <2>2 DEF Row
  <2>4. q(i, a) \in Request /\ RequestReady(q(i, a))
    BY <2>2, <2>3, IdleIsReady DEF IdleRequest, Request, RequestSteps, RequestReady, Answered
  <2>5. ReqInv'
    BY <1>1, <2>1, <2>4, GotoKeeps
  <2> QED
    BY <1>4, <2>5, RequestFrame DEF FinishRead
<1>5. CASE FinishGrade(r)
  <2> DEFINE pinned  == SnapshotsOf(req[r].snapshot)
             content == dataSourceForAttempt(req[r].snapshot)
             q       == [req[r] EXCEPT !.pc = "finish_write", !.content = content]
  <2>1. Goto(r, q) \/ Done(r)
    BY <1>5 DEF FinishGrade
  <2>2. content \in Editions
    <3>1. bank \in Editions /\ \A s \in pinned : s.content \in Editions
      BY <1>1 DEF PubInv, PublicationTypeOK, Snapshot, SnapshotsOf
    <3>2. content = IF pinned = {} THEN bank ELSE (CHOOSE s \in pinned : TRUE).content
      BY DEF dataSourceForAttempt
    <3> HIDE DEF pinned, content
    <3> QED
      BY <3>1, <3>2
  <2>3. q \in Request /\ RequestReady(q)
    <3>1. req[r].pc = "finish_grade"
      BY <1>5 DEF FinishGrade
    <3> HIDE DEF content
    <3> QED
      BY <1>1, <2>2, <3>1 DEF Request, RequestSteps, RequestReady, Answered
  <2> HIDE DEF q
  <2>4. ReqInv'
    BY <1>1, <2>1, <2>3, GotoKeeps, DoneKeeps
  <2> QED
    BY <1>5, <2>4, RequestFrame DEF FinishGrade
<1>6. CASE FinishWrite(r)
  <2> DEFINE q == req[r]
  <2>1. Answered(q) /\ q.content \in Editions
    BY <1>1, <1>6 DEF RequestReady, FinishWrite
  <2>2. attempts' \in [RowIds -> Row \cup {Null}]
    <3>1. CASE attempts[q.row] = Null
      BY <1>1, <1>6, <3>1 DEF FinishWrite
    <3>2. CASE attempts[q.row] # Null
      <4> DEFINE result == [content |-> q.content, answers |-> q.answers]
                 row    == [attempts[q.row] EXCEPT !.answers = q.answers, !.result = result,
                                                   !.finishedAt = clock]
      <4>1. attempts[q.row] \in Row
        BY <1>1, <2>1, <3>2 DEF Answered
      <4>2. result \in Result
        BY <2>1 DEF Result, Answered
      <4>3. row \in Row
        <5> HIDE DEF result
        <5> QED
          BY <1>1, <2>1, <4>1, <4>2 DEF Row, Answered
      <4>4. attempts' = [attempts EXCEPT ![q.row] = row]
        BY <1>1, <1>6, <3>2 DEF FinishWrite
      <4> HIDE DEF row
      <4> QED
        BY <1>1, <4>3, <4>4
    <3> QED
      BY <3>1, <3>2
  <2>3. ReqInv'
    BY <1>1, <1>6, DoneKeeps DEF FinishWrite
  <2> QED
    BY <1>1, <1>6, <2>2, <2>3, RowFrame DEF FinishWrite
<1> QED
  BY <1>2, <1>3, <1>4, <1>5, <1>6

-----------------------------------------------------------------------------
(* The other actors keep the invariant.                                     *)

LEMMA IdlePublisherIsReady == IdlePublisher \in Publisher /\ PublisherReady(IdlePublisher)
<1>1. IdlePublisher \in Publisher
  BY DEF IdlePublisher, Publisher, PublisherSteps, None
<1> QED
  BY <1>1 DEF IdlePublisher, PublisherReady

(* A publisher moves to a local state that is typed and ready. *)
LEMMA PubGoto ==
  ASSUME PubInv, NEW p \in Publishers, NEW q \in Publisher, PublisherReady(q),
         pub' = [pub EXCEPT ![p] = q],
         status' \in Statuses, UNCHANGED <<bank, snapshots, minted>>
  PROVE  PubInv'
<1>1. pub' \in [Publishers -> Publisher]
  BY DEF PubInv, PublicationTypeOK
<1>2. \A x \in Publishers : pub'[x] = IF x = p THEN q ELSE pub[x]
  BY DEF PubInv, PublicationTypeOK
<1>3. \A x \in Publishers : PublisherReady(pub[x])'
  BY <1>2 DEF PubInv, PublisherReady
<1> QED
  BY <1>1, <1>3 DEF PubInv, PublicationTypeOK, SnapshotsMinted

(* The steps of a publisher that only move it on. *)
LEMMA PublisherMoves ==
  ASSUME PubInv, NEW p \in Publishers,
         \/ BeginPublish(p)
         \/ PatchStatus(p)
         \/ BeginRepublishForce(p)
         \/ AnnulDone(p)
         \/ BuildContent(p)
         \/ ReadVersion(p)
         \/ ReadAll(p)
         \/ ReadReferenced(p, PinnedSnapshots)
  PROVE  PubInv'
<1>1. /\ pub \in [Publishers -> Publisher] /\ pub[p] \in Publisher /\ PublisherReady(pub[p])
      /\ status \in Statuses /\ bank \in Editions /\ minted \in Nat
      /\ snapshots \subseteq Snapshot
  BY PublicationAssumption DEF PubInv, PublicationTypeOK
<1>2. CASE BeginPublish(p)
  <2> DEFINE q == [pub[p] EXCEPT !.pc = "patch"]
  <2>1. q \in Publisher /\ PublisherReady(q)
    BY <1>1 DEF Publisher, PublisherSteps, PublisherReady
  <2>2. pub' = [pub EXCEPT ![p] = q]
    BY <1>1, <1>2 DEF BeginPublish
  <2> HIDE DEF q
  <2> QED
    BY <1>1, <1>2, <2>1, <2>2, PubGoto DEF BeginPublish
<1>3. CASE PatchStatus(p)
  <2> DEFINE q == IF status = "deleted" THEN IdlePublisher ELSE [pub[p] EXCEPT !.pc = "build"]
  <2>1. q \in Publisher /\ PublisherReady(q)
    <3>1. LET b == [pub[p] EXCEPT !.pc = "build"] IN b \in Publisher /\ PublisherReady(b)
      BY <1>1 DEF Publisher, PublisherSteps, PublisherReady
    <3> QED
      BY <3>1, IdlePublisherIsReady
  <2>2. pub' = [pub EXCEPT ![p] = q] /\ status' \in Statuses
    BY <1>1, <1>3 DEF PatchStatus, Statuses
  <2> HIDE DEF q
  <2> QED
    BY <1>1, <1>3, <2>1, <2>2, PubGoto DEF PatchStatus
<1>4. CASE BeginRepublishForce(p)
  <2> DEFINE q == [pub[p] EXCEPT !.pc = "annul", !.force = TRUE]
  <2>1. q \in Publisher /\ PublisherReady(q)
    BY <1>1 DEF Publisher, PublisherSteps, PublisherReady
  <2>2. pub' = [pub EXCEPT ![p] = q]
    BY <1>1, <1>4 DEF BeginRepublishForce
  <2> HIDE DEF q
  <2> QED
    BY <1>1, <1>4, <2>1, <2>2, PubGoto DEF BeginRepublishForce
<1>5. CASE AnnulDone(p)
  <2> DEFINE q == [pub[p] EXCEPT !.pc = "build"]
  <2>1. q \in Publisher /\ PublisherReady(q)
    BY <1>1 DEF Publisher, PublisherSteps, PublisherReady
  <2>2. pub' = [pub EXCEPT ![p] = q]
    BY <1>1, <1>5 DEF AnnulDone
  <2> HIDE DEF q
  <2> QED
    BY <1>1, <1>5, <2>1, <2>2, PubGoto DEF AnnulDone
<1>6. CASE BuildContent(p)
  <2> DEFINE q == IF status = "deleted" THEN IdlePublisher
                  ELSE [pub[p] EXCEPT !.pc = "version", !.content = bank]
  <2>1. q \in Publisher /\ PublisherReady(q)
    <3>1. LET b == [pub[p] EXCEPT !.pc = "version", !.content = bank]
          IN  b \in Publisher /\ PublisherReady(b)
      BY <1>1 DEF Publisher, PublisherSteps, PublisherReady
    <3> QED
      BY <3>1, IdlePublisherIsReady
  <2>2. pub' = [pub EXCEPT ![p] = q]
    BY <1>1, <1>6 DEF BuildContent
  <2> HIDE DEF q
  <2> QED
    BY <1>1, <1>6, <2>1, <2>2, PubGoto DEF BuildContent
<1>7. CASE ReadVersion(p)
  <2> DEFINE n == IF HasSnapshot THEN LatestSnapshot.version + 1 ELSE 1
             q == [pub[p] EXCEPT !.pc = "insert", !.version = n]
  <2>1. n \in 1 .. minted + 1
    <3>1. CASE HasSnapshot
      <4>1. LatestSnapshot \in snapshots
        BY <3>1, LatestIsSnapshot
      <4>2. LatestSnapshot.version \in Nat \ {0} /\ LatestSnapshot.version <= minted
        BY <1>1, <4>1 DEF PubInv, SnapshotsMinted, Snapshot
      <4> QED
        BY <1>1, <3>1, <4>2
    <3>2. CASE ~HasSnapshot
      BY <1>1, <3>2
    <3> QED
      BY <3>1, <3>2
  <2>2. pub' = [pub EXCEPT ![p] = q]
    BY <1>1, <1>7 DEF ReadVersion
  <2>3. pub[p].pc = "version"
    BY <1>7 DEF ReadVersion
  <2> HIDE DEF n
  <2>4. n \in Nat
    BY <1>1, <2>1
  <2>5. q \in Publisher
    BY <1>1, <2>4 DEF Publisher, PublisherSteps
  <2>6. PublisherReady(q)
    BY <1>1, <2>1, <2>3 DEF Publisher, PublisherReady
  <2> HIDE DEF q
  <2> QED
    BY <1>1, <1>7, <2>2, <2>5, <2>6, PubGoto DEF ReadVersion
<1>8. CASE ReadAll(p)
  <2> DEFINE q == [pub[p] EXCEPT !.all = IdsOf(snapshots), !.pending = @ \ {"all"},
                                 !.pc = IF pub[p].pending = {"all"} THEN "delete" ELSE @]
  <2>1. IdsOf(snapshots) \in SUBSET SnapshotIds
    BY <1>1 DEF IdsOf, Snapshot
  <2>2. pub' = [pub EXCEPT ![p] = q]
    BY <1>1, <1>8 DEF ReadAll
  <2>3. pub[p].pc = "prune"
    BY <1>8 DEF ReadAll
  <2>4. q \in Publisher
    BY <1>1, <2>1 DEF Publisher, PublisherSteps
  <2>5. PublisherReady(q)
    BY <1>1, <2>3 DEF Publisher, PublisherReady
  <2> HIDE DEF q
  <2> QED
    BY <1>1, <1>8, <2>2, <2>4, <2>5, PubGoto DEF ReadAll
<1>9. CASE ReadReferenced(p, PinnedSnapshots)
  <2> DEFINE q == [pub[p] EXCEPT !.referenced = PinnedSnapshots \cap SnapshotIds,
                                 !.pending = @ \ {"referenced"},
                                 !.pc = IF pub[p].pending = {"referenced"} THEN "delete" ELSE @]
  <2>1. PinnedSnapshots \cap SnapshotIds \in SUBSET SnapshotIds
    OBVIOUS
  <2>2. pub' = [pub EXCEPT ![p] = q]
    BY <1>1, <1>9 DEF ReadReferenced
  <2>3. pub[p].pc = "prune"
    BY <1>9 DEF ReadReferenced
  <2>4. q \in Publisher
    BY <1>1, <2>1 DEF Publisher, PublisherSteps
  <2>5. PublisherReady(q)
    BY <1>1, <2>3 DEF Publisher, PublisherReady
  <2> HIDE DEF q
  <2> QED
    BY <1>1, <1>9, <2>2, <2>4, <2>5, PubGoto DEF ReadReferenced
<1> QED
  BY <1>2, <1>3, <1>4, <1>5, <1>6, <1>7, <1>8, <1>9

(* The steps of the author that change the stored publication. *)
LEMMA PublicationWrites ==
  ASSUME PubInv,
         \/ EditBank
         \/ DeleteTest
         \/ \E to \in {"draft", "archived"} : Withdraw(to)
         \/ \E p \in Publishers : InsertSnapshot(p) \/ DeleteDoomed(p)
  PROVE  PubInv'
<1>1. /\ pub \in [Publishers -> Publisher]
      /\ \A p \in Publishers : PublisherReady(pub[p])
      /\ status \in Statuses /\ bank \in Editions /\ minted \in 0 .. MaxSnapshots
      /\ snapshots \subseteq Snapshot
      /\ \A s \in snapshots : s.version <= minted
      /\ MaxEdition \in Nat /\ MaxSnapshots \in Nat
  BY PublicationAssumption DEF PubInv, PublicationTypeOK, SnapshotsMinted
<1>2. CASE EditBank
  BY <1>1, <1>2
  DEF EditBank, PubInv, PublicationTypeOK, PublisherReady, SnapshotsMinted, Editions
<1>3. CASE DeleteTest
  BY <1>1, <1>3
  DEF DeleteTest, PubInv, PublicationTypeOK, PublisherReady, SnapshotsMinted, Statuses
<1>4. ASSUME NEW to \in {"draft", "archived"}, Withdraw(to) PROVE PubInv'
  BY <1>1, <1>4
  DEF Withdraw, PubInv, PublicationTypeOK, PublisherReady, SnapshotsMinted, Statuses
<1>5. ASSUME NEW p \in Publishers, InsertSnapshot(p) PROVE PubInv'
  <2>1. CASE \E s \in snapshots : s.version = pub[p].version
    <3>1. pub' = [pub EXCEPT ![p] = IdlePublisher] /\ UNCHANGED <<status, bank, snapshots, minted>>
      BY <1>5, <2>1 DEF InsertSnapshot
    <3> QED
      BY <1>1, <3>1, IdlePublisherIsReady, PubGoto
  <2>2. CASE ~ \E s \in snapshots : s.version = pub[p].version
    <3> DEFINE row == [id |-> minted + 1, version |-> pub[p].version, content |-> pub[p].content]
               q   == [pub[p] EXCEPT !.pc = "prune", !.keep = minted + 1,
                                     !.pending = {"all", "referenced"}]
    <3>1. /\ snapshots' = snapshots \cup {row} /\ minted' = minted + 1
          /\ minted < MaxSnapshots /\ pub[p].pc = "insert"
          /\ UNCHANGED <<status, bank>>
      BY <1>5, <2>2 DEF InsertSnapshot
    <3>2. pub' = [pub EXCEPT ![p] = q]
      BY <1>1, <1>5, <2>2 DEF InsertSnapshot
    <3>3. minted + 1 \in SnapshotIds /\ minted' \in 0 .. MaxSnapshots
      BY <1>1, <3>1 DEF SnapshotIds
    <3>4. pub[p].version \in 1 .. minted + 1 /\ pub[p].content \in Editions
      BY <1>1, <3>1 DEF PublisherReady
    <3>5. row \in Snapshot /\ row.version <= minted + 1
      BY <1>1, <3>3, <3>4 DEF Snapshot
    <3>6. q \in Publisher
      BY <1>1, <3>3 DEF Publisher, PublisherSteps
    <3>7. \A x \in Publishers : PublisherReady(pub[x])'
      <4>1. ASSUME NEW x \in Publishers, x # p PROVE PublisherReady(pub[x])'
        BY <1>1, <3>1, <3>2, <4>1 DEF PublisherReady
      <4>2. pub'[p].pc = "prune"
        BY <1>1, <3>2 DEF Publisher
      <4>3. PublisherReady(pub[p])'
        BY <4>2 DEF PublisherReady
      <4> QED
        BY <4>1, <4>3
    <3>8. \A s \in snapshots' : s.version <= minted'
      <4> SUFFICES ASSUME NEW s \in snapshots' PROVE s.version <= minted'
        OBVIOUS
      <4>1. CASE s \in snapshots
        <5>1. s.version \in Nat /\ s.version <= minted
          BY <1>1, <4>1 DEF Snapshot
        <5> QED
          BY <1>1, <3>1, <5>1
      <4>2. CASE s = row
        BY <3>1, <3>5, <4>2
      <4> HIDE DEF row
      <4> QED
        BY <3>1, <4>1, <4>2
    <3>9. snapshots' \subseteq Snapshot /\ pub' \in [Publishers -> Publisher]
      <4> HIDE DEF row, q
      <4> QED
        BY <1>1, <3>1, <3>2, <3>5, <3>6
    <3> QED
      BY <1>1, <3>1, <3>3, <3>7, <3>8, <3>9 DEF PubInv, PublicationTypeOK, SnapshotsMinted
  <2> QED
    BY <2>1, <2>2
<1>6. ASSUME NEW p \in Publishers, DeleteDoomed(p) PROVE PubInv'
  <2>1. CASE pub' = [pub EXCEPT ![p] = IdlePublisher] /\ UNCHANGED <<status, bank, snapshots, minted>>
    BY <1>1, <2>1, IdlePublisherIsReady, PubGoto
  <2>2. ASSUME NEW id \in Doomed(pub[p]),
               snapshots' = {s \in snapshots : s.id # id},
               pub' = [pub EXCEPT ![p].all = @ \ {id}]
        PROVE  PubInv'
    <3>1. /\ UNCHANGED <<status, bank, minted>> /\ snapshots' \subseteq snapshots
      BY <1>6, <2>2 DEF DeleteDoomed
    <3> DEFINE q == [pub[p] EXCEPT !.all = @ \ {id}]
    <3>2. q \in Publisher /\ PublisherReady(q)
      BY <1>1 DEF Publisher, PublisherReady
    <3>3. pub' = [pub EXCEPT ![p] = q]
      BY <1>1, <2>2
    <3> HIDE DEF q
    <3>4. \A x \in Publishers : pub'[x] = IF x = p THEN q ELSE pub[x]
      BY <1>1, <3>3
    <3>5. \A x \in Publishers : PublisherReady(pub[x])'
      BY <1>1, <3>1, <3>2, <3>4 DEF PublisherReady
    <3>6. pub' \in [Publishers -> Publisher]
      BY <1>1, <3>2, <3>3
    <3> QED
      BY <1>1, <3>1, <3>5, <3>6 DEF PubInv, PublicationTypeOK, SnapshotsMinted
  <2> QED
    BY <1>6, <2>1, <2>2 DEF DeleteDoomed
<1> QED
  BY <1>2, <1>3, <1>4, <1>5, <1>6

(* A step that leaves the requests alone keeps theirs. *)
LEMMA ReqFrame ==
  ASSUME ReqInv, UNCHANGED req
  PROVE  ReqInv'
BY DEF ReqInv, RequestReady, Drawn, Answered

(* The author, the administrator and the clock. *)
LEMMA OthersTyped ==
  ASSUME TypeInv,
         \/ \E l \in Learners : ResetAttempts(l)
         \/ \E p \in Publishers : AnnulAll(p)
         \/ Assign
         \/ Unassign
         \/ PublicationStep
         \/ DeleteEverything
         \/ Tick
  PROVE  TypeInv'
<1>1. /\ ReqInv /\ PubInv
      /\ attempts \in [RowIds -> Row \cup {Null}] /\ created \in 0 .. MaxRows
      /\ assigned \in [Learners -> SUBSET (1 .. MaxAssignments)]
      /\ granted \in 0 .. MaxAssignments /\ clock \in Hours
      /\ MaxAssignments \in Nat /\ MaxClock \in Nat
  BY TypeInvParts, LifecycleAssumption
<1>2. UNCHANGED req /\ UNCHANGED created
  BY DEF ResetAttempts, AnnulAll, Assign, Unassign, PublicationStep, DeleteEverything, Tick
<1>3. ReqInv' /\ created' \in 0 .. MaxRows
  BY <1>1, <1>2, ReqFrame
<1>4. ASSUME NEW l \in Learners, ResetAttempts(l) PROVE TypeInv'
  <2>1. attempts' \in [RowIds -> Row \cup {Null}]
    BY <1>1, <1>4, DropTyped DEF ResetAttempts
  <2> QED
    BY <1>3, <1>4, <2>1, RowFrame DEF ResetAttempts
<1>5. ASSUME NEW p \in Publishers, AnnulAll(p) PROVE TypeInv'
  <2>1. attempts' \in [RowIds -> Row \cup {Null}]
    BY <1>1, <1>5, DropTyped DEF AnnulAll
  <2>2. PubInv'
    BY <1>1, <1>5, PublisherMoves DEF AnnulAll
  <2> QED
    BY <1>1, <1>3, <1>5, <2>1, <2>2 DEF AnnulAll, TypeInv, TypeOK, ReqInv, PubInv
<1>6. CASE Assign
  <2>1. PICK group \in SUBSET Learners \ {{}} :
          assigned' = [l \in Learners |->
                         IF l \in group THEN assigned[l] \cup {granted'} ELSE assigned[l]]
    BY <1>6 DEF Assign
  <2>2. granted' \in 0 .. MaxAssignments /\ granted' \in 1 .. MaxAssignments
    BY <1>1, <1>6 DEF Assign
  <2>3. assigned' \in [Learners -> SUBSET (1 .. MaxAssignments)]
    BY <1>1, <2>1, <2>2
  <2>4. PubInv'
    BY <1>1, <1>6, PubFrame DEF Assign
  <2> QED
    BY <1>1, <1>3, <1>6, <2>2, <2>3, <2>4 DEF Assign, TypeInv, TypeOK, ReqInv, PubInv
<1>7. CASE Unassign
  <2>1. assigned' \in [Learners -> SUBSET (1 .. MaxAssignments)]
    BY <1>1, <1>7 DEF Unassign
  <2>2. PubInv'
    BY <1>1, <1>7, PubFrame DEF Unassign
  <2> QED
    BY <1>1, <1>3, <1>7, <2>1, <2>2 DEF Unassign, TypeInv, TypeOK, ReqInv, PubInv
<1>8. CASE PublicationStep
  <2>1. PubInv'
    BY <1>1, <1>8, PublisherMoves, PublicationWrites DEF PublicationStep
  <2> QED
    BY <1>1, <1>3, <1>8, <2>1 DEF PublicationStep, TypeInv, TypeOK, ReqInv, PubInv
<1>9. CASE DeleteEverything
  <2>1. PubInv'
    BY <1>1, <1>9, PublicationWrites DEF DeleteEverything
  <2> QED
    BY <1>1, <1>3, <1>9, <2>1 DEF DeleteEverything, TypeInv, TypeOK, ReqInv, PubInv
<1>10. CASE Tick
  <2>1. PubInv'
    BY <1>1, <1>10, PubFrame DEF Tick
  <2>2. clock' \in Hours
    BY <1>1, <1>10 DEF Tick, Hours
  <2> QED
    BY <1>1, <1>3, <1>10, <2>1, <2>2 DEF Tick, TypeInv, TypeOK, ReqInv, PubInv
<1> QED
  BY <1>4, <1>5, <1>6, <1>7, <1>8, <1>9, <1>10

(* The types are invariant under every step. *)
LEMMA TypeInductive ==
  ASSUME TypeInv, [Next]_vars
  PROVE  TypeInv'
<1>1. ASSUME NEW r \in Requests, LearnerStep(r) PROVE TypeInv'
  BY <1>1, StartReadsTyped, StartWritesTyped, SaveFinishTyped DEF LearnerStep
<1>2. CASE UNCHANGED vars
  <2>1. ReqInv'
    BY <1>2, TypeInvParts, ReqFrame DEF vars, learnerVars
  <2> QED
    BY <1>2, <2>1, RequestFrame DEF vars, learnerVars
<1> QED
  BY <1>1, <1>2, OthersTyped DEF Next

LEMMA TypeInitial ==
  ASSUME Init
  PROVE  TypeInv
<1>1. ReqInv
  BY IdleIsReady DEF Init, ReqInv
<1>2. PubInv
  BY IdlePublisherIsReady, PublicationAssumption
  DEF Init, PublicationInit, PubInv, PublicationTypeOK, Statuses, Editions, SnapshotsMinted
<1> QED
  BY <1>1, <1>2, LifecycleAssumption DEF Init, TypeInv, TypeOK, ReqInv, PubInv, Hours

(* What a request computes from one read and writes after others have run    *)
(* always fits the tables, and what a step uses was filled in before.       *)
THEOREM TypesInvariant == Spec => []TypeInv
BY TypeInitial, TypeInductive, PTL DEF Spec

(* Every variable keeps its type, however requests interleave. *)
THEOREM TypeCorrect == Spec => []TypeOK
<1>1. TypeInv => TypeOK
  BY DEF TypeInv
<1> QED
  BY <1>1, TypesInvariant, PTL

-----------------------------------------------------------------------------
(* What holds however requests interleave.                                   *)

(* The row of one attempt before and after a step. *)
Kept(i) == attempts'[i] = attempts[i]

(* What a step of request r does to row i, when it does anything: a row of   *)
(* the learner is dropped while open, is saved, is finished, or is new.     *)
Touched(r, i) ==
  \/ /\ attempts'[i] = Null
     /\ i \in OpenRows(Client[r])
  \/ /\ attempts[i] \in Row /\ attempts'[i] \in Row
     /\ attempts'[i].owner = attempts[i].owner
     /\ \/ attempts'[i].finishedAt = attempts[i].finishedAt
        \/ attempts'[i].finishedAt \in Nat
     /\ req[r].row = i
     /\ req[r].pc \in {"save_write", "finish_write"}
  \/ /\ attempts'[i] \in Row
     /\ attempts'[i].owner = Client[r]
     /\ req[r].pc = "start_create"
     /\ i = created + 1

(* Requests remember rows of their own learner only, and no row has been     *)
(* created beyond the counter.                                              *)
OwnRows ==
  \A r \in Requests :
    req[r].pc \in {"save_write", "finish_grade", "finish_write"} =>
      (attempts[req[r].row] # Null => attempts[req[r].row].owner = Client[r])

NoRowYet == \A i \in RowIds : i > created => attempts[i] = Null

RowsRemembered == \A r \in Requests :
  req[r].pc \in {"save_write", "finish_grade", "finish_write"} => req[r].row <= created

SafeInv == TypeInv /\ OwnRows /\ NoRowYet /\ RowsRemembered

(* The rows a step of a request may touch, and how. *)
LEMMA RequestTouches ==
  ASSUME TypeInv, NEW r \in Requests, LearnerStep(r), NEW i \in RowIds
  PROVE  Kept(i) \/ Touched(r, i)
<1>1. /\ attempts \in [RowIds -> Row \cup {Null}] /\ RequestReady(req[r])
      /\ req[r] \in Request /\ clock \in Hours /\ created \in Nat
      /\ Client[r] \in Learners
  BY TypeInvParts, LifecycleAssumption DEF ReqInv
<1>2. TypeInv'
  BY StartReadsTyped, StartWritesTyped, SaveFinishTyped DEF LearnerStep
<1>3. attempts' \in [RowIds -> Row \cup {Null}]
  BY <1>2 DEF TypeInv, TypeOK
<1>4. CASE UNCHANGED attempts
  BY <1>4 DEF Kept
<1>5. CASE StartAnnul(r)
  BY <1>1, <1>5 DEF StartAnnul, Drop, Kept, Touched
<1>6. CASE StartCreate(r)
  <2>1. CASE i = created + 1
    <3> DEFINE row == [owner |-> Client[r], snapshot |-> req[r].snapshot,
                       content |-> req[r].content,
                       active |-> HasSnapshot /\ LatestSnapshot.id = req[r].snapshot,
                       assignment |-> req[r].assignment, drawn |-> req[r].drawn,
                       answers |-> Null, result |-> Null, finishedAt |-> Null]
    <3>1. attempts'[i] = row
      BY <1>1, <1>6, <2>1 DEF StartCreate
    <3>2. row.owner = Client[r] /\ row # Null
      <4>1. row.owner = Client[r]
        OBVIOUS
      <4>2. row \in Row
        <5> DEFINE active == HasSnapshot /\ LatestSnapshot.id = req[r].snapshot
        <5>1. active \in BOOLEAN /\ Drawn(req[r])
          BY <1>1, <1>6 DEF StartCreate, RequestReady
        <5> HIDE DEF active
        <5>2. [owner |-> Client[r], snapshot |-> req[r].snapshot,
               content |-> req[r].content, active |-> active,
               assignment |-> req[r].assignment, drawn |-> req[r].drawn,
               answers |-> Null, result |-> Null, finishedAt |-> Null] \in Row
          BY <1>1, <5>1 DEF Row, Drawn, Request
        <5> QED
          BY <5>2 DEF active
      <4> QED
        BY <4>1, <4>2, LifecycleAssumption
    <3> HIDE DEF row
    <3>3. attempts'[i] \in Row /\ attempts'[i].owner = Client[r]
      BY <1>3, <3>1, <3>2
    <3> QED
      BY <1>6, <2>1, <3>3 DEF StartCreate, Touched
  <2>2. CASE i # created + 1
    BY <1>1, <1>6, <2>2 DEF StartCreate, Kept
  <2> QED
    BY <2>1, <2>2
<1>7. CASE SaveWrite(r)
  <2>1. CASE attempts[req[r].row] = Null \/ i # req[r].row
    BY <1>1, <1>7, <2>1 DEF SaveWrite, Kept
  <2>2. CASE attempts[req[r].row] # Null /\ i = req[r].row
    <3> DEFINE row == [attempts[i] EXCEPT !.answers = req[r].answers, !.drawn = req[r].drawn]
    <3>1. attempts'[i] = row
      BY <1>1, <1>7, <2>2 DEF SaveWrite
    <3>2. attempts[i] \in Row
      BY <1>1, <2>2
    <3>3. row.owner = attempts[i].owner /\ row.finishedAt = attempts[i].finishedAt
      BY <3>2 DEF Row
    <3>4. row \in Row
      BY <1>1, <1>7, <3>2 DEF SaveWrite, RequestReady, Answered, Row
    <3> HIDE DEF row
    <3> QED
      BY <1>7, <2>2, <3>1, <3>2, <3>3, <3>4 DEF Touched, SaveWrite
  <2> QED
    BY <2>1, <2>2
<1>8. CASE FinishWrite(r)
  <2>1. CASE attempts[req[r].row] = Null \/ i # req[r].row
    BY <1>1, <1>8, <2>1 DEF FinishWrite, Kept
  <2>2. CASE attempts[req[r].row] # Null /\ i = req[r].row
    <3> DEFINE result == [content |-> req[r].content, answers |-> req[r].answers]
               row    == [attempts[i] EXCEPT !.answers = req[r].answers, !.result = result,
                                             !.finishedAt = clock]
    <3>1. attempts'[i] = row
      BY <1>1, <1>8, <2>2 DEF FinishWrite
    <3>2. attempts[i] \in Row
      BY <1>1, <2>2
    <3>3. row.owner = attempts[i].owner /\ row.finishedAt = clock
      BY <3>2 DEF Row
    <3>4. result \in Result
      BY <1>1, <1>8 DEF FinishWrite, RequestReady, Answered, Result
    <3>5. row \in Row
      <4> HIDE DEF result
      <4> QED
        BY <1>1, <1>8, <3>2, <3>4 DEF FinishWrite, RequestReady, Answered, Row
    <3>6. clock \in Nat
      BY <1>1 DEF Hours
    <3> HIDE DEF row
    <3> QED
      BY <1>8, <2>2, <3>1, <3>2, <3>3, <3>5, <3>6 DEF Touched, FinishWrite
  <2> QED
    BY <2>1, <2>2
<1> QED
  BY <1>4, <1>5, <1>6, <1>7, <1>8
  DEF LearnerStep, StartReadTest, StartReadSnapshot, StartReadAssignment, StartReadAttempts,
      StartDraw, SaveRead, FinishRead, FinishGrade

(* What the other actors do to row i: they drop it, or leave it.             *)
LEMMA OthersDrop ==
  ASSUME TypeInv, NEW i \in RowIds,
         \/ \E l \in Learners : ResetAttempts(l)
         \/ \E p \in Publishers : AnnulAll(p)
         \/ Assign
         \/ Unassign
         \/ PublicationStep
         \/ DeleteEverything
         \/ Tick
  PROVE  /\ UNCHANGED <<req, created>>
         /\ Kept(i) \/ attempts'[i] = Null
         /\ (attempts[i] # Null /\ attempts[i].finishedAt # Null /\ attempts'[i] = Null)
              => UNCHANGED pub
<1>1. attempts \in [RowIds -> Row \cup {Null}]
  BY TypeInvParts
<1>2. ASSUME NEW l \in Learners, ResetAttempts(l)
      PROVE  /\ UNCHANGED <<req, created, pub>>
             /\ Kept(i) \/ attempts'[i] = Null
  BY <1>2 DEF ResetAttempts, Drop, Kept, pubVars
<1>3. ASSUME NEW p \in Publishers, AnnulAll(p)
      PROVE  /\ UNCHANGED <<req, created>>
             /\ Kept(i) \/ (attempts'[i] = Null /\ \E l \in Learners : i \in OpenRows(l))
  BY <1>3 DEF AnnulAll, Drop, Kept
<1>4. CASE DeleteEverything
  BY <1>4 DEF DeleteEverything, DeleteTest
<1>5. CASE Assign \/ Unassign \/ PublicationStep \/ Tick
  BY <1>5 DEF Assign, Unassign, PublicationStep, Tick, Kept
<1> QED
  BY <1>2, <1>3, <1>4, <1>5 DEF Kept, OpenRows

-----------------------------------------------------------------------------
(* The invariant.                                                           *)

LEMMA SafeInitial ==
  ASSUME Init
  PROVE  SafeInv
BY TypeInitial DEF Init, SafeInv, OwnRows, NoRowYet, RowsRemembered, IdleRequest

(* A request learns its row from a read of its own learner's rows, and keeps *)
(* it until it is done.                                                     *)
LEMMA RowChosen ==
  ASSUME SafeInv, NEW r \in Requests, LearnerStep(r)
  PROVE  /\ \A x \in Requests \ {r} : req'[x] = req[x]
         /\ req'[r].pc \in {"save_write", "finish_grade", "finish_write"} =>
              \/ /\ req[r].pc = "idle"
                 /\ req'[r].row \in RowsOf(Client[r])
                 /\ UNCHANGED attempts
              \/ /\ req[r].pc = "finish_grade"
                 /\ req'[r].row = req[r].row
                 /\ UNCHANGED attempts
<1>1. req \in [Requests -> Request] /\ req[r] \in Request
  BY TypeInvParts DEF SafeInv, ReqInv
<1>2. CASE \/ StartReadTest(r) \/ StartReadSnapshot(r) \/ StartReadAssignment(r)
           \/ StartReadAttempts(r) \/ StartDraw(r) \/ StartAnnul(r) \/ StartCreate(r)
  <2> DEFINE Elsewhere == /\ \A x \in Requests \ {r} : req'[x] = req[x]
                          /\ req'[r].pc \notin {"save_write", "finish_grade", "finish_write"}
  <2> SUFFICES Elsewhere
    OBVIOUS
  <2>1. CASE StartReadTest(r)
    BY <1>1, <2>1 DEF StartReadTest, Goto, IdleRequest
  <2>2. CASE StartReadSnapshot(r)
    <3>1. CASE HasSnapshot
      BY <1>1, <2>2, <3>1 DEF StartReadSnapshot, Goto, Request
    <3>2. CASE ~HasSnapshot
      BY <1>1, <2>2, <3>2 DEF StartReadSnapshot, Goto, Request
    <3> QED
      BY <3>1, <3>2
  <2>3. CASE StartReadAssignment(r)
    BY <1>1, <2>3 DEF StartReadAssignment, Goto, Request
  <2>4. CASE StartReadAttempts(r)
    <3>1. CASE Done(r)
      BY <1>1, <3>1 DEF Done, IdleRequest
    <3>2. CASE ~Done(r)
      <4> DEFINE
            reopen  == OpenRows(Client[r]) # {}
            newest  == attempts[NewestOpen(Client[r])]
            carried == reopen /\ newest.snapshot = req[r].snapshot
            q == [req[r] EXCEPT
                    !.pc      = IF carried THEN "start_annul" ELSE "start_draw",
                    !.reopen  = reopen,
                    !.drawn   = IF carried THEN newest.drawn ELSE Null,
                    !.content = IF carried THEN newest.content ELSE @]
      <4>1. Goto(r, q)
        BY <2>4, <3>2 DEF StartReadAttempts
      <4>2. q.pc \in {"start_annul", "start_draw"}
        BY <1>1 DEF Request
      <4> HIDE DEF q
      <4> QED
        BY <1>1, <4>1, <4>2 DEF Goto
    <3> QED
      BY <3>1, <3>2
  <2>5. CASE StartDraw(r)
    <3>1. PICK d \in Draws :
            Goto(r, [req[r] EXCEPT
                       !.pc      = IF req[r].reopen THEN "start_annul" ELSE "start_create",
                       !.drawn   = d,
                       !.content = IF req[r].snapshot = None THEN bank ELSE @])
      BY <2>5 DEF StartDraw
    <3> QED
      BY <1>1, <3>1 DEF Goto, Request
  <2>6. CASE StartAnnul(r)
    BY <1>1, <2>6 DEF StartAnnul, Goto, Request
  <2>7. CASE StartCreate(r)
    BY <1>1, <2>7 DEF StartCreate, Done, IdleRequest
  <2> QED
    BY <1>2, <2>1, <2>2, <2>3, <2>4, <2>5, <2>6, <2>7
<1>3. CASE SaveRead(r)
  <2>1. PICK i \in OpenRows(Client[r]), a \in Answers :
          Goto(r, [IdleRequest EXCEPT !.pc = "save_write", !.row = i, !.answers = a,
                                      !.drawn = attempts[i].drawn])
    BY <1>3 DEF SaveRead
  <2>2. req'[r].row = i
    BY <1>1, <2>1 DEF Goto, IdleRequest
  <2> QED
    BY <1>1, <1>3, <2>1, <2>2 DEF Goto, SaveRead, OpenRows
<1>4. CASE FinishRead(r)
  <2>1. PICK i \in RowsOf(Client[r]), a \in Answers :
          Goto(r, [IdleRequest EXCEPT !.pc = "finish_grade", !.row = i, !.answers = a,
                                      !.snapshot = attempts[i].snapshot])
    BY <1>4 DEF FinishRead
  <2>2. req'[r].row = i
    BY <1>1, <2>1 DEF Goto, IdleRequest
  <2> QED
    BY <1>1, <1>4, <2>1, <2>2 DEF Goto, FinishRead
<1>5. CASE FinishGrade(r)
  <2>1. CASE Done(r)
    BY <1>1, <2>1 DEF Done, IdleRequest
  <2>2. CASE ~Done(r)
    <3>1. PICK c : Goto(r, [req[r] EXCEPT !.pc = "finish_write", !.content = c])
      BY <1>5, <2>2 DEF FinishGrade
    <3>2. req'[r].row = req[r].row
      BY <1>1, <3>1 DEF Goto, Request
    <3> QED
      BY <1>1, <1>5, <3>1, <3>2 DEF Goto, FinishGrade
  <2> QED
    BY <2>1, <2>2
<1>6. CASE SaveWrite(r) \/ FinishWrite(r)
  BY <1>1, <1>6 DEF SaveWrite, FinishWrite, Done, IdleRequest
<1> QED
  BY <1>2, <1>3, <1>4, <1>5, <1>6 DEF LearnerStep

(* A learner request keeps the invariant. *)
LEMMA RequestKeepsSafe ==
  ASSUME SafeInv, NEW r \in Requests, LearnerStep(r)
  PROVE  SafeInv'
<1>1. /\ TypeInv /\ TypeInv' /\ created \in Nat
      /\ req \in [Requests -> Request]
      /\ Client \in [Requests -> Learners]
  BY StartReadsTyped, StartWritesTyped, SaveFinishTyped, TypeInvParts, LifecycleAssumption
  DEF LearnerStep, SafeInv, ReqInv
<1>2. \A i \in RowIds : Kept(i) \/ Touched(r, i)
  BY <1>1, RequestTouches
<1>3. created' = created \/ (created' = created + 1 /\ StartCreate(r))
  BY DEF LearnerStep, StartReadTest, StartReadSnapshot, StartReadAssignment, StartReadAttempts,
         StartDraw, StartAnnul, StartCreate, SaveRead, SaveWrite, FinishRead, FinishGrade,
         FinishWrite
<1>4. NoRowYet'
  <2> SUFFICES ASSUME NEW i \in RowIds, i > created' PROVE attempts'[i] = Null
    BY DEF NoRowYet
  <2>1. i \in Nat /\ i > created
    BY <1>1, <1>3 DEF RowIds
  <2>2. attempts[i] = Null
    BY <2>1 DEF SafeInv, NoRowYet
  <2>3. CASE Kept(i)
    BY <2>2, <2>3 DEF Kept
  <2>4. CASE Touched(r, i)
    <3>1. StartCreate(r) => i # created + 1
      BY <1>1, <2>1 DEF StartCreate
    <3>2. req[r].pc = "start_create" => StartCreate(r)
      BY DEF LearnerStep, StartReadTest, StartReadSnapshot, StartReadAssignment,
             StartReadAttempts, StartDraw, StartAnnul, SaveRead, SaveWrite, FinishRead,
             FinishGrade, FinishWrite
    <3> QED
      BY <2>2, <2>4, <3>1, <3>2, LifecycleAssumption DEF Touched
  <2> QED
    BY <1>2, <2>3, <2>4
<1>5. ASSUME NEW x \in Requests, req'[x].pc \in {"save_write", "finish_grade", "finish_write"}
      PROVE  /\ req'[x].row <= created'
             /\ attempts'[req'[x].row] # Null => attempts'[req'[x].row].owner = Client[x]
  <2>1. CASE x = r
    <3>1. /\ UNCHANGED attempts
          /\ \/ req'[r].row \in RowsOf(Client[r])
             \/ req[r].pc = "finish_grade" /\ req'[r].row = req[r].row
      BY <1>5, <2>1, RowChosen
    <3>2. req'[r].row \in RowIds
      BY <1>1, <1>5, <2>1 DEF TypeInv, RequestReady, Answered
    <3>3. CASE req'[r].row \in RowsOf(Client[r])
      <4>1. attempts[req'[r].row] # Null
        BY <3>3 DEF RowsOf
      <4>2. req'[r].row <= created
        BY <1>1, <3>2, <4>1 DEF SafeInv, NoRowYet, RowIds
      <4> QED
        BY <1>1, <1>3, <2>1, <3>1, <3>2, <3>3, <4>2 DEF RowsOf, RowIds
    <3>4. CASE req[r].pc = "finish_grade" /\ req'[r].row = req[r].row
      <4>1. req[r].row <= created
        BY <3>4 DEF SafeInv, RowsRemembered
      <4>2. attempts[req[r].row] # Null => attempts[req[r].row].owner = Client[r]
        BY <3>4 DEF SafeInv, OwnRows
      <4> QED
        BY <1>1, <1>3, <2>1, <3>1, <3>2, <3>4, <4>1, <4>2 DEF RowIds
    <3> QED
      BY <3>1, <3>3, <3>4
  <2>2. CASE x # r
    <3> DEFINE i == req[x].row
    <3>1. req'[x] = req[x]
      BY <2>2, RowChosen
    <3>2. i \in RowIds /\ i <= created
      BY <1>1, <1>5, <3>1 DEF SafeInv, TypeInv, RequestReady, Answered, RowsRemembered
    <3>3. attempts[i] # Null => attempts[i].owner = Client[x]
      BY <1>5, <3>1 DEF SafeInv, OwnRows
    <3>4. attempts'[i] # Null => attempts'[i].owner = Client[x]
      <4>1. CASE Kept(i)
        BY <3>3, <4>1 DEF Kept
      <4>2. CASE Touched(r, i)
        <5>1. i # created + 1
          BY <1>1, <3>2 DEF RowIds
        <5>2. attempts[i] \in Row => attempts[i] # Null
          BY LifecycleAssumption
        <5> QED
          BY <3>3, <4>2, <5>1, <5>2 DEF Touched
      <4> HIDE DEF i
      <4> QED
        BY <1>2, <3>2, <4>1, <4>2
    <3>5. i <= created'
      BY <1>1, <1>3, <3>2 DEF RowIds
    <3> QED
      BY <3>1, <3>4, <3>5
  <2> QED
    BY <2>1, <2>2
<1> QED
  BY <1>1, <1>4, <1>5 DEF SafeInv, OwnRows, RowsRemembered

(* The other actors keep it too. *)
LEMMA OthersKeepSafe ==
  ASSUME SafeInv, [Next]_vars, ~ \E r \in Requests : LearnerStep(r)
  PROVE  SafeInv'
<1>1. TypeInv /\ TypeInv'
  BY TypeInductive DEF SafeInv
<1>2. UNCHANGED <<req, created>> /\ \A i \in RowIds : Kept(i) \/ attempts'[i] = Null
  <2>1. CASE UNCHANGED vars
    BY <2>1 DEF vars, learnerVars, Kept
  <2>2. CASE Next
    <3>1. \A i \in RowIds : UNCHANGED <<req, created>> /\ (Kept(i) \/ attempts'[i] = Null)
      BY <1>1, <2>2, OthersDrop DEF Next
    <3>2. UNCHANGED <<req, created>>
      BY <2>2 DEF Next, ResetAttempts, AnnulAll, Assign, Unassign, PublicationStep,
                  DeleteEverything, Tick
    <3> QED
      BY <3>1, <3>2
  <2> QED
    BY <2>1, <2>2
<1>3. NoRowYet' /\ RowsRemembered'
  BY <1>2 DEF SafeInv, NoRowYet, RowsRemembered, Kept
<1>4. OwnRows'
  <2> SUFFICES ASSUME NEW r \in Requests,
                      req[r].pc \in {"save_write", "finish_grade", "finish_write"},
                      attempts'[req[r].row] # Null
               PROVE  attempts'[req[r].row].owner = Client[r]
    BY <1>2 DEF OwnRows
  <2>1. req[r].row \in RowIds
    BY <1>1 DEF TypeInv, RequestReady, Answered
  <2> QED
    BY <1>2, <2>1 DEF SafeInv, OwnRows, Kept
<1> QED
  BY <1>1, <1>3, <1>4 DEF SafeInv

LEMMA SafeInductive ==
  ASSUME SafeInv, [Next]_vars
  PROVE  SafeInv'
BY RequestKeepsSafe, OthersKeepSafe

LEMMA SafeInvariant == Spec => []SafeInv
BY SafeInitial, SafeInductive, PTL DEF Spec

-----------------------------------------------------------------------------
(* However requests interleave.                                             *)

(* save-progress, start and the annulments race with finish: a finished      *)
(* attempt never becomes an attempt in progress again.                      *)
THEOREM NeverReopens == Spec => FinishedNeverReopens
<1>1. SafeInv /\ [Next]_vars =>
        [\A i \in RowIds :
           attempts[i] # Null /\ attempts[i].finishedAt # Null /\ attempts'[i] # Null
             => attempts'[i].finishedAt # Null]_vars
  <2> SUFFICES ASSUME SafeInv, Next, NEW i \in RowIds,
                      attempts[i] # Null, attempts[i].finishedAt # Null, attempts'[i] # Null
               PROVE  attempts'[i].finishedAt # Null
    OBVIOUS
  <2>1. CASE Kept(i)
    BY <2>1 DEF Kept
  <2>2. ASSUME NEW r \in Requests, Touched(r, i) PROVE attempts'[i].finishedAt # Null
    <3>1. i # created + 1
      <4>1. created \in Nat
        BY TypeInvParts, LifecycleAssumption DEF SafeInv
      <4> QED
        BY <4>1 DEF SafeInv, NoRowYet, RowIds
    <3> QED
      BY <2>2, <3>1, LifecycleAssumption DEF Touched
  <2>3. ASSUME NEW r \in Requests, LearnerStep(r) PROVE Kept(i) \/ Touched(r, i)
    BY <2>3, RequestTouches DEF SafeInv
  <2>4. ASSUME ~ \E r \in Requests : LearnerStep(r) PROVE Kept(i)
    BY <2>4, OthersDrop DEF SafeInv, Next
  <2> QED
    BY <2>1, <2>2, <2>3, <2>4
<1> QED
  BY <1>1, SafeInvariant, PTL DEF Spec, FinishedNeverReopens

(* annulInProgressAttempts against finish: no request and no publication     *)
(* takes a finished attempt away.                                           *)
THEOREM FinishedKept == Spec => NoRequestDropsFinished
<1>1. SafeInv /\ [Next]_vars =>
        [\A i \in RowIds :
           (attempts[i] # Null /\ attempts[i].finishedAt # Null /\ attempts'[i] = Null)
             => req' = req /\ pub' = pub]_vars
  <2> SUFFICES ASSUME SafeInv, Next, NEW i \in RowIds,
                      attempts[i] # Null, attempts[i].finishedAt # Null, attempts'[i] = Null
               PROVE  req' = req /\ pub' = pub
    OBVIOUS
  <2>1. ASSUME NEW r \in Requests, LearnerStep(r) PROVE FALSE
    <3>1. Kept(i) \/ Touched(r, i)
      BY <2>1, RequestTouches DEF SafeInv
    <3> QED
      BY <3>1, LifecycleAssumption DEF Kept, Touched, OpenRows
  <2> QED
    BY <2>1, OthersDrop DEF SafeInv, Next
<1> QED
  BY <1>1, SafeInvariant, PTL DEF Spec, NoRequestDropsFinished

(* Both together: a finished attempt is final to every request.              *)
THEOREM FinishedStays == Spec => FinishedIsFinal
<1>1. (/\ [\A i \in RowIds :
              attempts[i] # Null /\ attempts[i].finishedAt # Null /\ attempts'[i] # Null
                => attempts'[i].finishedAt # Null]_vars
       /\ [\A i \in RowIds :
              (attempts[i] # Null /\ attempts[i].finishedAt # Null /\ attempts'[i] = Null)
                => req' = req /\ pub' = pub]_vars)
      => [\A i \in RowIds :
            attempts[i] # Null /\ attempts[i].finishedAt # Null =>
              IF attempts'[i] = Null THEN req' = req /\ pub' = pub
              ELSE attempts'[i].finishedAt # Null]_vars
  OBVIOUS
<1> QED
  BY <1>1, NeverReopens, FinishedKept, PTL
    DEF FinishedIsFinal, FinishedNeverReopens, NoRequestDropsFinished

(* Each request acts on its own learner: no start, save or finish touches an *)
(* attempt of somebody else.                                                *)
THEOREM OwnAttemptsOnly == Spec => OthersUntouched
<1>1. SafeInv /\ [Next]_vars =>
        [\A r \in Requests : req'[r] # req[r] =>
           \A i \in RowIds : attempts'[i] # attempts[i] =>
             \A row \in {attempts[i], attempts'[i]} \ {Null} : row.owner = Client[r]]_vars
  <2> SUFFICES ASSUME SafeInv, Next, NEW r \in Requests, req'[r] # req[r],
                      NEW i \in RowIds, attempts'[i] # attempts[i],
                      NEW row \in {attempts[i], attempts'[i]} \ {Null}
               PROVE  row.owner = Client[r]
    OBVIOUS
  <2>1. LearnerStep(r)
    <3>1. ASSUME NEW x \in Requests, LearnerStep(x) PROVE x = r
      BY <3>1, RowChosen
    <3>2. ASSUME ~ \E x \in Requests : LearnerStep(x) PROVE FALSE
      BY <3>2, OthersDrop DEF SafeInv, Next
    <3> QED
      BY <3>1, <3>2
  <2>2. Touched(r, i)
    BY <2>1, RequestTouches DEF SafeInv, Kept
  <2>3. /\ created \in Nat /\ (i > created => attempts[i] = Null)
        /\ attempts[i] \in Row \cup {Null}
    BY TypeInvParts, LifecycleAssumption DEF SafeInv, NoRowYet
  <2>4. CASE attempts'[i] = Null /\ i \in OpenRows(Client[r])
    BY <2>4 DEF OpenRows, RowsOf
  <2>5. CASE /\ attempts[i] \in Row /\ attempts'[i].owner = attempts[i].owner
             /\ req[r].row = i /\ req[r].pc \in {"save_write", "finish_write"}
    <3>1. attempts[i] # Null
      BY <2>5, LifecycleAssumption
    <3>2. attempts[i].owner = Client[r]
      BY <2>5, <3>1 DEF SafeInv, OwnRows
    <3> QED
      BY <2>5, <3>2
  <2>6. CASE i = created + 1 /\ attempts'[i].owner = Client[r]
    BY <2>3, <2>6 DEF RowIds
  <2> QED
    BY <2>2, <2>4, <2>5, <2>6 DEF Touched
<1> QED
  BY <1>1, SafeInvariant, PTL DEF Spec, OthersUntouched

-----------------------------------------------------------------------------
(* When each learner sends one request at a time.                           *)

(* No two request slots are of one learner. *)
OneTabEach == \A r, q \in Requests : Client[r] = Client[q] => r = q

(* A start that found no open attempt, or has annulled it, has none to       *)
(* reckon with when it creates its own.                                     *)
NothingOpen(r) == OpenRows(Client[r]) = {}

StartsClear ==
  \A r \in Requests :
    (req[r].pc = "start_create" \/ (req[r].pc = "start_draw" /\ ~req[r].reopen))
      => NothingOpen(r)

OneOpenInv == SafeInv /\ AtMostOneOpen /\ StartsClear

(* The open attempts of a learner grow only by the one a start creates.     *)
LEMMA OpenGrows ==
  ASSUME SafeInv, NEW r \in Requests, LearnerStep(r), NEW l \in Learners, NEW i \in OpenRows(l)'
  PROVE  i \in OpenRows(l) \/ (l = Client[r] /\ req[r].pc = "start_create" /\ i = created + 1)
<1>1. /\ i \in RowIds /\ attempts'[i] # Null
      /\ attempts'[i].owner = l /\ attempts'[i].finishedAt = Null
  BY DEF OpenRows, RowsOf
<1>2. CASE Kept(i)
  BY <1>1, <1>2 DEF Kept, OpenRows, RowsOf
<1>3. CASE Touched(r, i)
  BY <1>1, <1>3, LifecycleAssumption DEF Touched, OpenRows, RowsOf
<1> QED
  BY <1>1, <1>2, <1>3, RequestTouches DEF SafeInv

(* Steps of the others only take open attempts away. *)
LEMMA OpenShrinks ==
  ASSUME SafeInv, [Next]_vars, ~ \E r \in Requests : LearnerStep(r),
         NEW l \in Learners, NEW i \in OpenRows(l)'
  PROVE  i \in OpenRows(l)
<1>1. i \in RowIds /\ attempts'[i] # Null
  BY DEF OpenRows, RowsOf
<1>2. Kept(i)
  <2>1. CASE UNCHANGED vars
    BY <2>1 DEF vars, learnerVars, Kept
  <2>2. CASE Next
    BY <1>1, <2>2, OthersDrop DEF SafeInv, Next
  <2> QED
    BY <2>1, <2>2
<1> QED
  BY <1>1, <1>2 DEF Kept, OpenRows, RowsOf

(* How a start gets to where it counts on there being no open attempt. *)
LEMMA StartClears ==
  ASSUME OneOpenInv, NEW r \in Requests, LearnerStep(r),
         req'[r].pc = "start_create" \/ (req'[r].pc = "start_draw" /\ ~req'[r].reopen)
  PROVE  NothingOpen(r)'
<1>1. req \in [Requests -> Request] /\ req[r] \in Request /\ Client[r] \in Learners
  BY TypeInvParts, LifecycleAssumption DEF OneOpenInv, SafeInv, ReqInv
<1>2. CASE StartReadAttempts(r)
  <2>1. CASE Done(r)
    BY <1>1, <2>1 DEF Done, IdleRequest
  <2>2. CASE ~Done(r)
    <3> DEFINE
          reopen  == OpenRows(Client[r]) # {}
          newest  == attempts[NewestOpen(Client[r])]
          carried == reopen /\ newest.snapshot = req[r].snapshot
          q == [req[r] EXCEPT
                  !.pc      = IF carried THEN "start_annul" ELSE "start_draw",
                  !.reopen  = reopen,
                  !.drawn   = IF carried THEN newest.drawn ELSE Null,
                  !.content = IF carried THEN newest.content ELSE @]
    <3>1. Goto(r, q)
      BY <1>2, <2>2 DEF StartReadAttempts
    <3>4. q.pc # "start_create" /\ q.reopen = reopen
      <4> HIDE DEF reopen, carried
      <4> QED
        BY <1>1 DEF Request
    <3>2. req'[r].pc # "start_create" /\ req'[r].reopen = reopen
      <4> HIDE DEF q
      <4> QED
        BY <1>1, <3>1, <3>4 DEF Goto
    <3>3. UNCHANGED attempts
      BY <1>2 DEF StartReadAttempts
    <3> QED
      BY <3>2, <3>3 DEF NothingOpen, OpenRows, RowsOf
  <2> QED
    BY <2>1, <2>2
<1>3. CASE StartDraw(r)
  <2>1. PICK d \in Draws :
          Goto(r, [req[r] EXCEPT
                     !.pc      = IF req[r].reopen THEN "start_annul" ELSE "start_create",
                     !.drawn   = d,
                     !.content = IF req[r].snapshot = None THEN bank ELSE @])
    BY <1>3 DEF StartDraw
  <2>2. req'[r].pc = IF req[r].reopen THEN "start_annul" ELSE "start_create"
    BY <1>1, <2>1 DEF Goto, Request
  <2>3. req[r].pc = "start_draw" /\ ~req[r].reopen /\ UNCHANGED attempts
    BY <1>3, <2>2 DEF StartDraw
  <2> QED
    BY <2>3 DEF OneOpenInv, StartsClear, NothingOpen, OpenRows, RowsOf
<1>4. CASE StartAnnul(r)
  BY <1>4 DEF StartAnnul, Drop, NothingOpen, OpenRows, RowsOf
<1>5. CASE StartReadTest(r) \/ StartReadSnapshot(r) \/ StartReadAssignment(r)
  <2>1. req'[r].pc \in {"start_snapshot", "start_assignment", "start_attempts"}
    <3>1. CASE StartReadTest(r)
      BY <1>1, <3>1 DEF StartReadTest, Goto, IdleRequest
    <3>2. CASE StartReadSnapshot(r) /\ HasSnapshot
      BY <1>1, <3>2 DEF StartReadSnapshot, Goto, Request
    <3>3. CASE StartReadSnapshot(r) /\ ~HasSnapshot
      BY <1>1, <3>3 DEF StartReadSnapshot, Goto, Request
    <3>4. CASE StartReadAssignment(r)
      BY <1>1, <3>4 DEF StartReadAssignment, Goto, Request
    <3> QED
      BY <1>5, <3>1, <3>2, <3>3, <3>4
  <2> QED
    BY <2>1
<1>6. CASE StartCreate(r) \/ SaveWrite(r) \/ FinishWrite(r)
  BY <1>1, <1>6 DEF StartCreate, SaveWrite, FinishWrite, Done, IdleRequest
<1>7. CASE SaveRead(r) \/ FinishRead(r)
  <2>1. req'[r].pc \in {"save_write", "finish_grade"}
    BY <1>1, <1>7 DEF SaveRead, FinishRead, Goto, IdleRequest
  <2> QED
    BY <2>1
<1>8. CASE FinishGrade(r)
  <2>1. CASE Done(r)
    BY <1>1, <2>1 DEF Done, IdleRequest
  <2>2. CASE ~Done(r)
    <3>1. PICK c : Goto(r, [req[r] EXCEPT !.pc = "finish_write", !.content = c])
      BY <1>8, <2>2 DEF FinishGrade
    <3> QED
      BY <1>1, <3>1 DEF Goto, Request
  <2> QED
    BY <2>1, <2>2
<1> QED
  BY <1>2, <1>3, <1>4, <1>5, <1>6, <1>7, <1>8 DEF LearnerStep

(* The invariant is kept when no two requests are of one learner. *)
LEMMA OneOpenInductive ==
  ASSUME OneTabEach, OneOpenInv, [Next]_vars
  PROVE  OneOpenInv'
<1>1. SafeInv /\ SafeInv' /\ Client \in [Requests -> Learners]
  BY SafeInductive, LifecycleAssumption DEF OneOpenInv
<1>2. ASSUME NEW r \in Requests, LearnerStep(r)
      PROVE  AtMostOneOpen' /\ StartsClear'
  <2>1. ASSUME NEW l \in Learners, NEW i \in OpenRows(l)', NEW j \in OpenRows(l)'
        PROVE  i = j
    <3>1. CASE l = Client[r] /\ req[r].pc = "start_create"
      <4>1. OpenRows(l) = {}
        BY <3>1 DEF OneOpenInv, StartsClear, NothingOpen
      <4> QED
        BY <1>1, <1>2, <4>1, OpenGrows
    <3>2. CASE ~ (l = Client[r] /\ req[r].pc = "start_create")
      <4>1. i \in OpenRows(l) /\ j \in OpenRows(l)
        BY <1>1, <1>2, <3>2, OpenGrows
      <4> QED
        BY <4>1 DEF OneOpenInv, AtMostOneOpen
    <3> QED
      BY <3>1, <3>2
  <2>2. ASSUME NEW x \in Requests,
               req'[x].pc = "start_create" \/ (req'[x].pc = "start_draw" /\ ~req'[x].reopen)
        PROVE  NothingOpen(x)'
    <3>1. CASE x = r
      BY <1>2, <2>2, <3>1, StartClears
    <3>2. CASE x # r
      <4>1. req'[x] = req[x] /\ Client[x] # Client[r] /\ Client[x] \in Learners
        BY <1>1, <1>2, <3>2, RowChosen DEF OneTabEach
      <4>2. OpenRows(Client[x]) = {}
        BY <2>2, <4>1 DEF OneOpenInv, StartsClear, NothingOpen
      <4>3. OpenRows(Client[x])' = {}
        BY <1>1, <1>2, <4>1, <4>2, OpenGrows
      <4> QED
        BY <4>3 DEF NothingOpen
    <3> QED
      BY <3>1, <3>2
  <2> QED
    BY <2>1, <2>2 DEF AtMostOneOpen, StartsClear
<1>3. ASSUME ~ \E r \in Requests : LearnerStep(r)
      PROVE  AtMostOneOpen' /\ StartsClear'
  <2>1. \A l \in Learners : OpenRows(l)' \subseteq OpenRows(l)
    BY <1>1, <1>3, OpenShrinks
  <2>2. UNCHANGED req
    BY <1>3 DEF Next, ResetAttempts, AnnulAll, Assign, Unassign, PublicationStep,
                DeleteEverything, Tick, vars, learnerVars
  <2>3. AtMostOneOpen'
    BY <2>1 DEF OneOpenInv, AtMostOneOpen
  <2>4. StartsClear'
    <3> SUFFICES ASSUME NEW x \in Requests,
                        req'[x].pc = "start_create" \/ (req'[x].pc = "start_draw" /\ ~req'[x].reopen)
                 PROVE  NothingOpen(x)'
      BY DEF StartsClear
    <3>1. OpenRows(Client[x]) = {} /\ Client[x] \in Learners
      BY <1>1, <2>2 DEF OneOpenInv, StartsClear, NothingOpen
    <3>2. OpenRows(Client[x])' \subseteq OpenRows(Client[x])
      BY <2>1, <3>1
    <3> QED
      BY <3>1, <3>2 DEF NothingOpen
  <2> QED
    BY <2>3, <2>4
<1> QED
  BY <1>1, <1>2, <1>3 DEF OneOpenInv

(* No attempt, no request. *)
LEMMA OneOpenInitial ==
  ASSUME Init
  PROVE  OneOpenInv
<1>1. \A l \in Learners : OpenRows(l) = {}
  BY DEF Init, OpenRows, RowsOf
<1> QED
  BY <1>1, SafeInitial DEF Init, OneOpenInv, AtMostOneOpen, StartsClear, IdleRequest

(* createAttempt, "so a test cannot accumulate several unfinished attempts   *)
(* of the same person": true as long as no learner has two requests in      *)
(* flight.                                                                  *)
THEOREM OneOpenAttempt ==
  ASSUME OneTabEach
  PROVE  Spec => []AtMostOneOpen
<1>1. Init => OneOpenInv
  BY OneOpenInitial
<1>2. OneOpenInv /\ [Next]_vars => OneOpenInv'
  BY OneOpenInductive
<1>3. OneOpenInv => AtMostOneOpen
  BY DEF OneOpenInv
<1> QED
  BY <1>1, <1>2, <1>3, PTL DEF Spec

-----------------------------------------------------------------------------
(* The answers behind a result.                                             *)

(* What a write keeps of a row. *)
SameBut(old, new, fields) ==
  \A f \in {"owner", "snapshot", "content", "active", "assignment", "drawn", "answers",
            "result", "finishedAt"} \ fields : new[f] = old[f]

(* Row i as a step of request r writes it, field by field. *)
Written(r, i) ==
  LET old == attempts[i]
      new == attempts'[i]
      q   == req[r]
  IN  \/ /\ StartAnnul(r)
         /\ i \in OpenRows(Client[r])
         /\ new = Null
      \/ /\ StartCreate(r)
         /\ i = created + 1
         /\ new \in Row
         /\ new.owner = Client[r] /\ new.snapshot = q.snapshot /\ new.content = q.content
         /\ new.active = (HasSnapshot /\ LatestSnapshot.id = q.snapshot)
         /\ new.assignment = q.assignment /\ new.drawn = q.drawn
         /\ new.answers = Null /\ new.result = Null /\ new.finishedAt = Null
      \/ /\ SaveWrite(r)
         /\ i = q.row /\ old \in Row /\ new \in Row
         /\ SameBut(old, new, {"answers", "drawn"})
         /\ new.answers = q.answers /\ new.drawn = q.drawn
      \/ /\ FinishWrite(r)
         /\ i = q.row /\ old \in Row /\ new \in Row
         /\ SameBut(old, new, {"answers", "result", "finishedAt"})
         /\ new.answers = q.answers
         /\ new.result.content = q.content /\ new.result.answers = q.answers
         /\ new.finishedAt = clock

(* The row a start creates. *)
LEMMA RowCreated ==
  ASSUME TypeInv, NEW r \in Requests, StartCreate(r)
  PROVE  LET i   == created + 1
             new == attempts'[i]
             q   == req[r]
         IN  /\ i \in RowIds
             /\ \A j \in RowIds \ {i} : Kept(j)
             /\ new \in Row /\ new # Null
             /\ new.owner = Client[r] /\ new.snapshot = q.snapshot /\ new.content = q.content
             /\ new.active = (HasSnapshot /\ LatestSnapshot.id = q.snapshot)
             /\ new.assignment = q.assignment /\ new.drawn = q.drawn
             /\ new.answers = Null /\ new.result = Null /\ new.finishedAt = Null
<1> DEFINE active == HasSnapshot /\ LatestSnapshot.id = req[r].snapshot
           row == [owner |-> Client[r], snapshot |-> req[r].snapshot,
                   content |-> req[r].content, active |-> active,
                   assignment |-> req[r].assignment, drawn |-> req[r].drawn,
                   answers |-> Null, result |-> Null, finishedAt |-> Null]
<1>1. /\ attempts \in [RowIds -> Row \cup {Null}] /\ RequestReady(req[r])
      /\ req[r] \in Request /\ created + 1 \in RowIds
  BY TypeInvParts, LifecycleAssumption DEF ReqInv, StartCreate, RowIds
<1>2. attempts' = [attempts EXCEPT ![created + 1] = row]
  BY DEF StartCreate
<1>3. row \in Row
  <2>1. active \in BOOLEAN /\ Client[r] \in Learners /\ Drawn(req[r])
    BY <1>1, LifecycleAssumption DEF StartCreate, RequestReady
  <2> HIDE DEF active
  <2> QED
    BY <1>1, <2>1 DEF Row, Drawn, Request
<1>4. /\ row.owner = Client[r] /\ row.snapshot = req[r].snapshot
      /\ row.content = req[r].content /\ row.active = active
      /\ row.assignment = req[r].assignment /\ row.drawn = req[r].drawn
      /\ row.answers = Null /\ row.result = Null /\ row.finishedAt = Null
  <2> HIDE DEF active
  <2> QED
    OBVIOUS
<1> HIDE DEF row
<1>5. attempts'[created + 1] = row /\ \A j \in RowIds \ {created + 1} : Kept(j)
  BY <1>1, <1>2 DEF Kept
<1> QED
  BY <1>1, <1>3, <1>4, <1>5, LifecycleAssumption

(* What a step of a request does to a row it does not keep.                  *)
LEMMA RowWritten ==
  ASSUME TypeInv, NEW r \in Requests, LearnerStep(r), NEW i \in RowIds, ~Kept(i)
  PROVE  Written(r, i)
<1>1. /\ attempts \in [RowIds -> Row \cup {Null}] /\ RequestReady(req[r])
      /\ attempts' \in [RowIds -> Row \cup {Null}]
      /\ req[r] \in Request /\ created \in Nat
  <2>1. TypeInv'
    BY StartReadsTyped, StartWritesTyped, SaveFinishTyped DEF LearnerStep
  <2> QED
    BY <2>1, TypeInvParts, LifecycleAssumption DEF ReqInv, TypeInv, TypeOK
<1>2. CASE StartAnnul(r)
  BY <1>1, <1>2 DEF StartAnnul, Drop, Kept, Written
<1>3. CASE StartCreate(r)
  BY <1>3, RowCreated DEF Kept, Written
<1>4. CASE SaveWrite(r)
  <2> DEFINE row == [attempts[i] EXCEPT !.answers = req[r].answers, !.drawn = req[r].drawn]
  <2>1. i = req[r].row /\ attempts[i] # Null /\ attempts'[i] = row
    BY <1>1, <1>4 DEF SaveWrite, Kept
  <2>2. attempts[i] \in Row /\ attempts'[i] \in Row
    <3>1. attempts[i] \in Row
      BY <1>1, <2>1
    <3>2. row \in Row
      BY <1>1, <1>4, <3>1 DEF SaveWrite, RequestReady, Answered, Row
    <3> HIDE DEF row
    <3> QED
      BY <2>1, <3>1, <3>2
  <2>3. /\ SameBut(attempts[i], row, {"answers", "drawn"})
        /\ row.answers = req[r].answers /\ row.drawn = req[r].drawn
    BY <2>2 DEF Row, SameBut
  <2> HIDE DEF row
  <2> QED
    BY <1>4, <2>1, <2>2, <2>3 DEF Written
<1>5. CASE FinishWrite(r)
  <2> DEFINE result == [content |-> req[r].content, answers |-> req[r].answers]
             row    == [attempts[i] EXCEPT !.answers = req[r].answers, !.result = result,
                                           !.finishedAt = clock]
  <2>1. i = req[r].row /\ attempts[i] # Null /\ attempts'[i] = row
    BY <1>1, <1>5 DEF FinishWrite, Kept
  <2>2. attempts[i] \in Row /\ attempts'[i] \in Row
    <3>1. attempts[i] \in Row
      BY <1>1, <2>1
    <3>2. result \in Result /\ clock \in Hours
      BY <1>1, <1>5, TypeInvParts DEF FinishWrite, RequestReady, Answered, Result
    <3>3. row \in Row
      <4> HIDE DEF result
      <4> QED
        BY <1>1, <1>5, <3>1, <3>2 DEF FinishWrite, RequestReady, Answered, Row
    <3> HIDE DEF row
    <3> QED
      BY <2>1, <3>1, <3>3
  <2>3. /\ SameBut(attempts[i], row, {"answers", "result", "finishedAt"})
        /\ row.answers = req[r].answers /\ row.result = result /\ row.finishedAt = clock
    <3> HIDE DEF result
    <3> QED
      BY <2>2 DEF Row, SameBut
  <2>4. result.content = req[r].content /\ result.answers = req[r].answers
    OBVIOUS
  <2> HIDE DEF row, result
  <2> QED
    BY <1>5, <2>1, <2>2, <2>3, <2>4 DEF Written
<1> QED
  BY <1>2, <1>3, <1>4, <1>5
  DEF LearnerStep, StartReadTest, StartReadSnapshot, StartReadAssignment, StartReadAttempts,
      StartDraw, SaveRead, FinishRead, FinishGrade, Kept

(* Everybody else only drops rows. *)
LEMMA OthersOnlyDrop ==
  ASSUME TypeInv, [Next]_vars, ~ \E r \in Requests : LearnerStep(r)
  PROVE  /\ UNCHANGED <<req, created>>
         /\ \A i \in RowIds : Kept(i) \/ attempts'[i] = Null
<1>1. CASE UNCHANGED vars
  BY <1>1 DEF vars, learnerVars, Kept
<1>2. CASE Next
  <2>1. \A i \in RowIds : UNCHANGED <<req, created>> /\ (Kept(i) \/ attempts'[i] = Null)
    BY <1>2, OthersDrop DEF Next
  <2>2. UNCHANGED <<req, created>>
    BY <1>2 DEF Next, ResetAttempts, AnnulAll, Assign, Unassign, PublicationStep,
                DeleteEverything, Tick
  <2> QED
    BY <2>1, <2>2
<1> QED
  BY <1>1, <1>2

(* The row a request remembers is not touched by a request of another       *)
(* learner.                                                                 *)
LEMMA OthersRowKept ==
  ASSUME OneTabEach, SafeInv, NEW r \in Requests, LearnerStep(r), NEW x \in Requests \ {r},
         req[x].pc \in {"save_write", "finish_grade", "finish_write"}
  PROVE  /\ req'[x] = req[x]
         /\ req[x].row \in RowIds
         /\ Kept(req[x].row)
<1> DEFINE i == req[x].row
<1>1. TypeInv /\ Client \in [Requests -> Learners] /\ created \in Nat
  BY TypeInvParts, LifecycleAssumption DEF SafeInv
<1>2. req'[x] = req[x]
  BY RowChosen
<1>3. i \in RowIds /\ i <= created
  BY <1>1 DEF SafeInv, TypeInv, RequestReady, Answered, RowsRemembered
<1>4. attempts[i] # Null => attempts[i].owner # Client[r]
  BY DEF SafeInv, OwnRows, OneTabEach
<1>5. Touched(r, i) => FALSE
  <2>1. i # created + 1
    BY <1>1, <1>3 DEF RowIds
  <2>2. ASSUME attempts[i] # Null PROVE ~(req[r].row = i /\ req[r].pc \in {"save_write", "finish_write"})
    BY <1>4, <2>2 DEF SafeInv, OwnRows
  <2>3. i \in OpenRows(Client[r]) => FALSE
    BY <1>4 DEF OpenRows, RowsOf
  <2>4. attempts[i] \in Row => attempts[i] # Null
    BY LifecycleAssumption
  <2> HIDE DEF i
  <2> QED
    BY <2>1, <2>2, <2>3, <2>4 DEF Touched
<1> HIDE DEF i
<1>6. Kept(i)
  BY <1>1, <1>3, <1>5, RequestTouches
<1> QED
  BY <1>2, <1>3, <1>6 DEF i

-----------------------------------------------------------------------------
(* A save in flight was read from an attempt that is still open, with the    *)
(* questions that are still on it: no other request of its learner runs.     *)

SavesOpen ==
  \A r \in Requests :
    req[r].pc = "save_write" /\ attempts[req[r].row] # Null =>
      /\ attempts[req[r].row].finishedAt = Null
      /\ attempts[req[r].row].drawn = req[r].drawn

(* Grading and closing an attempt are one write. *)
OpenUngraded ==
  \A i \in RowIds : attempts[i] # Null /\ attempts[i].finishedAt = Null => attempts[i].result = Null

SavedInv == SafeInv /\ SavesOpen /\ OpenUngraded /\ ResultOfSavedAnswers

(* The invariant is kept when no two requests are of one learner. *)
LEMMA SavedInductive ==
  ASSUME OneTabEach, SavedInv, [Next]_vars
  PROVE  SavedInv'
<1>1. /\ SafeInv /\ SafeInv' /\ TypeInv /\ created \in Nat
      /\ Client \in [Requests -> Learners] /\ req \in [Requests -> Request]
      /\ \A i \in RowIds : i > created => attempts[i] = Null
  <2>1. SafeInv /\ SafeInv' /\ TypeInv
    BY SafeInductive DEF SavedInv, SafeInv
  <2> QED
    BY <2>1, TypeInvParts, LifecycleAssumption DEF ReqInv, SafeInv, NoRowYet
<1>2. ASSUME NEW r \in Requests, LearnerStep(r)
      PROVE  SavesOpen' /\ OpenUngraded' /\ ResultOfSavedAnswers'
  <2>1. ASSUME NEW i \in RowIds, attempts'[i] # Null
        PROVE  /\ attempts'[i].finishedAt = Null => attempts'[i].result = Null
               /\ attempts'[i].result # Null => attempts'[i].result.answers = attempts'[i].answers
    <3>1. CASE Kept(i)
      BY <2>1, <3>1 DEF Kept, SavedInv, OpenUngraded, ResultOfSavedAnswers
    <3>2. CASE ~Kept(i)
      <4>1. Written(r, i)
        BY <1>1, <1>2, <3>2, RowWritten
      <4>2. CASE StartCreate(r) /\ attempts'[i].result = Null
        BY <4>2
      <4>3. CASE /\ SaveWrite(r) /\ i = req[r].row /\ attempts[i] \in Row
                 /\ SameBut(attempts[i], attempts'[i], {"answers", "drawn"})
        <5>1. attempts[i] # Null /\ attempts[i].finishedAt = Null
          BY <4>3, LifecycleAssumption DEF SavedInv, SavesOpen, SaveWrite
        <5>2. attempts[i].result = Null
          BY <5>1 DEF SavedInv, OpenUngraded
        <5> QED
          BY <4>3, <5>2 DEF SameBut
      <4>4. CASE /\ FinishWrite(r) /\ attempts'[i].finishedAt = clock
                 /\ attempts'[i].result.answers = attempts'[i].answers
        <5>1. clock # Null
          BY <1>1, TypeInvParts, LifecycleAssumption DEF Hours
        <5> QED
          BY <4>4, <5>1
      <4> QED
        BY <2>1, <4>1, <4>2, <4>3, <4>4 DEF Written
    <3> QED
      BY <3>1, <3>2
  <2>2. ASSUME NEW x \in Requests, req'[x].pc = "save_write", attempts'[req'[x].row] # Null
        PROVE  /\ attempts'[req'[x].row].finishedAt = Null
               /\ attempts'[req'[x].row].drawn = req'[x].drawn
    <3>1. CASE x = r
      <4>1. /\ req[r].pc = "idle" /\ UNCHANGED attempts
            \/ req[r].pc = "finish_grade"
        BY <1>1, <1>2, <2>2, <3>1, RowChosen
      <4>2. SaveRead(r)
        <5>1. CASE SaveRead(r)
          BY <5>1
        <5>2. CASE StartReadTest(r)
          BY <1>1, <2>2, <3>1, <5>2 DEF StartReadTest, Goto, IdleRequest
        <5>3. CASE FinishRead(r)
          BY <1>1, <2>2, <3>1, <5>3 DEF FinishRead, Goto, IdleRequest
        <5>4. CASE FinishGrade(r)
          <6>1. CASE Done(r)
            BY <1>1, <2>2, <3>1, <6>1 DEF Done, IdleRequest
          <6>2. CASE ~Done(r)
            <7>1. PICK c : Goto(r, [req[r] EXCEPT !.pc = "finish_write", !.content = c])
              BY <5>4, <6>2 DEF FinishGrade
            <7> QED
              BY <1>1, <2>2, <3>1, <7>1 DEF Goto, Request
          <6> QED
            BY <6>1, <6>2
        <5> QED
          BY <1>2, <4>1, <5>1, <5>2, <5>3, <5>4
          DEF LearnerStep, StartReadSnapshot, StartReadAssignment, StartReadAttempts, StartDraw,
              StartAnnul, StartCreate, SaveWrite, FinishWrite
      <4>3. PICK i \in OpenRows(Client[r]), a \in Answers :
              Goto(r, [IdleRequest EXCEPT !.pc = "save_write", !.row = i, !.answers = a,
                                          !.drawn = attempts[i].drawn])
        BY <4>2 DEF SaveRead
      <4>4. req'[r].row = i /\ req'[r].drawn = attempts[i].drawn
        BY <1>1, <4>3 DEF Goto, IdleRequest
      <4>5. UNCHANGED attempts
        BY <4>2 DEF SaveRead
      <4> QED
        BY <3>1, <4>3, <4>4, <4>5 DEF OpenRows
    <3>2. CASE x # r
      <4>1. req'[x] = req[x]
        BY <1>1, <1>2, <3>2, RowChosen
      <4>2. Kept(req[x].row)
        BY <1>1, <1>2, <2>2, <3>2, <4>1, OthersRowKept
      <4> QED
        BY <2>2, <4>1, <4>2 DEF SavedInv, SavesOpen, Kept
    <3> QED
      BY <3>1, <3>2
  <2> QED
    BY <2>1, <2>2 DEF SavesOpen, OpenUngraded, ResultOfSavedAnswers
<1>3. ASSUME ~ \E r \in Requests : LearnerStep(r)
      PROVE  SavesOpen' /\ OpenUngraded' /\ ResultOfSavedAnswers'
  <2>1. UNCHANGED <<req, created>> /\ \A i \in RowIds : Kept(i) \/ attempts'[i] = Null
    BY <1>1, <1>3, OthersOnlyDrop
  <2>2. OpenUngraded' /\ ResultOfSavedAnswers'
    BY <2>1 DEF SavedInv, OpenUngraded, ResultOfSavedAnswers, Kept
  <2>3. \A r \in Requests : req[r].pc = "save_write" => req[r].row \in RowIds
    BY <1>1 DEF TypeInv, RequestReady, Answered
  <2>4. SavesOpen'
    BY <2>1, <2>3 DEF SavedInv, SavesOpen, Kept
  <2> QED
    BY <2>2, <2>4
<1> QED
  BY <1>1, <1>2, <1>3 DEF SavedInv

(* No attempt, no request. *)
LEMMA SavedInitial ==
  ASSUME Init
  PROVE  SavedInv
BY SafeInitial DEF Init, SavedInv, SavesOpen, OpenUngraded, ResultOfSavedAnswers, IdleRequest

(* finish and save-progress both write the answers of an attempt: as long as *)
(* each learner sends one request at a time, the answers on a finished       *)
(* attempt are the ones its result was graded from.                          *)
THEOREM AnswersMatchResult ==
  ASSUME OneTabEach
  PROVE  Spec => []ResultOfSavedAnswers
<1>1. Init => SavedInv
  BY SavedInitial
<1>2. SavedInv /\ [Next]_vars => SavedInv'
  BY SavedInductive
<1>3. SavedInv => ResultOfSavedAnswers
  BY DEF SavedInv
<1> QED
  BY <1>1, <1>2, <1>3, PTL DEF Spec

-----------------------------------------------------------------------------
(* The gates of a start.                                                    *)

(* Days follow hours. *)
LEMMA DivMonotone ==
  ASSUME NEW n \in Nat \ {0}, NEW t \in Nat, NEW u \in Nat, t <= u
  PROVE  t \div n \in Nat /\ u \div n \in Nat /\ t \div n <= u \div n
OBVIOUS

-----------------------------------------------------------------------------
(* Attempts a decision can be asked about: hours and outcomes, and a last one. *)

Facts(F) ==
  /\ \A f \in F : f.finishedAt \in Nat \cup {Null} /\ f.passed \in Outcome
  /\ \E n \in Nat : \A f \in Finished(F) : f.finishedAt <= n

LEMMA NewestFinished ==
  ASSUME NEW F, Facts(F), NEW S \in SUBSET Finished(F), S # {}
  PROVE  lastCompletedAttempt(S) \in S
<1> DEFINE T == {f.finishedAt : f \in S}
<1>1. PICK n \in Nat : \A f \in Finished(F) : f.finishedAt <= n
  BY DEF Facts
<1>2. T \in SUBSET (0 .. n) /\ T # {}
  <2>1. \A f \in S : f.finishedAt \in 0 .. n
    BY <1>1 DEF Facts, Finished
  <2> QED
    BY <2>1
<1>3. PICK m \in T : \A i \in T : i <= m
  <2> HIDE DEF T
  <2> QED
    BY <1>2, GreatestExists
<1>4. PICK f \in S : f.finishedAt = m
  OBVIOUS
<1>5. \A g \in S : g.finishedAt <= f.finishedAt
  BY <1>3, <1>4
<1> QED
  BY <1>4, <1>5 DEF lastCompletedAttempt

LEMMA PeriodType ==
  ASSUME NEW policy \in RetakePolicy(Nat), NEW out \in Outcome
  PROVE  resolveCooldownDays(policy, out) \in Nat \cup {Null}
<1>1. /\ policy.days \in Nat \cup {Null} /\ policy.daysPassed \in Nat \cup {Null}
      /\ policy.daysFailed \in Nat \cup {Null} /\ policy.byOutcome \in BOOLEAN
  BY DEF RetakePolicy
<1>2. policy.daysPassed # Null /\ policy.daysFailed # Null =>
        Larger(policy.daysPassed, policy.daysFailed) \in Nat
  BY <1>1 DEF Larger
<1> HIDE DEF Larger
<1> QED
  BY <1>1, <1>2 DEF resolveCooldownDays, Outcome

LEMMA BarriersStayOpen ==
  ASSUME NEW last \in Nat, NEW t \in Nat, NEW u \in Nat, t <= u, NEW period \in Nat
  PROVE  /\ attemptIntervalDecision(last, t, period).allowed
              => attemptIntervalDecision(last, u, period).allowed
         /\ cooldownDecision(last, t, period).allowed
              => cooldownDecision(last, u, period).allowed
<1>1. \A now : attemptIntervalDecision(last, now, period).allowed = (Larger(now, last) - last >= period)
  BY DEF attemptIntervalDecision
<1>2. \A now : cooldownDecision(last, now, period).allowed = (Larger(now, last) - last >= period)
  BY DEF cooldownDecision
<1>3. Larger(t, last) - last >= period => Larger(u, last) - last >= period
  BY DEF Larger
<1> QED
  BY <1>1, <1>2, <1>3

(* The gate of decideRetake, once open, stays open as time passes, while the *)
(* finished attempts stay as they are or are all taken away.                 *)
LEMMA GateStaysOpen ==
  ASSUME NEW policy \in RetakePolicy(Nat), NEW a, NEW F, Facts(F), NEW G,
         Finished(G) = Finished(F) \/ Finished(G) = {},
         NEW t \in Nat, NEW u \in Nat, t <= u,
         decideRetake(policy, a, F, t).allowed
  PROVE  decideRetake(policy, a, G, u).allowed
<1> DEFINE insideF  == {f \in Finished(F) : f.assignment = a}
           outsideF == {f \in Finished(F) : f.assignment # a}
           insideG  == {f \in Finished(G) : f.assignment = a}
           outsideG == {f \in Finished(G) : f.assignment # a}
           configured == policy.enabled /\ (policy.days # Null \/ policy.byOutcome)
           last    == lastCompletedAttempt(insideF).finishedAt
           anchor  == lastCompletedAttempt(outsideF)
           period  == resolveCooldownDays(policy, anchor.passed)
           Inside(now) == attemptIntervalDecision(last, now, policy.interval)
           Outside(now) == cooldownDecision(DayOf(anchor.finishedAt), DayOf(now), period)
<1>1. Granted.allowed = TRUE
  BY DEF Granted
<1>2. CASE Finished(G) = {}
  <2>1. insideG = {} /\ outsideG = {}
    BY <1>2
  <2> HIDE DEF insideG, outsideG
  <2>2. decideRetake(policy, a, G, u) = Granted
    BY <2>1 DEF decideRetake, insideG, outsideG
  <2> QED
    BY <1>1, <2>2
<1>3. CASE Finished(G) = Finished(F)
  <2>1. insideG = insideF /\ outsideG = outsideF
    BY <1>3
  <2>2. \A now : decideRetake(policy, a, F, now).allowed <=>
           IF insideF # {}
           THEN policy.interval = Null \/ Inside(now).allowed
           ELSE ~configured \/ outsideF = {} \/ period = Null \/ Outside(now).allowed
    BY <1>1 DEF decideRetake
  <2>3. \A now : decideRetake(policy, a, G, now).allowed <=>
           IF insideF # {}
           THEN policy.interval = Null \/ Inside(now).allowed
           ELSE ~configured \/ outsideF = {} \/ period = Null \/ Outside(now).allowed
    BY <1>1, <2>1 DEF decideRetake
  <2>4. CASE insideF # {} /\ policy.interval # Null
    <3>1. last \in Nat
      <4>1. lastCompletedAttempt(insideF) \in insideF
        BY <2>4, NewestFinished
      <4> QED
        BY <4>1 DEF Facts, Finished
    <3>2. policy.interval \in Nat
      BY <2>4 DEF RetakePolicy
    <3> HIDE DEF last
    <3>3. Inside(t).allowed => Inside(u).allowed
      BY <3>1, <3>2, BarriersStayOpen
    <3> QED
      BY <2>2, <2>3, <2>4, <3>3
  <2>5. CASE insideF = {} /\ configured /\ outsideF # {} /\ period # Null
    <3>1. anchor.finishedAt \in Nat /\ anchor.passed \in Outcome
      <4>1. anchor \in outsideF
        BY <2>5, NewestFinished
      <4> QED
        BY <4>1 DEF Facts, Finished
    <3>2. period \in Nat
      BY <2>5, <3>1, PeriodType
    <3> HIDE DEF period
    <3>3. DayOf(anchor.finishedAt) \in Nat /\ DayOf(t) \in Nat /\ DayOf(u) \in Nat
          /\ DayOf(t) <= DayOf(u)
      BY <3>1, DivMonotone, HoursAssumption DEF DayOf
    <3> HIDE DEF anchor
    <3>4. Outside(t).allowed => Outside(u).allowed
      BY <3>2, <3>3, BarriersStayOpen
    <3> QED
      BY <2>2, <2>3, <2>5, <3>4
  <2> QED
    BY <2>2, <2>3, <2>4, <2>5
<1> QED
  BY <1>2, <1>3

FactOf(i) ==
  [id         |-> i,
   assignment |-> attempts[i].assignment,
   finishedAt |-> attempts[i].finishedAt,
   passed     |-> Outcomes(attempts[i])]

FinishedRows(l) == {i \in RowsOf(l) : attempts[i].finishedAt # Null}

FinishedIn(l, a) == {i \in FinishedRows(l) : attempts[i].assignment = a}

RowsIn(l, a) == {i \in RowsOf(l) : attempts[i].assignment = a}

LEMMA FinishedFacts ==
  ASSUME NEW l
  PROVE  Finished(FactsOf(l)) = {FactOf(i) : i \in FinishedRows(l)}
<1>1. FactsOf(l) = {FactOf(i) : i \in RowsOf(l)}
  BY DEF FactsOf, FactOf
<1>2. \A i : FactOf(i).finishedAt = attempts[i].finishedAt
  BY DEF FactOf
<1> QED
  BY <1>1, <1>2 DEF Finished, FinishedRows

LEMMA FactsTyped ==
  ASSUME TypeInv, NEW l
  PROVE  Facts(FactsOf(l))
<1>1. \A i \in RowsOf(l) : attempts[i] \in Row
  BY TypeInvParts DEF RowsOf
<1>2. \A i \in RowsOf(l) : /\ FactOf(i).finishedAt \in Hours \cup {Null}
                           /\ FactOf(i).passed \in Outcome
  <2> SUFFICES ASSUME NEW i \in RowsOf(l)
               PROVE  /\ FactOf(i).finishedAt \in Hours \cup {Null}
                      /\ FactOf(i).passed \in Outcome
    OBVIOUS
  <2>1. Outcomes(attempts[i]) \in Outcome
    BY DEF Outcomes, Outcome
  <2>2. attempts[i].finishedAt \in Hours \cup {Null}
    BY <1>1 DEF Row
  <2> QED
    BY <2>1, <2>2 DEF FactOf
<1>3. FactsOf(l) = {FactOf(i) : i \in RowsOf(l)}
  BY DEF FactsOf, FactOf
<1>4. \A f \in FactsOf(l) : f.finishedAt \in Hours \cup {Null} /\ f.passed \in Outcome
  BY <1>2, <1>3
<1>5. MaxClock \in Nat /\ \A h \in Hours : h \in Nat /\ h <= MaxClock
  BY LifecycleAssumption DEF Hours
<1> QED
  BY <1>4, <1>5 DEF Facts, Finished

(* Counting facts is counting rows. *)
LEMMA CountIsRows ==
  ASSUME TypeInv, NEW l, NEW a
  PROVE  /\ IsFiniteSet(RowsIn(l, a)) /\ IsFiniteSet(FinishedIn(l, a))
         /\ countAttemptsInAssignment(FactsOf(l), a) = Cardinality(FinishedIn(l, a))
         /\ Cardinality(FinishedIn(l, a)) \in Nat
         /\ Cardinality(FinishedIn(l, a)) <= Cardinality(RowsIn(l, a))
<1> DEFINE counted == {f \in Finished(FactsOf(l)) : f.assignment = a}
           fact == [i \in FinishedIn(l, a) |-> FactOf(i)]
<1>1. IsFiniteSet(RowIds)
  BY FS_Interval, LifecycleAssumption DEF RowIds
<1>2. RowsIn(l, a) \subseteq RowIds /\ FinishedIn(l, a) \subseteq RowsIn(l, a)
  BY DEF RowsIn, FinishedIn, FinishedRows, RowsOf
<1>3. /\ IsFiniteSet(RowsIn(l, a)) /\ IsFiniteSet(FinishedIn(l, a))
      /\ Cardinality(FinishedIn(l, a)) <= Cardinality(RowsIn(l, a))
  BY <1>1, <1>2, FS_Subset
<1>4. \A i : FactOf(i).id = i /\ FactOf(i).assignment = attempts[i].assignment
  BY DEF FactOf
<1>5. counted = {FactOf(i) : i \in FinishedIn(l, a)}
  BY <1>4, FinishedFacts DEF FinishedIn
<1>6. fact \in Bijection(FinishedIn(l, a), counted)
  <2> HIDE DEF counted
  <2>1. fact \in [FinishedIn(l, a) -> counted]
    BY <1>5
  <2>2. \A i, j \in FinishedIn(l, a) : fact[i] = fact[j] => i = j
    <3> SUFFICES ASSUME NEW i \in FinishedIn(l, a), NEW j \in FinishedIn(l, a), fact[i] = fact[j]
                 PROVE  i = j
      OBVIOUS
    <3>1. fact[i].id = i /\ fact[j].id = j
      BY <1>4
    <3> HIDE DEF fact
    <3> QED
      BY <3>1
  <2>3. \A f \in counted : \E i \in FinishedIn(l, a) : fact[i] = f
    BY <1>5
  <2> HIDE DEF fact
  <2> QED
    BY <2>1, <2>2, <2>3, Fun_IsInj, Fun_IsSurj DEF Bijection
<1>7. Cardinality(counted) = Cardinality(FinishedIn(l, a))
  <2> HIDE DEF counted, fact
  <2> QED
    BY <1>3, <1>6, FS_Bijection DEF ExistsBijection
<1> QED
  BY <1>3, <1>7, FS_CardinalityType DEF countAttemptsInAssignment

(* Finished attempts that stay as they are, or go together, keep the gate    *)
(* open.                                                                    *)
LEMMA GateKept ==
  ASSUME TypeInv, TypeInv', clock <= clock', NEW l \in Learners, NEW a, MayStart(l, a),
         \/ FinishedRows(l)' = {}
         \/ /\ FinishedRows(l)' = FinishedRows(l)
            /\ \A i \in FinishedRows(l) : Kept(i)
  PROVE  MayStart(l, a)'
<1> DEFINE F == FactsOf(l)
           G == FactsOf(l)'
<1>1. Finished(F) = {FactOf(i) : i \in FinishedRows(l)}
  BY FinishedFacts
<1>2. Finished(G) = {FactOf(i)' : i \in FinishedRows(l)'}
  <2>1. G = {FactOf(i)' : i \in RowsOf(l)'}
    BY DEF FactsOf, FactOf
  <2>2. \A i : (FactOf(i)').finishedAt = attempts'[i].finishedAt
    BY DEF FactOf
  <2> QED
    BY <2>1, <2>2 DEF Finished, FinishedRows
<1>3. Finished(G) = Finished(F) \/ Finished(G) = {}
  <2>1. CASE FinishedRows(l)' = {}
    BY <1>2, <2>1
  <2>2. CASE /\ FinishedRows(l)' = FinishedRows(l)
             /\ \A i \in FinishedRows(l) : Kept(i)
    <3>1. \A i \in FinishedRows(l) : FactOf(i)' = FactOf(i)
      BY <2>2 DEF Kept, FactOf, Outcomes
    <3> QED
      BY <1>1, <1>2, <2>2, <3>1
  <2> QED
    BY <2>1, <2>2
<1>4. Facts(F) /\ clock \in Nat /\ clock' \in Nat
  <2>1. clock \in Hours /\ clock' \in Hours
    BY DEF TypeInv, TypeOK
  <2> QED
    BY <2>1, FactsTyped DEF Hours
<1>5. decideRetake(Policy, a, F, clock).allowed
  BY DEF MayStart
<1>6. decideRetake(Policy, a, G, clock').allowed
  <2> HIDE DEF F, G
  <2> QED
    BY <1>3, <1>4, <1>5, GateStaysOpen, LifecycleAssumption
<1>7. Limit # Null => countAttemptsInAssignment(G, a) < Limit
  <2> SUFFICES ASSUME Limit # Null PROVE countAttemptsInAssignment(G, a) < Limit
    OBVIOUS
  <2>1. countAttemptsInAssignment(F, a) < Limit
    BY DEF MayStart
  <2>2. countAttemptsInAssignment(F, a) \in Nat /\ Limit \in Nat
    BY CountIsRows, LifecycleAssumption
  <2> HIDE DEF F, G
  <2>3. CASE Finished(G) = Finished(F)
    BY <2>1, <2>3 DEF countAttemptsInAssignment
  <2>4. CASE Finished(G) = {}
    <3>1. countAttemptsInAssignment(G, a) = 0
      BY <2>4, FS_EmptySet DEF countAttemptsInAssignment
    <3> QED
      BY <2>1, <2>2, <3>1
  <2> QED
    BY <1>3, <2>3, <2>4
<1> QED
  BY <1>6, <1>7 DEF MayStart

GatePassed ==
  \A r \in Requests : req[r].pc \in {"start_draw", "start_annul", "start_create"} =>
    MayStart(Client[r], req[r].assignment)

WithinQuota ==
  Limit # Null =>
    \A l \in Learners, a \in 0 .. MaxAssignments : Cardinality(RowsIn(l, a)) <= Limit

GateInv == OneOpenInv /\ GatePassed /\ WithinQuota

FinishedKeptOrGone(l) ==
  \/ FinishedRows(l)' = {}
  \/ FinishedRows(l)' = FinishedRows(l) /\ \A i \in FinishedRows(l) : Kept(i)

(* A request leaves the rows of the other learners alone. *)
LEMMA OtherLearnersRows ==
  ASSUME SafeInv, NEW r \in Requests, LearnerStep(r), NEW l \in Learners, l # Client[r]
  PROVE  RowsOf(l)' = RowsOf(l) /\ \A i \in RowsOf(l) : Kept(i)
<1>1. /\ TypeInv /\ created \in Nat
      /\ \A i \in RowIds : i > created => attempts[i] = Null
  BY TypeInvParts, LifecycleAssumption DEF SafeInv, NoRowYet
<1>2. ASSUME NEW i \in RowIds, ~Kept(i)
      PROVE  /\ attempts[i] # Null => attempts[i].owner # l
             /\ attempts'[i] # Null => attempts'[i].owner # l
  <2>1. Touched(r, i)
    BY <1>1, <1>2, RequestTouches
  <2>2. CASE attempts'[i] = Null /\ i \in OpenRows(Client[r])
    BY <2>2 DEF OpenRows, RowsOf
  <2>3. CASE /\ attempts[i] \in Row /\ attempts'[i].owner = attempts[i].owner
             /\ req[r].row = i /\ req[r].pc \in {"save_write", "finish_write"}
    <3>1. attempts[i] # Null
      BY <2>3, LifecycleAssumption
    <3>2. attempts[i].owner = Client[r]
      BY <2>3, <3>1 DEF SafeInv, OwnRows
    <3> QED
      BY <2>3, <3>2
  <2>4. CASE i = created + 1 /\ attempts'[i].owner = Client[r]
    BY <1>1, <2>4 DEF RowIds
  <2> QED
    BY <2>1, <2>2, <2>3, <2>4 DEF Touched
<1>3. \A i \in RowIds : (i \in RowsOf(l)' <=> i \in RowsOf(l)) /\ (i \in RowsOf(l) => Kept(i))
  BY <1>2 DEF RowsOf, Kept
<1> QED
  BY <1>3 DEF RowsOf

(* What a start carries on from the gate. *)
LEMMA GateEntered ==
  ASSUME TypeInv, NEW r \in Requests, LearnerStep(r),
         req'[r].pc \in {"start_draw", "start_annul", "start_create"}
  PROVE  /\ req'[r].assignment = req[r].assignment
         /\ \/ StartReadAttempts(r) /\ MayStart(Client[r], req[r].assignment)
            \/ StartDraw(r)
            \/ StartAnnul(r)
<1>1. req \in [Requests -> Request] /\ req[r] \in Request
  BY TypeInvParts DEF ReqInv
<1>2. CASE StartReadAttempts(r)
  <2>1. CASE Done(r)
    BY <1>1, <2>1 DEF Done, IdleRequest
  <2>2. CASE ~Done(r)
    <3> DEFINE
          reopen  == OpenRows(Client[r]) # {}
          newest  == attempts[NewestOpen(Client[r])]
          carried == reopen /\ newest.snapshot = req[r].snapshot
          q == [req[r] EXCEPT
                  !.pc      = IF carried THEN "start_annul" ELSE "start_draw",
                  !.reopen  = reopen,
                  !.drawn   = IF carried THEN newest.drawn ELSE Null,
                  !.content = IF carried THEN newest.content ELSE @]
    <3>1. Goto(r, q) /\ MayStart(Client[r], req[r].assignment)
      BY <1>2, <2>2 DEF StartReadAttempts
    <3>2. q.assignment = req[r].assignment
      <4> HIDE DEF reopen, carried
      <4> QED
        BY <1>1 DEF Request
    <3> HIDE DEF q
    <3> QED
      BY <1>1, <1>2, <3>1, <3>2 DEF Goto
  <2> QED
    BY <2>1, <2>2
<1>3. CASE StartDraw(r)
  <2>1. PICK d \in Draws :
          Goto(r, [req[r] EXCEPT
                     !.pc      = IF req[r].reopen THEN "start_annul" ELSE "start_create",
                     !.drawn   = d,
                     !.content = IF req[r].snapshot = None THEN bank ELSE @])
    BY <1>3 DEF StartDraw
  <2> QED
    BY <1>1, <1>3, <2>1 DEF Goto, Request
<1>4. CASE StartAnnul(r)
  BY <1>1, <1>4 DEF StartAnnul, Goto, Request
<1>5. CASE StartReadTest(r) \/ StartReadSnapshot(r) \/ StartReadAssignment(r)
  <2>1. req'[r].pc \in {"start_snapshot", "start_assignment", "start_attempts"}
    <3>1. CASE StartReadTest(r)
      BY <1>1, <3>1 DEF StartReadTest, Goto, IdleRequest
    <3>2. CASE StartReadSnapshot(r) /\ HasSnapshot
      BY <1>1, <3>2 DEF StartReadSnapshot, Goto, Request
    <3>3. CASE StartReadSnapshot(r) /\ ~HasSnapshot
      BY <1>1, <3>3 DEF StartReadSnapshot, Goto, Request
    <3>4. CASE StartReadAssignment(r)
      BY <1>1, <3>4 DEF StartReadAssignment, Goto, Request
    <3> QED
      BY <1>5, <3>1, <3>2, <3>3, <3>4
  <2> QED
    BY <2>1
<1>6. CASE StartCreate(r) \/ SaveWrite(r) \/ FinishWrite(r)
  BY <1>1, <1>6 DEF StartCreate, SaveWrite, FinishWrite, Done, IdleRequest
<1>7. CASE SaveRead(r) \/ FinishRead(r)
  <2>1. req'[r].pc \in {"save_write", "finish_grade"}
    BY <1>1, <1>7 DEF SaveRead, FinishRead, Goto, IdleRequest
  <2> QED
    BY <2>1
<1>8. CASE FinishGrade(r)
  <2>1. CASE Done(r)
    BY <1>1, <2>1 DEF Done, IdleRequest
  <2>2. CASE ~Done(r)
    <3>1. PICK c : Goto(r, [req[r] EXCEPT !.pc = "finish_write", !.content = c])
      BY <1>8, <2>2 DEF FinishGrade
    <3> QED
      BY <1>1, <3>1 DEF Goto, Request
  <2> QED
    BY <2>1, <2>2
<1> QED
  BY <1>2, <1>3, <1>4, <1>5, <1>6, <1>7, <1>8 DEF LearnerStep

(* The others leave the finished attempts of a learner as they are, or take  *)
(* them all.                                                                *)
LEMMA OthersFinished ==
  ASSUME TypeInv, [Next]_vars, ~ \E r \in Requests : LearnerStep(r), NEW l \in Learners
  PROVE  FinishedKeptOrGone(l) /\ clock <= clock'
<1>1. clock \in Nat
  BY TypeInvParts, LifecycleAssumption DEF Hours
<1>2. CASE UNCHANGED attempts
  <2>1. FinishedRows(l)' = FinishedRows(l) /\ \A i \in RowIds : Kept(i)
    BY <1>2 DEF FinishedRows, RowsOf, Kept
  <2>2. clock' = clock \/ clock' = clock + 1
    BY DEF Next, ResetAttempts, AnnulAll, Assign, Unassign, PublicationStep,
           DeleteEverything, Tick, vars, learnerVars
  <2>3. clock <= clock'
    BY <1>1, <2>2
  <2> QED
    BY <2>1, <2>3 DEF FinishedKeptOrGone, FinishedRows, RowsOf
<1>3. ASSUME NEW k \in Learners, ResetAttempts(k) PROVE FinishedKeptOrGone(l) /\ clock <= clock'
  <2>1. CASE k = l
    BY <1>1, <1>3, <2>1 DEF ResetAttempts, Drop, FinishedKeptOrGone, FinishedRows, RowsOf
  <2>2. CASE k # l
    <3>1. \A i \in RowIds : /\ i \in RowsOf(l)' <=> i \in RowsOf(l)
                            /\ i \in RowsOf(l) => Kept(i)
      BY <1>3, <2>2 DEF ResetAttempts, Drop, RowsOf, Kept
    <3> QED
      BY <1>1, <1>3, <3>1 DEF ResetAttempts, FinishedKeptOrGone, FinishedRows, RowsOf, Kept
  <2> QED
    BY <2>1, <2>2
<1>4. ASSUME NEW p \in Publishers, AnnulAll(p) PROVE FinishedKeptOrGone(l) /\ clock <= clock'
  <2>1. \A i \in RowIds : /\ i \in FinishedRows(l) => Kept(i)
                          /\ Kept(i) \/ attempts'[i] = Null
    BY <1>4 DEF AnnulAll, Drop, FinishedRows, OpenRows, RowsOf, Kept
  <2>2. \A i \in RowIds : i \in FinishedRows(l)' <=> i \in FinishedRows(l)
    BY <2>1 DEF FinishedRows, RowsOf, Kept
  <2>3. FinishedRows(l)' = FinishedRows(l) /\ \A i \in FinishedRows(l) : Kept(i)
    BY <2>1, <2>2 DEF FinishedRows, RowsOf
  <2> QED
    BY <1>1, <1>4, <2>3 DEF AnnulAll, FinishedKeptOrGone
<1>5. CASE DeleteEverything
  BY <1>1, <1>5 DEF DeleteEverything, FinishedKeptOrGone, FinishedRows, RowsOf
<1>6. CASE Assign \/ Unassign \/ PublicationStep \/ Tick
  BY <1>2, <1>6 DEF Assign, Unassign, PublicationStep, Tick
<1>7. CASE UNCHANGED vars
  BY <1>2, <1>7 DEF vars, learnerVars
<1> QED
  BY <1>3, <1>4, <1>5, <1>6, <1>7 DEF Next

(* The attempts of a learner in an assignment grow only by the one a start   *)
(* creates.                                                                 *)
LEMMA RowsInGrow ==
  ASSUME SafeInv, NEW r \in Requests, LearnerStep(r), NEW l \in Learners, NEW a,
         NEW i \in RowsIn(l, a)'
  PROVE  \/ i \in RowsIn(l, a)
         \/ StartCreate(r) /\ l = Client[r] /\ a = req[r].assignment /\ i = created + 1
<1>1. i \in RowIds /\ attempts'[i] # Null /\ attempts'[i].owner = l /\ attempts'[i].assignment = a
  BY DEF RowsIn, RowsOf
<1>2. CASE Kept(i)
  BY <1>1, <1>2 DEF Kept, RowsIn, RowsOf
<1>3. CASE ~Kept(i)
  <2>1. Written(r, i)
    BY <1>1, <1>3, RowWritten DEF SafeInv
  <2>2. ASSUME attempts[i] \in Row, attempts'[i].owner = attempts[i].owner,
               attempts'[i].assignment = attempts[i].assignment
        PROVE  i \in RowsIn(l, a)
    BY <1>1, <2>2, LifecycleAssumption DEF RowsIn, RowsOf
  <2> QED
    BY <1>1, <2>1, <2>2 DEF Written, SameBut
<1> QED
  BY <1>2, <1>3

LEMMA GateInductive ==
  ASSUME OneTabEach, GateInv, [Next]_vars
  PROVE  GateInv'
<1>1. /\ OneOpenInv /\ OneOpenInv' /\ SafeInv /\ TypeInv /\ TypeInv'
      /\ Client \in [Requests -> Learners] /\ req \in [Requests -> Request]
      /\ created \in Nat /\ Limit \in Nat \cup {Null}
      /\ clock \in Nat
  <2>1. OneOpenInv /\ OneOpenInv' /\ SafeInv /\ TypeInv /\ TypeInv'
    BY OneOpenInductive DEF GateInv, OneTabEach, OneOpenInv, SafeInv
  <2> QED
    BY <2>1, TypeInvParts, LifecycleAssumption DEF ReqInv, Hours
<1>2. \A l, a : IsFiniteSet(RowsIn(l, a))
  BY <1>1, CountIsRows
<1>3. ASSUME NEW r \in Requests, LearnerStep(r)
      PROVE  GatePassed' /\ WithinQuota'
  <2>1. clock' = clock
    BY <1>3 DEF LearnerStep, StartReadTest, StartReadSnapshot, StartReadAssignment,
                StartReadAttempts, StartDraw, StartAnnul, StartCreate, SaveRead, SaveWrite,
                FinishRead, FinishGrade, FinishWrite
  <2>2. ASSUME NEW x \in Requests, req'[x].pc \in {"start_draw", "start_annul", "start_create"}
        PROVE  MayStart(Client[x], req[x].assignment)'
    <3>1. CASE x = r
      <4>1. /\ req'[r].assignment = req[r].assignment
            /\ \/ StartReadAttempts(r) /\ MayStart(Client[r], req[r].assignment)
               \/ StartDraw(r)
               \/ StartAnnul(r)
        BY <1>1, <1>3, <2>2, <3>1, GateEntered
      <4>2. MayStart(Client[r], req[r].assignment)
        BY <4>1 DEF GateInv, GatePassed, StartDraw, StartAnnul
      <4>3. FinishedRows(Client[r])' = FinishedRows(Client[r])
            /\ \A i \in FinishedRows(Client[r]) : Kept(i)
        <5>1. CASE UNCHANGED attempts
          BY <5>1 DEF FinishedRows, RowsOf, Kept
        <5>2. CASE StartAnnul(r)
          <6>1. \A i \in RowIds : /\ i \in FinishedRows(Client[r]) => Kept(i)
                                  /\ Kept(i) \/ attempts'[i] = Null
            BY <5>2 DEF StartAnnul, Drop, FinishedRows, OpenRows, RowsOf, Kept
          <6>2. \A i \in RowIds : i \in FinishedRows(Client[r])' <=> i \in FinishedRows(Client[r])
            BY <6>1 DEF FinishedRows, RowsOf, Kept
          <6> QED
            BY <6>1, <6>2 DEF FinishedRows, RowsOf
        <5> QED
          BY <4>1, <5>1, <5>2 DEF StartReadAttempts, StartDraw
      <4>4. MayStart(Client[r], req[r].assignment)'
        <5> DEFINE l == Client[r]
                   a == req[r].assignment
        <5>1. l \in Learners /\ MayStart(l, a) /\ FinishedRows(l)' = FinishedRows(l)
              /\ (\A i \in FinishedRows(l) : Kept(i)) /\ clock <= clock'
          BY <1>1, <2>1, <4>2, <4>3
        <5> HIDE DEF l, a
        <5>2. \A b : MayStart(l, b) => MayStart(l, b)'
          BY <1>1, <5>1, GateKept
        <5>3. a' = a
          BY <4>1 DEF a
        <5> QED
          BY <5>1, <5>2, <5>3 DEF l, a
      <4> QED
        BY <3>1, <4>1, <4>4
    <3>2. CASE x # r
      <4>1. req'[x] = req[x] /\ Client[x] # Client[r] /\ Client[x] \in Learners
        BY <1>1, <1>3, <3>2, RowChosen DEF OneTabEach
      <4>2. RowsOf(Client[x])' = RowsOf(Client[x]) /\ \A i \in RowsOf(Client[x]) : Kept(i)
        BY <1>1, <1>3, <4>1, OtherLearnersRows
      <4>3. FinishedRows(Client[x])' = FinishedRows(Client[x])
            /\ \A i \in FinishedRows(Client[x]) : Kept(i)
        BY <4>2 DEF FinishedRows, Kept
      <4>4. MayStart(Client[x], req[x].assignment)
        BY <2>2, <4>1 DEF GateInv, GatePassed
      <4>5. \A b : MayStart(Client[x], b) => MayStart(Client[x], b)'
        BY <1>1, <2>1, <4>1, <4>3, GateKept
      <4> QED
        BY <4>1, <4>4, <4>5
    <3> QED
      BY <3>1, <3>2
  <2>3. ASSUME Limit # Null, NEW l \in Learners, NEW a \in 0 .. MaxAssignments
        PROVE  Cardinality(RowsIn(l, a)') <= Limit
    <3> DEFINE old == RowsIn(l, a)
               new == RowsIn(l, a)'
    <3>1. Cardinality(old) <= Limit /\ Limit \in Nat
      BY <1>1, <2>3 DEF GateInv, WithinQuota
    <3>2. CASE ~(StartCreate(r) /\ l = Client[r] /\ a = req[r].assignment)
      <4>1. new \subseteq old
        BY <1>1, <1>3, <3>2, RowsInGrow
      <4>2. IsFiniteSet(old)
        BY <1>2
      <4> HIDE DEF old, new
      <4>3. Cardinality(new) <= Cardinality(old) /\ Cardinality(new) \in Nat
            /\ Cardinality(old) \in Nat
        BY <4>1, <4>2, FS_Subset, FS_CardinalityType
      <4> QED
        BY <3>1, <4>3 DEF new
    <3>3. CASE StartCreate(r) /\ l = Client[r] /\ a = req[r].assignment
      <4>1. new \subseteq old \cup {created + 1}
        BY <1>1, <1>3, RowsInGrow
      <4>2. MayStart(l, a)
        BY <3>3 DEF GateInv, GatePassed, StartCreate
      <4>3. OpenRows(l) = {}
        BY <3>3 DEF GateInv, OneOpenInv, StartsClear, NothingOpen, StartCreate
      <4>4. old = FinishedIn(l, a)
        BY <4>3 DEF OpenRows, RowsIn, FinishedIn, FinishedRows
      <4>5. Cardinality(old) < Limit /\ Cardinality(old) \in Nat
        BY <1>1, <2>3, <4>2, <4>4, CountIsRows DEF MayStart
      <4>6. IsFiniteSet(old)
        BY <1>2
      <4> HIDE DEF old, new
      <4>7. /\ IsFiniteSet(old \cup {created + 1})
            /\ Cardinality(old \cup {created + 1}) \in Nat
            /\ Cardinality(old \cup {created + 1}) <= Cardinality(old) + 1
        <5>1. /\ IsFiniteSet(old \cup {created + 1})
              /\ Cardinality(old \cup {created + 1}) =
                   IF created + 1 \in old THEN Cardinality(old) ELSE Cardinality(old) + 1
          BY <4>6, FS_AddElement
        <5> QED
          BY <4>5, <5>1
      <4>8. Cardinality(new) <= Cardinality(old \cup {created + 1}) /\ Cardinality(new) \in Nat
        BY <4>1, <4>7, FS_Subset, FS_CardinalityType
      <4> QED
        BY <3>1, <4>5, <4>7, <4>8 DEF new
    <3> QED
      BY <3>2, <3>3
  <2> QED
    BY <2>2, <2>3 DEF GatePassed, WithinQuota
<1>4. ASSUME ~ \E r \in Requests : LearnerStep(r)
      PROVE  GatePassed' /\ WithinQuota'
  <2>1. UNCHANGED <<req, created>> /\ \A i \in RowIds : Kept(i) \/ attempts'[i] = Null
    BY <1>1, <1>4, OthersOnlyDrop
  <2>2. ASSUME NEW r \in Requests, req[r].pc \in {"start_draw", "start_annul", "start_create"}
        PROVE  MayStart(Client[r], req[r].assignment)'
    <3> DEFINE l == Client[r]
               a == req[r].assignment
    <3>1. l \in Learners /\ MayStart(l, a) /\ FinishedKeptOrGone(l) /\ clock <= clock'
      BY <1>1, <1>4, <2>2, OthersFinished DEF GateInv, GatePassed
    <3>2. a' = a
      BY <2>1
    <3> HIDE DEF l, a
    <3>3. \A b : MayStart(l, b) => MayStart(l, b)'
      BY <1>1, <3>1, GateKept DEF FinishedKeptOrGone
    <3> QED
      BY <3>1, <3>2, <3>3 DEF l, a
  <2>3. ASSUME Limit # Null, NEW l \in Learners, NEW a \in 0 .. MaxAssignments
        PROVE  Cardinality(RowsIn(l, a)') <= Limit
    <3> DEFINE old == RowsIn(l, a)
               new == RowsIn(l, a)'
    <3>1. Cardinality(old) <= Limit /\ Limit \in Nat
      BY <1>1, <2>3 DEF GateInv, WithinQuota
    <3>2. new \subseteq old
      BY <2>1 DEF RowsIn, RowsOf, Kept
    <3>3. IsFiniteSet(old)
      BY <1>2
    <3> HIDE DEF old, new
    <3>4. Cardinality(new) <= Cardinality(old) /\ Cardinality(new) \in Nat
          /\ Cardinality(old) \in Nat
      BY <3>2, <3>3, FS_Subset, FS_CardinalityType
    <3> QED
      BY <3>1, <3>4 DEF new
  <2>4. GatePassed'
    BY <2>1, <2>2 DEF GatePassed
  <2> QED
    BY <2>3, <2>4 DEF WithinQuota
<1> QED
  BY <1>1, <1>3, <1>4 DEF GateInv

LEMMA GateInitial ==
  ASSUME Init
  PROVE  GateInv
<1>1. /\ \A l \in Learners : OpenRows(l) = {}
      /\ \A l, a : RowsIn(l, a) = {}
  BY DEF Init, OpenRows, RowsIn, RowsOf
<1>2. OneOpenInv
  BY OneOpenInitial
<1>3. WithinQuota
  BY <1>1, FS_EmptySet, LifecycleAssumption DEF WithinQuota
<1> QED
  BY <1>2, <1>3 DEF Init, GateInv, GatePassed, IdleRequest

(* The invariant of the gates. *)
LEMMA GateInvariant ==
  ASSUME OneTabEach
  PROVE  Spec => []GateInv
BY GateInitial, GateInductive, PTL DEF Spec

(* PRD-31 FR-07: finishing checks no limit, and starting checks it steps     *)
(* before the row is written; still no assignment is worth more finished     *)
(* attempts than the limit when each learner sends one request at a time,    *)
(* whatever the learner abandons, restarts or finishes again.                *)
THEOREM QuotaKept ==
  ASSUME OneTabEach
  PROVE  Spec => []QuotaHolds
<1>1. GateInv => QuotaHolds
  <2> SUFFICES ASSUME GateInv, Limit # Null, NEW l \in Learners, NEW a \in 0 .. MaxAssignments
               PROVE  countAttemptsInAssignment(FactsOf(l), a) <= Limit
    BY DEF QuotaHolds
  <2>1. TypeInv /\ Limit \in Nat /\ Cardinality(RowsIn(l, a)) <= Limit
    BY LifecycleAssumption DEF GateInv, OneOpenInv, SafeInv, WithinQuota
  <2>2. /\ countAttemptsInAssignment(FactsOf(l), a) = Cardinality(FinishedIn(l, a))
        /\ Cardinality(FinishedIn(l, a)) \in Nat
        /\ Cardinality(RowsIn(l, a)) \in Nat
        /\ Cardinality(FinishedIn(l, a)) <= Cardinality(RowsIn(l, a))
    BY <2>1, CountIsRows, FS_CardinalityType
  <2> QED
    BY <2>1, <2>2
<1> QED
  BY <1>1, GateInvariant, PTL

(* decideRetake and maxAttempts are decided on attempts read steps before    *)
(* the row is written: with one request at a time per learner they would     *)
(* still let the learner in when it is, whatever resets, reassignments and   *)
(* publications come in between.                                             *)
THEOREM StartedUnderGate ==
  ASSUME OneTabEach
  PROVE  Spec => OpenedUnderGate
<1>1. GateInv /\ [Next]_vars =>
        [\A i \in RowIds :
           attempts[i] = Null /\ attempts'[i] # Null
             => MayStart(attempts'[i].owner, attempts'[i].assignment)]_vars
  <2> SUFFICES ASSUME GateInv, Next, NEW i \in RowIds, attempts[i] = Null, attempts'[i] # Null
               PROVE  MayStart(attempts'[i].owner, attempts'[i].assignment)
    OBVIOUS
  <2>1. TypeInv /\ SafeInv
    BY DEF GateInv, OneOpenInv, SafeInv
  <2>2. PICK r \in Requests : LearnerStep(r)
    BY <2>1, OthersOnlyDrop DEF Kept
  <2>3. Written(r, i)
    BY <2>1, <2>2, RowWritten DEF Kept
  <2>4. /\ StartCreate(r)
        /\ attempts'[i].owner = Client[r] /\ attempts'[i].assignment = req[r].assignment
    BY <2>3, LifecycleAssumption DEF Written
  <2> QED
    BY <2>4 DEF GateInv, GatePassed, StartCreate
<1> QED
  BY <1>1, GateInvariant, PTL DEF Spec, OpenedUnderGate

-----------------------------------------------------------------------------
(* What an attempt was dealt from, and the publications underneath.         *)

(* Publications follow one another. *)
OnePublisher == \A p, q \in Publishers : p = q

(* Pinned to the active snapshot when it was created. *)
Active(i) == attempts[i] # Null /\ attempts[i].active

(* The rows of test_snapshots.                                              *)
SnapshotsDistinct ==
  /\ \A s \in snapshots : s.id <= minted
  /\ \A s, t \in snapshots : (s.id = t.id \/ s.version = t.version) => s = t

(* A publication under way: its version is ahead, its own snapshot is the    *)
(* latest while it prunes, and what it prunes is not what an active attempt *)
(* was dealt from.                                                          *)
PublisherSafe(q) ==
  /\ q.pc = "insert" => \A s \in snapshots : s.version < q.version
  /\ q.pc \in {"prune", "delete"} /\ snapshots # {} =>
       \E k \in snapshots : k.id = q.keep /\ \A s \in snapshots : s.version <= k.version
  /\ q.pc = "delete" \/ (q.pc = "prune" /\ "referenced" \notin q.pending) =>
       \A i \in RowIds : Active(i) => attempts[i].snapshot \in q.referenced \cup {q.keep}

PubSafe == SnapshotsDistinct /\ \A p \in Publishers : PublisherSafe(pub[p])

(* The source of an attempt and of a request.                               *)
RowSourced(row) ==
  /\ row.snapshot <= minted
  /\ \A s \in snapshots : s.id = row.snapshot => s.content = row.content
  /\ row.active => \E s \in snapshots : s.id = row.snapshot

RequestSourced(q) ==
  /\ q.snapshot <= minted
  /\ q.pc \in {"start_assignment", "start_attempts", "start_draw", "start_annul", "start_create"}
       => \A s \in snapshots : s.id = q.snapshot => s.content = q.content
  /\ q.pc = "finish_grade" /\ attempts[q.row] # Null => q.snapshot = attempts[q.row].snapshot
  /\ q.pc = "finish_write" /\ Active(q.row) => q.content = attempts[q.row].content

RowsSourced     == \A i \in RowIds : attempts[i] # Null => RowSourced(attempts[i])
RequestsSourced == \A r \in Requests : RequestSourced(req[r])

SourceInv == SafeInv /\ PubSafe /\ RowsSourced /\ RequestsSourced /\ GradedAsDelivered

(* What an attempt was dealt from never changes. *)
LEMMA DeliveryFixed ==
  ASSUME SafeInv, [Next]_vars, NEW i \in RowIds, attempts[i] # Null, attempts'[i] # Null
  PROVE  /\ attempts'[i].snapshot = attempts[i].snapshot
         /\ attempts'[i].content = attempts[i].content
         /\ attempts'[i].active = attempts[i].active
<1>1. TypeInv /\ created \in Nat /\ i <= created
  <2>1. TypeInv /\ created \in Nat
    BY TypeInvParts, LifecycleAssumption DEF SafeInv
  <2> QED
    BY <2>1 DEF SafeInv, NoRowYet, RowIds
<1>2. CASE Kept(i)
  BY <1>2 DEF Kept
<1>3. ASSUME NEW r \in Requests, LearnerStep(r), ~Kept(i)
      PROVE  /\ attempts'[i].snapshot = attempts[i].snapshot
             /\ attempts'[i].content = attempts[i].content
             /\ attempts'[i].active = attempts[i].active
  <2>1. Written(r, i)
    BY <1>1, <1>3, RowWritten
  <2>2. i # created + 1
    BY <1>1 DEF RowIds
  <2> QED
    BY <2>1, <2>2 DEF Written, SameBut
<1> QED
  BY <1>1, <1>2, <1>3, OthersOnlyDrop

(* A new attempt is a copy of what the start carries. *)
LEMMA NewRowIs ==
  ASSUME SafeInv, [Next]_vars, NEW i \in RowIds, attempts[i] = Null, attempts'[i] # Null
  PROVE  \E r \in Requests :
           /\ StartCreate(r)
           /\ attempts'[i].snapshot = req[r].snapshot
           /\ attempts'[i].content = req[r].content
           /\ attempts'[i].active = (HasSnapshot /\ LatestSnapshot.id = req[r].snapshot)
           /\ attempts'[i].result = Null
<1>1. TypeInv
  BY DEF SafeInv
<1>2. PICK r \in Requests : LearnerStep(r)
  BY <1>1, OthersOnlyDrop DEF Kept
<1>3. Written(r, i)
  BY <1>1, <1>2, RowWritten DEF Kept
<1> QED
  BY <1>3, LifecycleAssumption DEF Written

(* The latest snapshot, as the publication that prunes knows it.            *)
LEMMA PruningKeepsLatest ==
  ASSUME SourceInv, NEW p \in Publishers, pub[p].pc \in {"prune", "delete"}, HasSnapshot
  PROVE  LatestSnapshot.id = pub[p].keep
<1>1. PubInv /\ \A s \in snapshots : s.version \in Nat
  <2>1. PubInv
    BY TypeInvParts DEF SourceInv, SafeInv
  <2> QED
    BY <2>1 DEF PubInv, PublicationTypeOK, Snapshot
<1>2. LatestSnapshot \in snapshots /\ \A t \in snapshots : t.version <= LatestSnapshot.version
  BY <1>1, LatestIsSnapshot
<1>3. PICK k \in snapshots : k.id = pub[p].keep /\ \A s \in snapshots : s.version <= k.version
  BY DEF SourceInv, PubSafe, PublisherSafe, HasSnapshot
<1>4. k.version = LatestSnapshot.version
  BY <1>1, <1>2, <1>3
<1> QED
  BY <1>2, <1>3, <1>4 DEF SourceInv, PubSafe, SnapshotsDistinct

(* A start past the read of its source; a finish under way. *)
StartPcs == {"start_assignment", "start_attempts", "start_draw", "start_annul", "start_create"}

FinishPcs == {"finish_grade", "finish_write"}

(* A snapshot id a start can carry is None or one that was handed out.      *)
LEMMA NoneIsNoSnapshot ==
  ASSUME PubInv
  PROVE  /\ minted \in Nat /\ None <= minted
         /\ \A s \in snapshots : s.id # None /\ s.id \in Nat
BY PublicationAssumption DEF PubInv, PublicationTypeOK, Snapshot, SnapshotIds, None

(* A step of a request leaves its own state well sourced. *)
LEMMA RequestMoves ==
  ASSUME SourceInv, NEW r \in Requests, LearnerStep(r)
  PROVE  RequestSourced(req[r])'
<1>1. /\ TypeInv /\ PubInv /\ SnapshotsDistinct /\ RequestSourced(req[r])
      /\ req \in [Requests -> Request] /\ req[r] \in Request
      /\ Client[r] \in Learners
      /\ minted \in Nat /\ None <= minted /\ \A s \in snapshots : s.id # None
  <2>1. TypeInv /\ PubInv /\ SnapshotsDistinct /\ RequestSourced(req[r])
    BY TypeInvParts DEF SourceInv, SafeInv, PubSafe, RequestsSourced
  <2> QED
    BY <2>1, TypeInvParts, NoneIsNoSnapshot, LifecycleAssumption DEF ReqInv
<1>2. UNCHANGED <<snapshots, minted>>
  BY DEF LearnerStep, StartReadTest, StartReadSnapshot, StartReadAssignment, StartReadAttempts,
         StartDraw, StartAnnul, StartCreate, SaveRead, SaveWrite, FinishRead, FinishGrade,
         FinishWrite, pubVars
<1>3. ASSUME req'[r].snapshot = req[r].snapshot, req'[r].content = req[r].content,
             req[r].pc \in StartPcs, req'[r].pc \in StartPcs
      PROVE  RequestSourced(req[r])'
  BY <1>1, <1>2, <1>3 DEF RequestSourced, StartPcs
<1>4. CASE Done(r)
  <2>1. req'[r].pc = "idle" /\ req'[r].snapshot = None
    BY <1>1, <1>4 DEF Done, IdleRequest
  <2> QED
    BY <1>1, <1>2, <2>1 DEF RequestSourced
<1>5. CASE StartReadTest(r)
  <2>1. req'[r].pc \in {"start_snapshot", "start_assignment"} /\ req'[r].snapshot = None
    BY <1>1, <1>5 DEF StartReadTest, Goto, IdleRequest
  <2> QED
    BY <1>1, <1>2, <2>1 DEF RequestSourced
<1>6. CASE StartReadSnapshot(r)
  <2>1. CASE HasSnapshot
    <3>1. /\ req'[r].pc = "start_assignment"
          /\ req'[r].snapshot = LatestSnapshot.id /\ req'[r].content = LatestSnapshot.content
      BY <1>1, <1>6, <2>1 DEF StartReadSnapshot, Goto, Request
    <3>2. LatestSnapshot \in snapshots
      BY <1>1, <2>1, LatestIsSnapshot
    <3> QED
      BY <1>1, <1>2, <3>1, <3>2 DEF RequestSourced, SnapshotsDistinct
  <2>2. CASE ~HasSnapshot
    <3>1. req'[r].pc = "start_assignment" /\ req'[r].snapshot = req[r].snapshot
      BY <1>1, <1>6, <2>2 DEF StartReadSnapshot, Goto, Request
    <3> QED
      BY <1>1, <1>2, <2>2, <3>1 DEF RequestSourced, HasSnapshot
  <2> QED
    BY <2>1, <2>2
<1>7. CASE StartReadAssignment(r)
  <2>1. /\ req'[r].snapshot = req[r].snapshot /\ req'[r].content = req[r].content
        /\ req[r].pc = "start_assignment" /\ req'[r].pc = "start_attempts"
    BY <1>1, <1>7 DEF StartReadAssignment, Goto, Request
  <2> QED
    BY <1>3, <2>1 DEF StartPcs
<1>8. CASE StartReadAttempts(r) /\ ~Done(r)
  <2> DEFINE
        reopen  == OpenRows(Client[r]) # {}
        newest  == attempts[NewestOpen(Client[r])]
        carried == reopen /\ newest.snapshot = req[r].snapshot
        content == IF carried THEN newest.content ELSE req[r].content
        q == [req[r] EXCEPT
                !.pc      = IF carried THEN "start_annul" ELSE "start_draw",
                !.reopen  = reopen,
                !.drawn   = IF carried THEN newest.drawn ELSE Null,
                !.content = IF carried THEN newest.content ELSE @]
  <2>1. Goto(r, q) /\ req[r].pc = "start_attempts"
    BY <1>8 DEF StartReadAttempts
  <2>2. q.pc \in {"start_annul", "start_draw"} /\ q.snapshot = req[r].snapshot
        /\ q.content = content
    <3> HIDE DEF reopen, carried, newest
    <3> QED
      BY <1>1 DEF Request
  <2> HIDE DEF q
  <2>3. /\ req'[r].pc \in {"start_annul", "start_draw"} /\ req'[r].snapshot = req[r].snapshot
        /\ req'[r].content = content
    BY <1>1, <2>1, <2>2 DEF Goto
  <2>4. CASE carried
    <3>1. NewestOpen(Client[r]) \in RowIds /\ newest # Null
      BY <1>1, <2>4, NewestIsOpen DEF OpenRows, RowsOf
    <3>2. \A s \in snapshots : s.id = newest.snapshot => s.content = newest.content
      BY <3>1 DEF SourceInv, RowsSourced, RowSourced
    <3> QED
      BY <1>1, <1>2, <2>3, <2>4, <3>2 DEF RequestSourced
  <2>5. CASE ~carried
    <3> HIDE DEF reopen, carried, newest
    <3>1. content = req[r].content
      BY <2>5
    <3> HIDE DEF content
    <3> QED
      BY <1>3, <2>1, <2>3, <3>1 DEF StartPcs
  <2> QED
    BY <2>4, <2>5
<1>9. CASE StartDraw(r)
  <2>1. PICK d \in Draws :
          Goto(r, [req[r] EXCEPT
                     !.pc      = IF req[r].reopen THEN "start_annul" ELSE "start_create",
                     !.drawn   = d,
                     !.content = IF req[r].snapshot = None THEN bank ELSE @])
    BY <1>9 DEF StartDraw
  <2>2. /\ req'[r].pc \in {"start_annul", "start_create"} /\ req'[r].snapshot = req[r].snapshot
        /\ req[r].snapshot # None => req'[r].content = req[r].content
    BY <1>1, <2>1 DEF Goto, Request
  <2>3. CASE req[r].snapshot = None
    BY <1>1, <1>2, <2>2, <2>3 DEF RequestSourced
  <2>4. CASE req[r].snapshot # None
    BY <1>3, <1>9, <2>2, <2>4 DEF StartPcs, StartDraw
  <2> QED
    BY <2>3, <2>4
<1>10. CASE StartAnnul(r)
  <2>1. /\ req'[r].snapshot = req[r].snapshot /\ req'[r].content = req[r].content
        /\ req[r].pc = "start_annul" /\ req'[r].pc = "start_create"
    BY <1>1, <1>10 DEF StartAnnul, Goto, Request
  <2> QED
    BY <1>3, <2>1 DEF StartPcs
<1>11. CASE SaveRead(r)
  <2>1. req'[r].pc = "save_write" /\ req'[r].snapshot = None
    BY <1>1, <1>11 DEF SaveRead, Goto, IdleRequest
  <2> QED
    BY <1>1, <1>2, <2>1 DEF RequestSourced
<1>12. CASE FinishRead(r)
  <2>1. PICK i \in RowsOf(Client[r]), a \in Answers :
          Goto(r, [IdleRequest EXCEPT !.pc = "finish_grade", !.row = i, !.answers = a,
                                      !.snapshot = attempts[i].snapshot])
    BY <1>12 DEF FinishRead
  <2>2. req'[r].pc = "finish_grade" /\ req'[r].row = i /\ req'[r].snapshot = attempts[i].snapshot
    BY <1>1, <2>1 DEF Goto, IdleRequest
  <2>3. UNCHANGED attempts
    BY <1>12 DEF FinishRead
  <2>4. attempts[i].snapshot <= minted
    BY DEF RowsOf, SourceInv, RowsSourced, RowSourced
  <2> QED
    BY <1>2, <2>2, <2>3, <2>4 DEF RequestSourced
<1>13. CASE FinishGrade(r) /\ ~Done(r)
  <2>1. Goto(r, [req[r] EXCEPT !.pc = "finish_write",
                               !.content = dataSourceForAttempt(req[r].snapshot)])
    BY <1>13 DEF FinishGrade
  <2>2. /\ req'[r].pc = "finish_write" /\ req'[r].row = req[r].row
        /\ req'[r].snapshot = req[r].snapshot
        /\ req'[r].content = dataSourceForAttempt(req[r].snapshot)
    BY <1>1, <2>1 DEF Goto, Request
  <2>3. UNCHANGED attempts /\ req[r].pc = "finish_grade"
    BY <1>13 DEF FinishGrade
  <2>4. ASSUME Active(req[r].row)
        PROVE  dataSourceForAttempt(req[r].snapshot) = attempts[req[r].row].content
    <3> DEFINE row == attempts[req[r].row]
    <3>1. row # Null /\ req[r].row \in RowIds /\ req[r].snapshot = row.snapshot /\ row.active
      BY <1>1, <2>3, <2>4 DEF Active, RequestSourced, TypeInv, RequestReady, Answered
    <3>2. RowSourced(row)
      BY <3>1 DEF SourceInv, RowsSourced
    <3> HIDE DEF row
    <3>3. SnapshotsOf(req[r].snapshot) # {}
          /\ \A s \in SnapshotsOf(req[r].snapshot) : s.content = row.content
      BY <3>1, <3>2 DEF RowSourced, SnapshotsOf
    <3> QED
      BY <3>3 DEF dataSourceForAttempt, row
  <2> QED
    BY <1>1, <1>2, <2>2, <2>3, <2>4 DEF RequestSourced, Active
<1> QED
  BY <1>4, <1>5, <1>6, <1>7, <1>8, <1>9, <1>10, <1>11, <1>12, <1>13
  DEF LearnerStep, StartCreate, SaveWrite, FinishWrite

(* A step of a request keeps the invariant. *)
LEMMA RequestKeepsSource ==
  ASSUME SourceInv, NEW r \in Requests, LearnerStep(r)
  PROVE  SourceInv'
<1>1. /\ SafeInv /\ SafeInv' /\ TypeInv /\ PubInv /\ [Next]_vars
      /\ created \in Nat
      /\ \A i \in RowIds : i > created => attempts[i] = Null
  <2>1. SafeInv /\ SafeInv' /\ TypeInv /\ [Next]_vars
    BY SafeInductive DEF SourceInv, SafeInv, Next
  <2> QED
    BY <2>1, TypeInvParts, LifecycleAssumption DEF SafeInv, NoRowYet
<1>2. UNCHANGED <<snapshots, minted, pub>>
  BY DEF LearnerStep, StartReadTest, StartReadSnapshot, StartReadAssignment, StartReadAttempts,
         StartDraw, StartAnnul, StartCreate, SaveRead, SaveWrite, FinishRead, FinishGrade,
         FinishWrite, pubVars
<1>3. ASSUME NEW i \in RowIds, attempts'[i] # Null
      PROVE  \/ /\ attempts[i] # Null
                /\ attempts'[i].snapshot = attempts[i].snapshot
                /\ attempts'[i].content = attempts[i].content
                /\ attempts'[i].active = attempts[i].active
             \/ /\ RowSourced(attempts'[i])
                /\ attempts'[i].active => HasSnapshot /\ LatestSnapshot.id = attempts'[i].snapshot
  <2>1. CASE attempts[i] # Null
    BY <1>1, <1>3, <2>1, DeliveryFixed
  <2>2. CASE attempts[i] = Null
    <3>1. PICK x \in Requests :
           /\ StartCreate(x)
           /\ attempts'[i].snapshot = req[x].snapshot
           /\ attempts'[i].content = req[x].content
           /\ attempts'[i].active = (HasSnapshot /\ LatestSnapshot.id = req[x].snapshot)
      BY <1>1, <1>3, <2>2, NewRowIs
    <3>2. RequestSourced(req[x]) /\ req[x].pc = "start_create"
      BY <3>1 DEF SourceInv, RequestsSourced, StartCreate
    <3>3. HasSnapshot => LatestSnapshot \in snapshots
      BY <1>1, LatestIsSnapshot
    <3> QED
      BY <3>1, <3>2, <3>3 DEF RequestSourced, RowSourced
  <2> QED
    BY <2>1, <2>2
<1>4. PubSafe'
  <2>1. ASSUME NEW p \in Publishers,
               pub[p].pc = "delete" \/ (pub[p].pc = "prune" /\ "referenced" \notin pub[p].pending),
               NEW i \in RowIds, Active(i)'
        PROVE  attempts'[i].snapshot \in pub[p].referenced \cup {pub[p].keep}
    <3>1. attempts'[i] # Null /\ attempts'[i].active
      BY <2>1 DEF Active
    <3>2. CASE /\ attempts[i] # Null
               /\ attempts'[i].snapshot = attempts[i].snapshot
               /\ attempts'[i].active = attempts[i].active
      BY <2>1, <3>1, <3>2 DEF Active, SourceInv, PubSafe, PublisherSafe
    <3>3. CASE HasSnapshot /\ LatestSnapshot.id = attempts'[i].snapshot
      BY <2>1, <3>3, PruningKeepsLatest
    <3> QED
      BY <1>3, <3>1, <3>2, <3>3
  <2> QED
    BY <1>2, <2>1 DEF SourceInv, PubSafe, PublisherSafe, SnapshotsDistinct
<1>5. RowsSourced'
  <2> SUFFICES ASSUME NEW i \in RowIds, attempts'[i] # Null PROVE RowSourced(attempts'[i])
    BY <1>2 DEF RowsSourced, RowSourced
  <2> QED
    BY <1>3 DEF SourceInv, RowsSourced, RowSourced
<1>6. RequestsSourced'
  <2> SUFFICES ASSUME NEW x \in Requests PROVE RequestSourced(req[x])'
    BY DEF RequestsSourced
  <2>1. CASE x = r
    BY <2>1, RequestMoves
  <2>2. CASE x # r
    <3>1. req'[x] = req[x] /\ RequestSourced(req[x])
      BY <1>1, <2>2, RowChosen DEF SourceInv, RequestsSourced
    <3>2. ASSUME req[x].pc \in FinishPcs, attempts'[req[x].row] # Null
          PROVE  /\ attempts[req[x].row] # Null
                 /\ attempts'[req[x].row].snapshot = attempts[req[x].row].snapshot
                 /\ attempts'[req[x].row].content = attempts[req[x].row].content
                 /\ attempts'[req[x].row].active = attempts[req[x].row].active
      <4> DEFINE i == req[x].row
      <4>1. i \in RowIds /\ i <= created
        BY <1>1, <3>2 DEF SafeInv, RowsRemembered, TypeInv, RequestReady, Answered, FinishPcs
      <4>2. attempts[i] # Null
        <5>1. CASE attempts[i] = Null
          <6>1. ~Kept(i)
            BY <3>2, <5>1 DEF Kept
          <6> HIDE DEF i
          <6>2. Written(r, i)
            BY <1>1, <4>1, <6>1, RowWritten
          <6> QED
            BY <1>1, <4>1, <5>1, <6>2, LifecycleAssumption DEF Written, OpenRows, RowsOf, RowIds
        <5> QED
          BY <5>1
      <4> HIDE DEF i
      <4>3. attempts'[i] # Null
        BY <3>2 DEF i
      <4>4. /\ attempts'[i].snapshot = attempts[i].snapshot
            /\ attempts'[i].content = attempts[i].content
            /\ attempts'[i].active = attempts[i].active
        BY <1>1, <4>1, <4>2, <4>3, DeliveryFixed
      <4> QED
        BY <4>2, <4>4 DEF i
    <3> QED
      BY <1>2, <3>1, <3>2 DEF RequestSourced, Active, FinishPcs
  <2> QED
    BY <2>1, <2>2
<1>7. GradedAsDelivered'
  <2> SUFFICES ASSUME NEW i \in RowIds, attempts'[i] # Null, attempts'[i].active,
                      attempts'[i].result # Null
               PROVE  attempts'[i].result.content = attempts'[i].content
    BY DEF GradedAsDelivered
  <2>1. CASE Kept(i)
    BY <2>1 DEF Kept, SourceInv, GradedAsDelivered
  <2>2. CASE ~Kept(i)
    <3>1. Written(r, i)
      BY <1>1, <2>2, RowWritten
    <3>2. CASE /\ SaveWrite(r) /\ attempts[i] \in Row
               /\ SameBut(attempts[i], attempts'[i], {"answers", "drawn"})
      BY <3>2, LifecycleAssumption DEF SameBut, SourceInv, GradedAsDelivered
    <3>3. CASE /\ FinishWrite(r) /\ i = req[r].row /\ attempts[i] \in Row
               /\ SameBut(attempts[i], attempts'[i], {"answers", "result", "finishedAt"})
               /\ attempts'[i].result.content = req[r].content
      <4>1. attempts[i] # Null /\ attempts[i].active /\ attempts'[i].content = attempts[i].content
        BY <3>3, LifecycleAssumption DEF SameBut
      <4>2. req[r].content = attempts[i].content
        BY <3>3, <4>1 DEF SourceInv, RequestsSourced, RequestSourced, Active, FinishWrite
      <4> QED
        BY <3>3, <4>1, <4>2
    <3> QED
      BY <3>1, <3>2, <3>3 DEF Written
  <2> QED
    BY <2>1, <2>2
<1> QED
  BY <1>1, <1>4, <1>5, <1>6, <1>7 DEF SourceInv

(* No attempt changes but by being dropped. *)
RowsOnlyGo == \A i \in RowIds : Kept(i) \/ attempts'[i] = Null

(* Attempts and requests stay well sourced when snapshots come under new     *)
(* ids, and go only when no active attempt was dealt from them.             *)
LEMMA SourcesFrame ==
  ASSUME SourceInv, UNCHANGED req, RowsOnlyGo,
         minted \in Nat, minted' \in Nat, minted <= minted',
         \A s \in snapshots' : s.id \in Nat /\ (s \in snapshots \/ s.id > minted),
         \A i \in RowIds : Active(i) /\ Active(i)' =>
           \E s \in snapshots' : s.id = attempts[i].snapshot
  PROVE  RowsSourced' /\ RequestsSourced' /\ GradedAsDelivered'
<1>1. /\ TypeInv /\ attempts \in [RowIds -> Row \cup {Null}]
      /\ req \in [Requests -> Request]
  <2>1. TypeInv
    BY DEF SourceInv, SafeInv
  <2> QED
    BY <2>1, TypeInvParts DEF ReqInv
<1>2. \A i \in RowIds : attempts[i] # Null => attempts[i].snapshot \in Nat
  BY <1>1, PublicationAssumption DEF Row, SnapshotIds, None
<1>3. \A r \in Requests : req[r].snapshot \in Nat
  BY <1>1, PublicationAssumption DEF Request, SnapshotIds, None
<1>4. ASSUME NEW i \in RowIds, attempts'[i] # Null
      PROVE  RowSourced(attempts[i])'
  <2>1. attempts'[i] = attempts[i]
    BY <1>4 DEF RowsOnlyGo, Kept
  <2>2. RowSourced(attempts[i]) /\ attempts[i].snapshot \in Nat
    BY <1>2, <1>4, <2>1 DEF SourceInv, RowsSourced
  <2>3. attempts[i].active => Active(i) /\ Active(i)'
    BY <1>4, <2>1 DEF Active
  <2> QED
    BY <1>4, <2>1, <2>2, <2>3 DEF RowSourced
<1>5. ASSUME NEW r \in Requests
      PROVE  RequestSourced(req[r])'
  <2>1. RequestSourced(req[r]) /\ req'[r] = req[r] /\ req[r].snapshot \in Nat
    BY <1>3 DEF SourceInv, RequestsSourced
  <2>2. req[r].pc \in FinishPcs => req[r].row \in RowIds
    BY <1>1 DEF TypeInv, RequestReady, Answered, FinishPcs
  <2>3. req[r].pc \in FinishPcs /\ attempts'[req[r].row] # Null =>
          attempts'[req[r].row] = attempts[req[r].row]
    BY <2>2 DEF RowsOnlyGo, Kept
  <2> QED
    BY <2>1, <2>3 DEF RequestSourced, Active, FinishPcs
<1>6. GradedAsDelivered'
  BY DEF SourceInv, GradedAsDelivered, RowsOnlyGo, Kept
<1> QED
  BY <1>4, <1>5, <1>6 DEF RowsSourced, RequestsSourced

(* A publisher that does not move stays safe while snapshots stay, or all go. *)
LEMMA PublishersFrame ==
  ASSUME SourceInv, RowsOnlyGo, UNCHANGED <<pub, minted>>,
         snapshots' = snapshots \/ snapshots' = {}
  PROVE  PubSafe'
<1>1. \A i \in RowIds : Active(i)' => Active(i) /\ attempts'[i].snapshot = attempts[i].snapshot
  BY DEF RowsOnlyGo, Kept, Active
<1> QED
  BY <1>1 DEF SourceInv, PubSafe, SnapshotsDistinct, PublisherSafe

(* The one publisher moves, and no snapshot comes or goes.                   *)
LEMMA PublisherMovesSafely ==
  ASSUME SourceInv, OnePublisher, RowsOnlyGo, UNCHANGED <<snapshots, minted>>,
         NEW p \in Publishers, PublisherSafe(pub[p])'
  PROVE  PubSafe'
BY DEF SourceInv, PubSafe, SnapshotsDistinct, OnePublisher

(* How snapshots come and go: under new ids, never the latest, never one an  *)
(* active attempt was dealt from.                                           *)
TurnOver ==
  /\ minted' \in Nat /\ minted <= minted'
  /\ \A s \in snapshots' : s.id \in Nat /\ (s \in snapshots \/ s.id > minted)
  /\ \A i \in RowIds : Active(i) /\ Active(i)' =>
       \E s \in snapshots' : s.id = attempts[i].snapshot
  /\ HasSnapshot => \E s \in snapshots' : s.version >= LatestSnapshot.version

LEMMA PublicationKeepsSafe ==
  ASSUME SourceInv, OnePublisher, PublicationStep \/ \E p \in Publishers : AnnulAll(p),
         RowsOnlyGo
  PROVE  PubSafe' /\ TurnOver
<1>1. /\ TypeInv /\ PubInv /\ PubSafe /\ SnapshotsDistinct
      /\ minted \in Nat /\ \A s \in snapshots : s.id # None /\ s.id \in Nat
      /\ pub \in [Publishers -> Publisher]
      /\ snapshots \subseteq Snapshot
      /\ \A s \in snapshots : s.version \in Nat
      /\ \A i \in RowIds : Active(i) => \E s \in snapshots : s.id = attempts[i].snapshot
  <2>1. TypeInv /\ PubInv
    BY TypeInvParts DEF SourceInv, SafeInv
  <2> QED
    BY <2>1, NoneIsNoSnapshot
    DEF SourceInv, PubSafe, PubInv, PublicationTypeOK, Snapshot, RowsSourced, RowSourced, Active
<1>2. HasSnapshot => /\ LatestSnapshot \in snapshots /\ LatestSnapshot.version \in Nat
                     /\ \A t \in snapshots : t.version <= LatestSnapshot.version
  BY <1>1, LatestIsSnapshot
<1>3. \A i \in RowIds : Active(i)' => Active(i) /\ attempts'[i].snapshot = attempts[i].snapshot
  BY DEF RowsOnlyGo, Kept, Active
<1> DEFINE Same == /\ PubSafe'
                   /\ UNCHANGED <<snapshots, minted>>
<1>4. ASSUME Same
      PROVE  PubSafe' /\ TurnOver
  BY <1>1, <1>2, <1>4 DEF TurnOver
<1>5. CASE EditBank \/ \E to \in {"draft", "archived"} : Withdraw(to)
  BY <1>4, <1>5, PublishersFrame DEF EditBank, Withdraw
<1>6. ASSUME NEW p \in Publishers,
             \/ BeginPublish(p) \/ PatchStatus(p) \/ BeginRepublishForce(p)
             \/ AnnulDone(p) \/ BuildContent(p)
      PROVE  Same
  <2>1. pub'[p].pc \in {"idle", "patch", "annul", "build", "version"}
    BY <1>1, <1>6 DEF BeginPublish, PatchStatus, BeginRepublishForce, AnnulDone, BuildContent,
                      IdlePublisher, Publisher
  <2>2. PublisherSafe(pub[p])'
    BY <2>1 DEF PublisherSafe
  <2>3. UNCHANGED <<snapshots, minted>>
    BY <1>6 DEF BeginPublish, PatchStatus, BeginRepublishForce, AnnulDone, BuildContent
  <2> QED
    BY <2>2, <2>3, PublisherMovesSafely
<1>7. ASSUME NEW p \in Publishers, ReadVersion(p) PROVE Same
  <2>1. /\ pub'[p].pc = "insert"
        /\ pub'[p].version = IF HasSnapshot THEN LatestSnapshot.version + 1 ELSE 1
    BY <1>1, <1>7 DEF ReadVersion, Publisher
  <2>2. \A s \in snapshots : s.version < pub'[p].version
    BY <1>1, <1>2, <2>1 DEF HasSnapshot
  <2>3. UNCHANGED <<snapshots, minted>>
    BY <1>7 DEF ReadVersion
  <2>4. PublisherSafe(pub[p])'
    BY <2>1, <2>2, <2>3 DEF PublisherSafe
  <2> QED
    BY <2>3, <2>4, PublisherMovesSafely
<1>8. ASSUME NEW p \in Publishers, ReadAll(p) PROVE Same
  <2>1. /\ pub[p].pc = "prune" /\ pub'[p].pc \in {"prune", "delete"}
        /\ pub'[p].keep = pub[p].keep /\ pub'[p].referenced = pub[p].referenced
        /\ pub'[p].pending = pub[p].pending \ {"all"}
        /\ pub'[p].pc = "delete" => pub[p].pending = {"all"}
    BY <1>1, <1>8 DEF ReadAll, Publisher
  <2>2. UNCHANGED <<snapshots, minted>>
    BY <1>8 DEF ReadAll
  <2>3. PublisherSafe(pub[p])
    BY <1>1 DEF PubSafe
  <2>4. PublisherSafe(pub[p])'
    BY <1>3, <2>1, <2>2, <2>3 DEF PublisherSafe
  <2> QED
    BY <2>2, <2>4, PublisherMovesSafely
<1>9. ASSUME NEW p \in Publishers, ReadReferenced(p, PinnedSnapshots) PROVE Same
  <2>1. /\ pub[p].pc = "prune" /\ pub'[p].pc \in {"prune", "delete"}
        /\ pub'[p].keep = pub[p].keep
        /\ pub'[p].referenced = PinnedSnapshots \cap SnapshotIds
    BY <1>1, <1>9 DEF ReadReferenced, Publisher
  <2>2. UNCHANGED <<snapshots, minted>>
    BY <1>9 DEF ReadReferenced
  <2>3. PublisherSafe(pub[p])
    BY <1>1 DEF PubSafe
  <2>4. \A i \in RowIds : Active(i) => attempts[i].snapshot \in PinnedSnapshots \cap SnapshotIds
    <3> SUFFICES ASSUME NEW i \in RowIds, Active(i)
                 PROVE  attempts[i].snapshot \in PinnedSnapshots \cap SnapshotIds
      OBVIOUS
    <3>1. PICK s \in snapshots : s.id = attempts[i].snapshot
      BY <1>1
    <3>2. s.id \in SnapshotIds /\ s.id # None
      BY <1>1 DEF Snapshot
    <3> QED
      BY <3>1, <3>2 DEF PinnedSnapshots, Active
  <2>5. PublisherSafe(pub[p])'
    BY <1>3, <2>1, <2>2, <2>3, <2>4 DEF PublisherSafe
  <2> QED
    BY <2>2, <2>5, PublisherMovesSafely
<1>10. ASSUME NEW p \in Publishers, InsertSnapshot(p), pub' = [pub EXCEPT ![p] = IdlePublisher],
              UNCHANGED <<snapshots, minted>>
       PROVE  Same
  <2>1. pub'[p].pc = "idle"
    BY <1>1, <1>10 DEF IdlePublisher
  <2>2. PublisherSafe(pub[p])'
    BY <2>1 DEF PublisherSafe
  <2> QED
    BY <1>10, <2>2, PublisherMovesSafely
<1>11. ASSUME NEW p \in Publishers, DeleteDoomed(p), pub' = [pub EXCEPT ![p] = IdlePublisher],
              UNCHANGED snapshots
       PROVE  Same
  <2>1. pub'[p].pc = "idle"
    BY <1>1, <1>11 DEF IdlePublisher
  <2>2. PublisherSafe(pub[p])'
    BY <2>1 DEF PublisherSafe
  <2> QED
    BY <1>11, <2>2, PublisherMovesSafely DEF DeleteDoomed
<1>12. ASSUME NEW p \in Publishers, InsertSnapshot(p),
              ~ \E s \in snapshots : s.version = pub[p].version
       PROVE  /\ PubSafe'
              /\ minted' \in Nat /\ minted <= minted'
              /\ \A s \in snapshots' : s.id \in Nat /\ (s \in snapshots \/ s.id > minted)
              /\ snapshots \subseteq snapshots'
  <2> DEFINE id == minted + 1
             new == [id |-> id, version |-> pub[p].version, content |-> pub[p].content]
  <2>1. /\ snapshots' = snapshots \cup {new} /\ minted' = id
        /\ pub' = [pub EXCEPT ![p].pc = "prune", ![p].keep = id,
                              ![p].pending = {"all", "referenced"}]
        /\ pub[p].pc = "insert"
    BY <1>12 DEF InsertSnapshot
  <2>2. new.id = id /\ new.version = pub[p].version /\ pub[p].version \in Nat
    BY <1>1 DEF Publisher
  <2>3. \A s \in snapshots : s.version < new.version /\ s.id <= minted
    BY <1>1, <2>1, <2>2 DEF PubSafe, PublisherSafe, SnapshotsDistinct
  <2>4. pub'[p].pc = "prune" /\ pub'[p].keep = id /\ "referenced" \in pub'[p].pending
    BY <1>1, <2>1 DEF Publisher
  <2> HIDE DEF new
  <2>5. SnapshotsDistinct'
    <3>1. \A s \in snapshots' : s.id <= minted'
      BY <1>1, <2>1, <2>2, <2>3
    <3>2. \A s \in snapshots : s.id # new.id /\ s.version # new.version
      BY <1>1, <2>2, <2>3
    <3> QED
      BY <1>1, <2>1, <3>1, <3>2 DEF SnapshotsDistinct
  <2>6. PublisherSafe(pub[p])'
    <3>1. \A s \in snapshots' : s.version <= new.version
      BY <1>1, <2>1, <2>2, <2>3
    <3> QED
      BY <2>1, <2>2, <2>4, <3>1 DEF PublisherSafe
  <2>7. PubSafe'
    BY <2>5, <2>6 DEF PubSafe, OnePublisher
  <2> QED
    BY <1>1, <2>1, <2>2, <2>7
<1>13. ASSUME NEW p \in Publishers, DeleteDoomed(p), NEW id \in Doomed(pub[p]),
              snapshots' = {s \in snapshots : s.id # id},
              pub' = [pub EXCEPT ![p].all = @ \ {id}]
       PROVE  /\ PubSafe' /\ minted' = minted
              /\ \A i \in RowIds : Active(i) /\ Active(i)' =>
                   \E s \in snapshots' : s.id = attempts[i].snapshot
              /\ HasSnapshot => LatestSnapshot \in snapshots'
  <2>1. pub[p].pc = "delete" /\ PublisherSafe(pub[p]) /\ minted' = minted
    BY <1>1, <1>13 DEF DeleteDoomed, PubSafe
  <2>2. id # pub[p].keep /\ id \notin pub[p].referenced
    BY <1>13 DEF Doomed
  <2>3. \A i \in RowIds : Active(i) => attempts[i].snapshot # id
    BY <2>1, <2>2 DEF PublisherSafe
  <2>4. /\ pub'[p].pc = "delete" /\ pub'[p].keep = pub[p].keep
        /\ pub'[p].referenced = pub[p].referenced
    BY <1>1, <1>13, <2>1 DEF Publisher
  <2>5. PublisherSafe(pub[p])'
    <3>1. snapshots' # {} =>
            \E k \in snapshots' : k.id = pub[p].keep /\ \A s \in snapshots' : s.version <= k.version
      BY <1>13, <2>1, <2>2 DEF PublisherSafe
    <3> QED
      BY <1>3, <2>1, <2>4, <3>1 DEF PublisherSafe
  <2>6. SnapshotsDistinct'
    BY <1>1, <1>13, <2>1 DEF SnapshotsDistinct
  <2>7. HasSnapshot => LatestSnapshot \in snapshots'
    BY <1>2, <1>13, <2>1, <2>2, PruningKeepsLatest
  <2> QED
    BY <1>1, <1>13, <2>1, <2>3, <2>5, <2>6, <2>7 DEF PubSafe, OnePublisher
<1>14. ASSUME NEW p \in Publishers, InsertSnapshot(p)
       PROVE  PubSafe' /\ TurnOver
  <2>1. CASE \E s \in snapshots : s.version = pub[p].version
    BY <1>4, <1>10, <1>14, <2>1 DEF InsertSnapshot
  <2>2. CASE ~ \E s \in snapshots : s.version = pub[p].version
    <3>1. PubSafe'
      BY <1>12, <1>14, <2>2
    <3>2. TurnOver
      BY <1>1, <1>2, <1>12, <1>14, <2>2 DEF TurnOver
    <3> QED
      BY <3>1, <3>2
  <2> QED
    BY <2>1, <2>2
<1>15. ASSUME NEW p \in Publishers, DeleteDoomed(p)
       PROVE  PubSafe' /\ TurnOver
  <2>1. CASE pub' = [pub EXCEPT ![p] = IdlePublisher] /\ UNCHANGED snapshots
    BY <1>4, <1>11, <1>15, <2>1
  <2>2. ASSUME NEW id \in Doomed(pub[p]),
               snapshots' = {s \in snapshots : s.id # id},
               pub' = [pub EXCEPT ![p].all = @ \ {id}]
        PROVE  PubSafe' /\ TurnOver
    <3>1. /\ PubSafe' /\ minted' = minted
          /\ \A i \in RowIds : Active(i) /\ Active(i)' =>
               \E s \in snapshots' : s.id = attempts[i].snapshot
          /\ HasSnapshot => LatestSnapshot \in snapshots'
      BY <1>13, <1>15, <2>2
    <3>2. TurnOver
      BY <1>1, <1>2, <2>2, <3>1 DEF TurnOver
    <3> QED
      BY <3>1, <3>2
  <2> QED
    BY <1>15, <2>1, <2>2 DEF DeleteDoomed
<1> HIDE DEF Same
<1> QED
  BY <1>4, <1>5, <1>6, <1>7, <1>8, <1>9, <1>14, <1>15 DEF PublicationStep, AnnulAll

LEMMA SourceInductive ==
  ASSUME OnePublisher, SourceInv, [Next]_vars
  PROVE  SourceInv'
<1>1. CASE \E r \in Requests : LearnerStep(r)
  BY <1>1, RequestKeepsSource
<1>2. CASE ~ \E r \in Requests : LearnerStep(r)
  <2>1. TypeInv /\ SafeInv'
    BY SafeInductive DEF SourceInv, SafeInv
  <2>2. UNCHANGED req /\ RowsOnlyGo
    BY <1>2, <2>1, OthersOnlyDrop DEF RowsOnlyGo
  <2>3. PubInv
    BY <2>1, TypeInvParts
  <2>4. minted \in Nat /\ \A s \in snapshots : s.id \in Nat
    BY <2>3, NoneIsNoSnapshot
  <2>5. CASE PublicationStep \/ \E p \in Publishers : AnnulAll(p)
    <3>1. PubSafe' /\ TurnOver
      BY <2>2, <2>5, PublicationKeepsSafe
    <3> QED
      BY <2>1, <2>2, <2>4, <3>1, SourcesFrame DEF TurnOver, SourceInv
  <2>6. CASE DeleteEverything
    <3>1. UNCHANGED <<pub, minted>> /\ snapshots' = {} /\ \A i \in RowIds : attempts'[i] = Null
      BY <2>6 DEF DeleteEverything, DeleteTest
    <3>2. PubSafe'
      BY <2>2, <3>1, PublishersFrame
    <3>3. \A i \in RowIds : ~ Active(i)'
      BY <3>1 DEF Active
    <3> QED
      BY <2>1, <2>2, <2>4, <3>1, <3>2, <3>3, SourcesFrame DEF SourceInv
  <2>7. CASE UNCHANGED pubVars
    <3>1. PubSafe'
      BY <2>2, <2>7, PublishersFrame DEF pubVars
    <3>2. \A i \in RowIds : Active(i) => \E s \in snapshots : s.id = attempts[i].snapshot
      BY DEF SourceInv, RowsSourced, RowSourced, Active
    <3> QED
      BY <2>1, <2>2, <2>4, <2>7, <3>1, <3>2, SourcesFrame DEF SourceInv, pubVars
  <2> QED
    BY <1>2, <2>5, <2>6, <2>7
    DEF Next, ResetAttempts, Assign, Unassign, Tick, vars
<1> QED
  BY <1>1, <1>2

(* The invariant of the sources. *)
LEMMA SourceInvariant ==
  ASSUME OnePublisher
  PROVE  Spec => []SourceInv
<1>1. Init => SourceInv
  <2> SUFFICES ASSUME Init PROVE SourceInv
    OBVIOUS
  <2>1. None <= minted
    BY DEF Init, PublicationInit, None
  <2> QED
    BY <2>1, SafeInitial
    DEF Init, PublicationInit, IdleRequest, IdlePublisher, SourceInv, PubSafe, SnapshotsDistinct,
        PublisherSafe, RowsSourced, RequestsSourced, RequestSourced, GradedAsDelivered
<1>2. SourceInv /\ [Next]_vars => SourceInv'
  BY SourceInductive
<1> QED
  BY <1>1, <1>2, PTL DEF Spec

(* PRD-15 block B: an attempt pinned to the snapshot that was active when it *)
(* was created is graded from the content it was dealt from, however many    *)
(* tabs, restarts and edits of the bank there are, when publications follow  *)
(* one another.                                                              *)
THEOREM GradedFromItsSource ==
  ASSUME OnePublisher
  PROVE  Spec => []GradedAsDelivered
<1>1. SourceInv => GradedAsDelivered
  BY DEF SourceInv
<1> QED
  BY <1>1, SourceInvariant, PTL

(* pruneSnapshots never deletes the snapshot that starts are served from:    *)
(* what it keeps is the latest as long as publications follow one another.   *)
THEOREM LatestSnapshotStays ==
  ASSUME OnePublisher
  PROVE  Spec => ActiveSnapshotKept
<1>1. SourceInv /\ [Next]_vars =>
        [HasSnapshot /\ status' # "deleted"
           => \E s \in snapshots' : s.version >= LatestSnapshot.version]_vars
  <2> SUFFICES ASSUME SourceInv, Next, HasSnapshot, status' # "deleted"
               PROVE  \E s \in snapshots' : s.version >= LatestSnapshot.version
    OBVIOUS
  <2>1. TypeInv /\ PubInv
    BY TypeInvParts DEF SourceInv, SafeInv
  <2>2. CASE PublicationStep \/ \E p \in Publishers : AnnulAll(p)
    <3>1. RowsOnlyGo
      BY <2>2 DEF PublicationStep, AnnulAll, RowsOnlyGo, Kept, Drop
    <3> QED
      BY <2>2, <3>1, PublicationKeepsSafe DEF TurnOver
  <2>3. CASE DeleteEverything
    BY <2>3 DEF DeleteEverything, DeleteTest
  <2>4. CASE UNCHANGED pubVars
    <3>1. LatestSnapshot \in snapshots /\ LatestSnapshot.version \in Nat
      BY <2>1, LatestIsSnapshot DEF PubInv, PublicationTypeOK, Snapshot
    <3> QED
      BY <2>4, <3>1 DEF pubVars
  <2> QED
    BY <2>2, <2>3, <2>4
    DEF Next, LearnerStep, StartReadTest, StartReadSnapshot, StartReadAssignment,
        StartReadAttempts, StartDraw, StartAnnul, StartCreate, SaveRead, SaveWrite, FinishRead,
        FinishGrade, FinishWrite, ResetAttempts, Assign, Unassign, Tick
<1> QED
  BY <1>1, SourceInvariant, PTL DEF Spec, ActiveSnapshotKept

-----------------------------------------------------------------------------
(* What a learner is dealt until the learner finishes.                      *)

(* The source a start would deal from now. *)
CurrentSource == IF status = "published" /\ HasSnapshot THEN LatestSnapshot.id ELSE None

(* Once something was dealt to a learner, a start under way reads the current *)
(* source ...                                                               *)
StartsAtSource(l) ==
  \A r \in Requests : Client[r] = l /\ dealt[l] # {} =>
    /\ req[r].pc = "start_snapshot" => status = "published"
    /\ req[r].pc \in StartPcs => req[r].snapshot = CurrentSource

(* ... and past the gates it carries what was dealt from it;                *)
StartsCarry(l) ==
  \A r \in Requests : Client[r] = l =>
    \A x \in dealt[l] :
      req[r].pc \in {"start_draw", "start_annul", "start_create"} /\ req[r].snapshot = x[1] =>
        req[r].pc # "start_draw" /\ req[r].drawn = x[2]

(* until then what was dealt from it is on the open attempt.                *)
DealtAtHand(l) ==
  \A x \in dealt[l] : x[1] = CurrentSource =>
    \/ \E i \in OpenRows(l) : attempts[i].snapshot = x[1] /\ attempts[i].drawn = x[2]
    \/ \E r \in Requests : /\ Client[r] = l /\ req[r].pc = "start_create"
                           /\ req[r].snapshot = x[1] /\ req[r].drawn = x[2]

DealtTo(l) ==
  /\ \A x \in dealt[l] : x = <<x[1], x[2]>>
  /\ \A x, y \in dealt[l] : x[1] = y[1] => x = y
  /\ StartsAtSource(l) /\ StartsCarry(l) /\ DealtAtHand(l)

(* A start that is about to read the snapshot holds none yet.               *)
NoSourceYet == \A r \in Requests : req[r].pc = "start_snapshot" => req[r].snapshot = None

DealtInv ==
  /\ OneOpenInv /\ SavedInv
  /\ NoSourceYet
  /\ \A l \in Learners : DealtTo(l)

(* What the history records. *)
LEMMA DealtAfter ==
  ASSUME HistoryNext, NEW l \in Learners
  PROVE  /\ Intervened(l) => dealt'[l] = {}
         /\ \A x \in dealt'[l] :
              x \in dealt[l] \/ \E i \in NewRows(l) : x = <<attempts'[i].snapshot, attempts'[i].drawn>>
BY DEF HistoryNext

(* Nothing changes for a learner whose attempts and requests stay.          *)
LEMMA DealtFrame ==
  ASSUME NEW l \in Learners, DealtTo(l), UNCHANGED pubVars, dealt'[l] \subseteq dealt[l],
         OpenRows(l)' = OpenRows(l), \A i \in OpenRows(l) : Kept(i),
         \A r \in Requests : Client[r] = l => req'[r] = req[r]
  PROVE  DealtTo(l)'
<1>1. CurrentSource' = CurrentSource /\ status' = status
  BY DEF CurrentSource, pubVars, HasSnapshot, LatestSnapshot
<1>2. \A i \in OpenRows(l) : attempts'[i] = attempts[i]
  BY DEF Kept
<1>3. StartsAtSource(l)'
  BY <1>1 DEF DealtTo, StartsAtSource
<1>4. StartsCarry(l)'
  BY DEF DealtTo, StartsCarry
<1>5. DealtAtHand(l)'
  <2> SUFFICES ASSUME NEW x \in dealt'[l], x[1] = CurrentSource
               PROVE  \/ \E i \in OpenRows(l) : attempts'[i].snapshot = x[1] /\ attempts'[i].drawn = x[2]
                      \/ \E r \in Requests : /\ Client[r] = l /\ req'[r].pc = "start_create"
                                             /\ req'[r].snapshot = x[1] /\ req'[r].drawn = x[2]
    BY <1>1 DEF DealtAtHand
  <2> QED
    BY <1>2 DEF DealtTo, DealtAtHand
<1> QED
  BY <1>3, <1>4, <1>5 DEF DealtTo

(* The reads of a start change nothing but its request. *)
StartReads(r) == StartReadTest(r) \/ StartReadSnapshot(r) \/ StartReadAssignment(r)

(* ... and find the current source once something was dealt. *)
LEMMA StartReadsAtSource ==
  ASSUME NEW r \in Requests, StartReads(r), req \in [Requests -> Request],
         NoSourceYet, StartsAtSource(Client[r]), dealt[Client[r]] # {}
  PROVE  /\ req'[r].pc = "start_snapshot" => status = "published"
         /\ req'[r].pc \in StartPcs => req'[r].snapshot = CurrentSource
<1>1. CASE StartReadTest(r)
  <2>1. /\ req'[r].snapshot = None
        /\ req'[r].pc = IF status = "published" THEN "start_snapshot" ELSE "start_assignment"
    BY <1>1 DEF StartReadTest, Goto, IdleRequest
  <2> QED
    BY <2>1 DEF StartPcs, CurrentSource
<1>2. CASE StartReadSnapshot(r)
  <2>1. status = "published" /\ req[r].snapshot = None
    BY <1>2 DEF StartReadSnapshot, StartsAtSource, NoSourceYet
  <2>2. CASE HasSnapshot
    <3>1. req'[r].pc = "start_assignment" /\ req'[r].snapshot = LatestSnapshot.id
      <4> DEFINE latest == LatestSnapshot
      <4>1. Goto(r, [req[r] EXCEPT !.pc = "start_assignment", !.snapshot = latest.id,
                                   !.content = latest.content])
        BY <1>2, <2>2 DEF StartReadSnapshot
      <4> HIDE DEF latest
      <4>2. req'[r].pc = "start_assignment" /\ req'[r].snapshot = latest.id
        BY <4>1 DEF Goto, Request
      <4> QED
        BY <4>2 DEF latest
    <3> QED
      BY <2>1, <2>2, <3>1 DEF CurrentSource
  <2>3. CASE ~HasSnapshot
    <3>1. req'[r].pc = "start_assignment" /\ req'[r].snapshot = req[r].snapshot
      BY <1>2, <2>3 DEF StartReadSnapshot, Goto, Request
    <3> QED
      BY <2>1, <2>3, <3>1 DEF CurrentSource
  <2> QED
    BY <2>2, <2>3
<1>3. CASE StartReadAssignment(r)
  <2>1. req'[r].pc = "start_attempts" /\ req'[r].snapshot = req[r].snapshot
    BY <1>3 DEF StartReadAssignment, Goto, Request
  <2>2. req[r].snapshot = CurrentSource
    BY <1>3 DEF StartReadAssignment, StartsAtSource, StartPcs
  <2> QED
    BY <2>1, <2>2
<1> QED
  BY <1>1, <1>2, <1>3 DEF StartReads

(* A start that has not reached the gate. *)
LEMMA StartReadsPc ==
  ASSUME NEW r \in Requests, StartReads(r), req \in [Requests -> Request]
  PROVE  /\ req'[r].pc \in {"start_snapshot", "start_assignment", "start_attempts"}
         /\ UNCHANGED <<pubVars, attempts>>
         /\ req[r].pc # "start_create"
         /\ NoSourceYet => (req'[r].pc = "start_snapshot" => req'[r].snapshot = None)
<1>1. CASE StartReadTest(r)
  BY <1>1 DEF StartReadTest, Goto, IdleRequest
<1>2. CASE StartReadSnapshot(r) /\ HasSnapshot
  BY <1>2 DEF StartReadSnapshot, Goto, Request
<1>3. CASE StartReadSnapshot(r) /\ ~HasSnapshot
  BY <1>3 DEF StartReadSnapshot, Goto, Request
<1>4. CASE StartReadAssignment(r)
  BY <1>4 DEF StartReadAssignment, Goto, Request
<1> QED
  BY <1>1, <1>2, <1>3, <1>4 DEF StartReads

(* Past the reads: what the gate hands on.                                  *)
LEMMA StartCarriesOver ==
  ASSUME NEW r \in Requests, StartReadAttempts(r), req \in [Requests -> Request],
         req'[r].pc \in {"start_draw", "start_annul", "start_create"}
  PROVE  LET newest == attempts[NewestOpen(Client[r])]
         IN  /\ req'[r].snapshot = req[r].snapshot
             /\ IF OpenRows(Client[r]) # {} /\ newest.snapshot = req[r].snapshot
                THEN req'[r].pc = "start_annul" /\ req'[r].drawn = newest.drawn
                ELSE req'[r].pc = "start_draw"
<1>1. CASE Done(r)
  BY <1>1 DEF Done, IdleRequest
<1>2. CASE ~Done(r)
  <2> DEFINE
        reopen  == OpenRows(Client[r]) # {}
        newest  == attempts[NewestOpen(Client[r])]
        carried == reopen /\ newest.snapshot = req[r].snapshot
        q == [req[r] EXCEPT
                !.pc      = IF carried THEN "start_annul" ELSE "start_draw",
                !.reopen  = reopen,
                !.drawn   = IF carried THEN newest.drawn ELSE Null,
                !.content = IF carried THEN newest.content ELSE @]
  <2>1. Goto(r, q)
    BY <1>2 DEF StartReadAttempts
  <2>2. /\ q.snapshot = req[r].snapshot
        /\ q.pc = (IF carried THEN "start_annul" ELSE "start_draw")
        /\ q.drawn = (IF carried THEN newest.drawn ELSE Null)
    <3> HIDE DEF reopen, newest, carried
    <3> QED
      BY DEF Request
  <2>3. req'[r] = q
    <3> HIDE DEF q
    <3> QED
      BY <2>1 DEF Goto
  <2> QED
    BY <2>2, <2>3
<1> QED
  BY <1>1, <1>2

(* A start the gate does not send away goes on to the draw or the annulment. *)
LEMMA StartGated ==
  ASSUME NEW r \in Requests, StartReadAttempts(r), req \in [Requests -> Request], ~Done(r)
  PROVE  req'[r].pc \in {"start_draw", "start_annul", "start_create"}
<1> DEFINE
      reopen  == OpenRows(Client[r]) # {}
      newest  == attempts[NewestOpen(Client[r])]
      carried == reopen /\ newest.snapshot = req[r].snapshot
      q == [req[r] EXCEPT
              !.pc      = IF carried THEN "start_annul" ELSE "start_draw",
              !.reopen  = reopen,
              !.drawn   = IF carried THEN newest.drawn ELSE Null,
              !.content = IF carried THEN newest.content ELSE @]
<1>1. Goto(r, q)
  BY DEF StartReadAttempts
<1>2. q.pc \in {"start_draw", "start_annul"}
  <2> HIDE DEF reopen, newest, carried
  <2> QED
    BY DEF Request
<1> HIDE DEF q
<1> QED
  BY <1>1, <1>2 DEF Goto

(* A learner with one open attempt has no other to pick. *)
LEMMA NewestIsTheOnlyOne ==
  ASSUME AtMostOneOpen, NEW l \in Learners, NEW i \in OpenRows(l)
  PROVE  NewestOpen(l) = i
BY NewestIsOpen DEF AtMostOneOpen

(* A start of learner l, in the steps that leave the attempts alone. *)
LEMMA StartKeepsDealt ==
  ASSUME OneTabEach, OneOpenInv, NoSourceYet, NEW r \in Requests, DealtTo(Client[r]),
         StartReads(r) \/ StartReadAttempts(r) \/ StartDraw(r),
         dealt'[Client[r]] \subseteq dealt[Client[r]]
  PROVE  DealtTo(Client[r])'
<1> DEFINE l == Client[r]
<1>1. /\ req \in [Requests -> Request] /\ req[r] \in Request /\ l \in Learners
      /\ \A x \in Requests : Client[x] = l => x = r
  BY TypeInvParts, LifecycleAssumption DEF OneOpenInv, SafeInv, ReqInv, OneTabEach
<1>2. /\ UNCHANGED <<pubVars, attempts>>
      /\ req[r].pc # "start_create"
  BY <1>1, StartReadsPc DEF StartReadAttempts, StartDraw
<1>3. /\ CurrentSource' = CurrentSource /\ status' = status
      /\ OpenRows(l)' = OpenRows(l)
  BY <1>2 DEF CurrentSource, pubVars, HasSnapshot, LatestSnapshot, OpenRows, RowsOf
<1>4. ASSUME NEW x \in dealt[l], x[1] = CurrentSource
      PROVE  \E i \in OpenRows(l) : attempts[i].snapshot = x[1] /\ attempts[i].drawn = x[2]
  BY <1>1, <1>2, <1>4 DEF DealtTo, DealtAtHand
<1>5. DealtAtHand(l)'
  BY <1>2, <1>3, <1>4 DEF DealtAtHand
<1>6. StartsAtSource(l)' /\ StartsCarry(l)'
  <2>1. CASE StartReads(r)
    <3>1. StartsAtSource(l)'
      <4> SUFFICES ASSUME dealt[l] # {}
                   PROVE  /\ req'[r].pc = "start_snapshot" => status = "published"
                          /\ req'[r].pc \in StartPcs => req'[r].snapshot = CurrentSource
        BY <1>1, <1>3 DEF StartsAtSource
      <4> QED
        BY <1>1, <2>1, StartReadsAtSource DEF DealtTo
    <3>2. req'[r].pc \notin {"start_draw", "start_annul", "start_create"}
      BY <1>1, <2>1, StartReadsPc
    <3> QED
      BY <1>1, <3>1, <3>2 DEF StartsCarry
  <2>2. CASE StartReadAttempts(r)
    <3>1. CASE Done(r)
      <4>1. req'[r].pc = "idle"
        BY <1>1, <3>1 DEF Done, IdleRequest
      <4> QED
        BY <1>1, <4>1 DEF StartsAtSource, StartsCarry, StartPcs
    <3>2. CASE ~Done(r)
      <4>1. req'[r].pc \in {"start_draw", "start_annul", "start_create"}
        BY <1>1, <2>2, <3>2, StartGated
      <4>2. req'[r].snapshot = req[r].snapshot /\ req[r].pc \in StartPcs
        BY <1>1, <2>2, <4>1, StartCarriesOver DEF StartReadAttempts, StartPcs
      <4>3. StartsAtSource(l)'
        BY <1>1, <1>3, <4>1, <4>2 DEF DealtTo, StartsAtSource, StartPcs
      <4>4. ASSUME NEW x \in dealt[l], req[r].snapshot = x[1]
            PROVE  req'[r].pc # "start_draw" /\ req'[r].drawn = x[2]
        <5>1. x[1] = CurrentSource
          BY <1>1, <4>2, <4>4 DEF DealtTo, StartsAtSource
        <5>2. PICK i \in OpenRows(l) : attempts[i].snapshot = x[1] /\ attempts[i].drawn = x[2]
          BY <1>4, <5>1
        <5>3. NewestOpen(l) = i
          BY <1>1, NewestIsTheOnlyOne DEF OneOpenInv
        <5> QED
          BY <1>1, <2>2, <4>1, <4>4, <5>2, <5>3, StartCarriesOver
      <4>5. StartsCarry(l)'
        BY <1>1, <4>2, <4>4 DEF StartsCarry
      <4> QED
        BY <4>3, <4>5
    <3> QED
      BY <3>1, <3>2
  <2>3. CASE StartDraw(r)
    <3>1. PICK d \in Draws :
            Goto(r, [req[r] EXCEPT
                       !.pc      = IF req[r].reopen THEN "start_annul" ELSE "start_create",
                       !.drawn   = d,
                       !.content = IF req[r].snapshot = None THEN bank ELSE @])
      BY <2>3 DEF StartDraw
    <3>2. req'[r].snapshot = req[r].snapshot /\ req[r].pc = "start_draw"
      BY <1>1, <2>3, <3>1 DEF StartDraw, Goto, Request
    <3>3. req'[r].pc \in {"start_annul", "start_create"}
      BY <1>1, <3>1 DEF Goto, Request
    <3>4. \A x \in dealt[l] : req[r].snapshot # x[1]
      BY <3>2 DEF DealtTo, StartsCarry
    <3>5. StartsCarry(l)'
      BY <1>1, <3>2, <3>4 DEF StartsCarry
    <3>6. StartsAtSource(l)'
      BY <1>1, <1>3, <3>2, <3>3 DEF DealtTo, StartsAtSource, StartPcs
    <3> QED
      BY <3>5, <3>6
  <2> QED
    BY <2>1, <2>2, <2>3
<1> QED
  BY <1>5, <1>6 DEF DealtTo

(* Nothing dealt, nothing to keep. *)
LEMMA NothingDealt ==
  ASSUME NEW l \in Learners, dealt'[l] = {}
  PROVE  DealtTo(l)'
BY DEF DealtTo, StartsAtSource, StartsCarry, DealtAtHand

(* A start that annuls takes what was dealt along with it. *)
LEMMA AnnulKeepsDealt ==
  ASSUME OneTabEach, OneOpenInv, NEW r \in Requests, DealtTo(Client[r]), StartAnnul(r),
         dealt'[Client[r]] \subseteq dealt[Client[r]]
  PROVE  DealtTo(Client[r])'
<1> DEFINE l == Client[r]
<1>1. /\ req \in [Requests -> Request] /\ req[r] \in Request /\ l \in Learners
      /\ \A x \in Requests : Client[x] = l => x = r
  BY TypeInvParts, LifecycleAssumption DEF OneOpenInv, SafeInv, ReqInv, OneTabEach
<1>2. /\ req[r].pc = "start_annul" /\ req'[r].pc = "start_create"
      /\ req'[r].snapshot = req[r].snapshot /\ req'[r].drawn = req[r].drawn
  BY <1>1 DEF StartAnnul, Goto, Request
<1>3. CurrentSource' = CurrentSource
  BY DEF StartAnnul, CurrentSource, pubVars, HasSnapshot, LatestSnapshot
<1>4. StartsAtSource(l)'
  BY <1>1, <1>2, <1>3 DEF DealtTo, StartsAtSource, StartPcs
<1>5. StartsCarry(l)'
  BY <1>1, <1>2 DEF DealtTo, StartsCarry
<1>6. DealtAtHand(l)'
  <2> SUFFICES ASSUME NEW x \in dealt'[l], x[1] = CurrentSource
               PROVE  req'[r].snapshot = x[1] /\ req'[r].drawn = x[2]
    BY <1>1, <1>2, <1>3 DEF DealtAtHand
  <2>1. req[r].snapshot = x[1]
    BY <1>2 DEF DealtTo, StartsAtSource, StartPcs
  <2> QED
    BY <1>2, <2>1 DEF DealtTo, StartsCarry
<1> QED
  BY <1>4, <1>5, <1>6 DEF DealtTo

(* A start that creates the attempt deals what it carries. *)
LEMMA CreateKeepsDealt ==
  ASSUME OneTabEach, OneOpenInv, NEW r \in Requests, DealtTo(Client[r]), StartCreate(r),
         \A x \in dealt'[Client[r]] :
           x \in dealt[Client[r]] \/
           \E i \in NewRows(Client[r]) : x = <<attempts'[i].snapshot, attempts'[i].drawn>>
  PROVE  DealtTo(Client[r])'
<1> DEFINE l == Client[r]
           i == created + 1
<1>1. /\ req \in [Requests -> Request] /\ req[r] \in Request /\ l \in Learners
      /\ \A x \in Requests : Client[x] = l => x = r
      /\ TypeInv /\ i \in RowIds /\ attempts[i] = Null
  <2>1. TypeInv /\ SafeInv
    BY DEF OneOpenInv, SafeInv
  <2>2. i \in RowIds /\ i > created
    BY <2>1, TypeInvParts, LifecycleAssumption DEF StartCreate, RowIds
  <2> QED
    BY <2>1, <2>2, TypeInvParts, LifecycleAssumption DEF ReqInv, OneTabEach, SafeInv, NoRowYet
<1>2. req[r].pc = "start_create" /\ req'[r].pc = "idle"
  BY <1>1 DEF StartCreate, Done, IdleRequest
<1>3. \A j \in RowIds : j # i => Kept(j)
  BY <1>1, RowCreated
<1>4. /\ attempts'[i] # Null /\ attempts'[i].owner = l
      /\ attempts'[i].snapshot = req[r].snapshot /\ attempts'[i].drawn = req[r].drawn
      /\ attempts'[i].finishedAt = Null
  BY <1>1, RowCreated
<1>5. attempts'[i] # Null /\ i \in OpenRows(l)'
  BY <1>1, <1>4, LifecycleAssumption DEF OpenRows, RowsOf
<1>6. \A j \in NewRows(l) : j = i
  BY <1>3 DEF NewRows, Kept
<1> HIDE DEF i
<1>7. \A x \in dealt'[l] : x \in dealt[l] \/ x = <<req[r].snapshot, req[r].drawn>>
  BY <1>4, <1>6
<1>8. \A x \in dealt[l] : x[1] = req[r].snapshot => x = <<req[r].snapshot, req[r].drawn>>
  BY <1>2 DEF DealtTo, StartsCarry
<1>9. CurrentSource' = CurrentSource
  BY DEF StartCreate, CurrentSource, pubVars, HasSnapshot, LatestSnapshot
<1>10. DealtAtHand(l)'
  <2> SUFFICES ASSUME NEW x \in dealt'[l], x[1] = CurrentSource
               PROVE  attempts'[i].snapshot = x[1] /\ attempts'[i].drawn = x[2]
    BY <1>5, <1>9 DEF DealtAtHand
  <2>1. CASE x = <<req[r].snapshot, req[r].drawn>>
    BY <1>4, <2>1
  <2>2. CASE x \in dealt[l]
    <3>1. req[r].snapshot = x[1]
      BY <1>2, <2>2 DEF DealtTo, StartsAtSource, StartPcs
    <3> QED
      BY <1>4, <1>8, <2>2, <3>1
  <2> QED
    BY <1>7, <2>1, <2>2
<1>11. StartsAtSource(l)' /\ StartsCarry(l)'
  BY <1>1, <1>2 DEF StartsAtSource, StartsCarry, StartPcs
<1>12. \A x, y \in dealt'[l] : x[1] = y[1] => x = y
  BY <1>7, <1>8 DEF DealtTo
<1>13. \A x \in dealt'[l] : x = <<x[1], x[2]>>
  BY <1>7 DEF DealtTo
<1> QED
  BY <1>10, <1>11, <1>12, <1>13 DEF DealtTo

(* A save keeps the questions on the open attempt; finishing it starts anew. *)
LEMMA WriteKeepsDealt ==
  ASSUME OneTabEach, OneOpenInv, SavedInv, NEW r \in Requests, DealtTo(Client[r]),
         \/ SaveRead(r) \/ FinishRead(r) \/ FinishGrade(r)
         \/ SaveWrite(r) \/ FinishWrite(r),
         ~ Intervened(Client[r]),
         dealt'[Client[r]] \subseteq dealt[Client[r]]
  PROVE  DealtTo(Client[r])'
<1> DEFINE l == Client[r]
<1>1. /\ req \in [Requests -> Request] /\ req[r] \in Request /\ l \in Learners
      /\ TypeInv
      /\ \A x \in Requests : Client[x] = l => x = r
  BY TypeInvParts, LifecycleAssumption DEF OneOpenInv, SafeInv, ReqInv, OneTabEach
<1>2. req[r].pc # "start_create" /\ UNCHANGED pubVars
  BY DEF SaveRead, FinishRead, FinishGrade, SaveWrite, FinishWrite
<1>3. req'[r].pc \in {"idle", "save_write", "finish_grade", "finish_write"}
  <2>1. CASE SaveRead(r) \/ FinishRead(r)
    BY <1>1, <2>1 DEF SaveRead, FinishRead, Goto, IdleRequest
  <2>2. CASE SaveWrite(r) \/ FinishWrite(r)
    BY <1>1, <2>2 DEF SaveWrite, FinishWrite, Done, IdleRequest
  <2>3. CASE FinishGrade(r)
    <3>1. CASE Done(r)
      BY <1>1, <3>1 DEF Done, IdleRequest
    <3>2. CASE ~Done(r)
      <4>1. PICK c : Goto(r, [req[r] EXCEPT !.pc = "finish_write", !.content = c])
        BY <2>3, <3>2 DEF FinishGrade
      <4> QED
        BY <1>1, <4>1 DEF Goto, Request
    <3> QED
      BY <3>1, <3>2
  <2> QED
    BY <2>1, <2>2, <2>3
<1>4. CurrentSource' = CurrentSource
  BY <1>2 DEF CurrentSource, pubVars, HasSnapshot, LatestSnapshot
<1>5. ASSUME NEW i \in OpenRows(l)
      PROVE  /\ i \in OpenRows(l)'
             /\ attempts'[i].snapshot = attempts[i].snapshot
             /\ attempts'[i].drawn = attempts[i].drawn
  <2>1. i \in RowIds /\ attempts[i] # Null /\ attempts[i].owner = l /\ attempts[i].finishedAt = Null
    BY DEF OpenRows, RowsOf
  <2>2. CASE Kept(i)
    BY <2>1, <2>2 DEF Kept, OpenRows, RowsOf
  <2>3. CASE ~Kept(i)
    <3>1. Written(r, i)
      BY <1>1, <2>1, <2>3, RowWritten DEF LearnerStep
    <3>2. CASE FinishWrite(r)
      <4>1. attempts[i].result = Null
        BY <2>1 DEF SavedInv, OpenUngraded
      <4>2. attempts'[i] \in Row /\ attempts'[i].finishedAt = clock
        BY <3>1, <3>2 DEF Written, StartAnnul, StartCreate, SaveWrite, FinishWrite
      <4>3. attempts'[i] # Null /\ attempts'[i].result # Null
        <5>1. attempts'[i] = [attempts[i] EXCEPT !.answers = req[r].answers,
                                !.result = [content |-> req[r].content, answers |-> req[r].answers],
                                !.finishedAt = clock]
          BY <1>1, <2>1, <2>3, <3>2, TypeInvParts DEF FinishWrite, Kept
        <5>2. attempts[i] \in Row /\ attempts'[i] # Null
          BY <1>1, <2>1, <4>2, TypeInvParts, LifecycleAssumption
        <5>3. RequestReady(req[r])
          BY <1>1 DEF TypeInv
        <5>4. [content |-> req[r].content, answers |-> req[r].answers] \in Result
          BY <1>1, <3>2, <5>3 DEF FinishWrite, RequestReady, Answered, Result
        <5>5. attempts'[i].result = [content |-> req[r].content, answers |-> req[r].answers]
          BY <5>1, <5>2 DEF Row
        <5> QED
          BY <5>2, <5>4, <5>5, LifecycleAssumption
      <4> QED
        BY <2>1, <4>1, <4>3 DEF Intervened, RowsOf
    <3>3. CASE SaveWrite(r)
      <4>1. /\ i = req[r].row /\ SameBut(attempts[i], attempts'[i], {"answers", "drawn"})
            /\ attempts'[i] \in Row /\ attempts'[i].drawn = req[r].drawn
            /\ req[r].pc = "save_write"
        BY <3>1, <3>3 DEF Written, StartAnnul, StartCreate, SaveWrite, FinishWrite
      <4>2. attempts[i].drawn = req[r].drawn
        BY <2>1, <4>1 DEF SavedInv, SavesOpen
      <4>3. attempts'[i] # Null
        BY <4>1, LifecycleAssumption
      <4> QED
        BY <2>1, <4>1, <4>2, <4>3 DEF SameBut, OpenRows, RowsOf
    <3> QED
      BY <2>3, <3>2, <3>3 DEF SaveRead, FinishRead, FinishGrade, Kept
  <2> QED
    BY <2>2, <2>3
<1>6. DealtAtHand(l)'
  <2> SUFFICES ASSUME NEW x \in dealt'[l], x[1] = CurrentSource
               PROVE  \E i \in OpenRows(l)' : attempts'[i].snapshot = x[1] /\ attempts'[i].drawn = x[2]
    BY <1>4 DEF DealtAtHand
  <2>1. PICK i \in OpenRows(l) : attempts[i].snapshot = x[1] /\ attempts[i].drawn = x[2]
    BY <1>1, <1>2 DEF DealtTo, DealtAtHand
  <2> QED
    BY <1>5, <2>1
<1>7. StartsAtSource(l)' /\ StartsCarry(l)'
  BY <1>1, <1>3 DEF StartsAtSource, StartsCarry, StartPcs
<1> QED
  BY <1>6, <1>7 DEF DealtTo

(* A step of a learner's own request. *)
LEMMA OwnStepKeepsDealt ==
  ASSUME OneTabEach, DealtInv, HistoryNext, NEW r \in Requests, LearnerStep(r)
  PROVE  DealtTo(Client[r])'
<1> DEFINE l == Client[r]
<1>1. TypeInv /\ SafeInv /\ l \in Learners /\ DealtTo(l)
  BY LifecycleAssumption DEF DealtInv, OneOpenInv, SafeInv
<1>2. CASE Intervened(l)
  BY <1>1, <1>2, DealtAfter, NothingDealt
<1>3. CASE ~Intervened(l)
  <2>1. ASSUME NEW i \in NewRows(l) PROVE StartCreate(r)
    <3>1. i \in RowIds /\ attempts[i] = Null /\ attempts'[i] # Null
      BY DEF NewRows
    <3>2. Written(r, i)
      BY <1>1, <3>1, RowWritten DEF Kept
    <3> QED
      BY <3>1, <3>2, LifecycleAssumption DEF Written
  <2>2. CASE StartCreate(r)
    BY <1>1, <2>2, DealtAfter, CreateKeepsDealt DEF DealtInv
  <2>3. CASE ~StartCreate(r)
    <3>1. dealt'[l] \subseteq dealt[l]
      BY <1>1, <2>1, <2>3, DealtAfter
    <3>2. CASE StartAnnul(r)
      BY <1>1, <3>1, <3>2, AnnulKeepsDealt DEF DealtInv
    <3>3. CASE StartReads(r) \/ StartReadAttempts(r) \/ StartDraw(r)
      BY <1>1, <3>1, <3>3, StartKeepsDealt DEF DealtInv
    <3>4. CASE \/ SaveRead(r) \/ FinishRead(r) \/ FinishGrade(r)
               \/ SaveWrite(r) \/ FinishWrite(r)
      BY <1>1, <1>3, <3>1, <3>4, WriteKeepsDealt DEF DealtInv
    <3> QED
      BY <2>3, <3>2, <3>3, <3>4 DEF LearnerStep, StartReads
  <2> QED
    BY <2>2, <2>3
<1> QED
  BY <1>2, <1>3

(* A step of somebody else. *)
LEMMA OthersStepKeepsDealt ==
  ASSUME DealtInv, HistoryNext, NEW l \in Learners,
         \A r \in Requests : LearnerStep(r) => Client[r] # l
  PROVE  DealtTo(l)'
<1>1. TypeInv /\ SafeInv /\ DealtTo(l)
  BY DEF DealtInv, OneOpenInv, SafeInv
<1>2. CASE Intervened(l)
  BY <1>2, DealtAfter, NothingDealt
<1>3. CASE ~Intervened(l)
  <2>1. UNCHANGED pubVars
    BY <1>3 DEF Intervened
  <2>2. /\ RowsOf(l)' = RowsOf(l) /\ \A i \in RowsOf(l) : Kept(i)
        /\ \A x \in Requests : Client[x] = l => req'[x] = req[x]
    <3>1. ASSUME NEW r \in Requests, LearnerStep(r)
          PROVE  /\ RowsOf(l)' = RowsOf(l) /\ \A i \in RowsOf(l) : Kept(i)
                 /\ \A x \in Requests : Client[x] = l => req'[x] = req[x]
      <4>1. Client[r] # l
        BY <3>1
      <4> QED
        BY <1>1, <3>1, <4>1, OtherLearnersRows, RowChosen
    <3>2. ASSUME ~ \E r \in Requests : LearnerStep(r)
          PROVE  /\ RowsOf(l)' = RowsOf(l) /\ \A i \in RowsOf(l) : Kept(i)
                 /\ \A x \in Requests : Client[x] = l => req'[x] = req[x]
      <4>1. UNCHANGED req /\ \A i \in RowIds : Kept(i) \/ attempts'[i] = Null
        BY <1>1, <3>2, OthersOnlyDrop DEF HistoryNext
      <4>2. \A i \in RowsOf(l) : Kept(i)
        BY <1>3, <4>1 DEF Intervened, RowsOf
      <4>3. \A i \in RowIds : i \in RowsOf(l)' <=> i \in RowsOf(l)
        BY <4>1, <4>2 DEF RowsOf, Kept
      <4> QED
        BY <4>1, <4>2, <4>3 DEF RowsOf
    <3> QED
      BY <3>1, <3>2
  <2>3. OpenRows(l)' = OpenRows(l) /\ \A i \in OpenRows(l) : Kept(i)
    BY <2>2 DEF OpenRows, Kept
  <2>4. NewRows(l) = {}
    BY <2>2 DEF NewRows, RowsOf
  <2>5. dealt'[l] \subseteq dealt[l]
    BY <2>4, DealtAfter
  <2> QED
    BY <1>1, <2>1, <2>2, <2>3, <2>5, DealtFrame
<1> QED
  BY <1>2, <1>3

(* A start reads its source once. *)
LEMMA NoSourceYetKept ==
  ASSUME SafeInv, NoSourceYet, [Next]_vars
  PROVE  NoSourceYet'
<1>1. req \in [Requests -> Request] /\ TypeInv
  BY TypeInvParts DEF SafeInv, ReqInv
<1>2. ASSUME NEW r \in Requests, LearnerStep(r), req'[r].pc = "start_snapshot"
      PROVE  req'[r].snapshot = None
  <2>1. CASE StartReads(r)
    BY <1>1, <1>2, <2>1, StartReadsPc
  <2>2. CASE ~StartReads(r)
    <3>1. CASE Done(r)
      BY <1>1, <1>2, <3>1 DEF Done, IdleRequest
    <3>2. CASE StartReadAttempts(r) /\ ~Done(r)
      BY <1>1, <1>2, <3>2, StartGated
    <3>3. CASE StartDraw(r)
      <4>1. req'[r].pc \in {"start_annul", "start_create"}
        BY <1>1, <3>3 DEF StartDraw, Goto, Request
      <4> QED
        BY <1>2, <4>1
    <3>4. CASE StartAnnul(r)
      BY <1>1, <1>2, <3>4 DEF StartAnnul, Goto, Request
    <3>5. CASE SaveRead(r) \/ FinishRead(r)
      <4>1. req'[r].pc \in {"save_write", "finish_grade"}
        BY <1>1, <3>5 DEF SaveRead, FinishRead, Goto, IdleRequest
      <4> QED
        BY <1>2, <4>1
    <3>6. CASE FinishGrade(r) /\ ~Done(r)
      <4>1. PICK c : Goto(r, [req[r] EXCEPT !.pc = "finish_write", !.content = c])
        BY <3>6 DEF FinishGrade
      <4> QED
        BY <1>1, <1>2, <4>1 DEF Goto, Request
    <3> QED
      BY <1>2, <2>2, <3>1, <3>2, <3>3, <3>4, <3>5, <3>6
      DEF LearnerStep, StartReads, StartCreate, SaveWrite, FinishWrite
  <2> QED
    BY <2>1, <2>2
<1>3. ASSUME NEW r \in Requests, LearnerStep(r) PROVE NoSourceYet'
  <2>1. \A x \in Requests \ {r} : req'[x] = req[x]
    BY <1>3, RowChosen
  <2> QED
    BY <1>2, <1>3, <2>1 DEF NoSourceYet
<1>4. CASE ~ \E r \in Requests : LearnerStep(r)
  BY <1>1, <1>4, OthersOnlyDrop DEF NoSourceYet
<1> QED
  BY <1>3, <1>4

(* The invariant is kept when no two requests are of one learner. *)
LEMMA DealtInductive ==
  ASSUME OneTabEach, DealtInv, [HistoryNext]_historyVars
  PROVE  DealtInv'
<1>1. [Next]_vars
  BY DEF HistoryNext, historyVars
<1>2. OneOpenInv' /\ SavedInv' /\ NoSourceYet'
  BY <1>1, OneOpenInductive, SavedInductive, NoSourceYetKept
  DEF OneTabEach, DealtInv, OneOpenInv
<1>3. ASSUME NEW l \in Learners PROVE DealtTo(l)'
  <2>1. CASE UNCHANGED historyVars
    <3>1. UNCHANGED <<pubVars, attempts, req, dealt>>
      BY <2>1 DEF historyVars, vars, learnerVars
    <3>2. OpenRows(l)' = OpenRows(l) /\ \A i \in OpenRows(l) : Kept(i)
      BY <3>1 DEF OpenRows, RowsOf, Kept
    <3> QED
      BY <3>1, <3>2, DealtFrame DEF DealtInv
  <2>2. CASE HistoryNext
    BY <2>2, OwnStepKeepsDealt, OthersStepKeepsDealt
  <2> QED
    BY <2>1, <2>2
<1> QED
  BY <1>2, <1>3 DEF DealtInv

(* carryOverVariant: while the author and the administrator do nothing, a    *)
(* learner who sends one request at a time has to finish an attempt to see   *)
(* other questions of the same source, however often the learner restarts    *)
(* and whatever is saved in between.                                         *)
THEOREM OneDrawEach ==
  ASSUME OneTabEach
  PROVE  HistorySpec => []OneDrawUntilFinished
<1>1. HistoryInit => DealtInv
  <2> SUFFICES ASSUME HistoryInit PROVE DealtInv
    OBVIOUS
  <2>1. OneOpenInv /\ SavedInv
    BY OneOpenInitial, SavedInitial DEF HistoryInit
  <2>2. NoSourceYet
    BY DEF HistoryInit, Init, NoSourceYet, IdleRequest
  <2>3. \A l \in Learners : dealt[l] = {}
    BY DEF HistoryInit
  <2> QED
    BY <2>1, <2>2, <2>3 DEF DealtInv, DealtTo, StartsAtSource, StartsCarry, DealtAtHand
<1>2. DealtInv /\ [HistoryNext]_historyVars => DealtInv'
  BY DealtInductive
<1>3. DealtInv => OneDrawUntilFinished
  BY DEF DealtInv, DealtTo, OneDrawUntilFinished
<1> QED
  BY <1>1, <1>2, <1>3, PTL DEF HistorySpec

=============================================================================
