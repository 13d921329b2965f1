--------------------------- MODULE DeliveryProofs ----------------------------
(***************************************************************************)
(* Proofs about BankGuard and Delivery, for any bank, any tests and any    *)
(* number of requests, writes and starts.  Which pool was judged and which  *)
(* one is used; what one question more does to the draw of a stratum; what  *)
(* the recursive functions of Draw make of a sequence; how a stream lies    *)
(* over its sections; what a draw takes, and that the check simulates it;   *)
(* the variants a learner is given; what a learner's rows hold.             *)
(***************************************************************************)
EXTENDS Delivery, FiniteSetTheorems, NaturalsInduction, WellFoundedInduction,
        SequenceTheorems, TLAPS

-----------------------------------------------------------------------------
(* The inductive invariant: the shape of a request, and what a request that *)
(* nobody disturbed knows of the bank and the test.                         *)

Reads == {PoolOf(b, topic) : b \in [Ids -> Row], topic \in Topics}

Request ==
  [pc : Steps, change : Changes, from : Topics \cup {Gone}, pool : Reads \cup {{}}, force : BOOLEAN,
   test : TestType, checked : Nat, pools : Seq(Reads), touched : BOOLEAN]

Saved(x) == \E t \in Tests : x.test.sections = t.sections

(* Only a removal is of several questions.                                  *)
Single(c) == c.to = Gone \/ \E i \in Ids : c.ids = {i}

Shape(x) ==
  /\ x \in Request
  /\ x.pc \in {"decide", "write"} => x.from \in Topics /\ Single(x.change)
  /\ x.pc \in {"check", "patch", "sections", "pools", "insert"} => Saved(x)
  /\ x.pc \in {"check", "patch", "sections"} => x.pools = <<>>
  /\ x.pc = "check" => x.checked < Len(x.test.sections)
  /\ x.pc = "pools" => Len(x.pools) < Len(x.test.sections)
  /\ x.pc = "insert" => Len(x.pools) = Len(x.test.sections)

StillThere(x) == \A i \in x.change.ids : bank[i].topic = x.from

Allowed(x) ==
  status = "published" /\ ~x.force =>
    \A s \in ToSet(test.sections) :
      s.topic = x.from => Feasible(PoolOf(applied(bank, x.change), x.from), s)

SectionFeasible(s) == Feasible(PoolOf(bank, s.topic), s)

(* By the step of the request.                                              *)
Fresh(x) ==
  /\ x.pc = "decide" => StillThere(x) /\ x.pool = PoolOf(applied(bank, x.change), x.from)
  /\ x.pc = "write" => StillThere(x) /\ Allowed(x)
  /\ x.pc = "check" => x.test = test /\ \A i \in 1 .. x.checked : SectionFeasible(test.sections[i])
  /\ x.pc \in {"patch", "sections", "pools", "insert"} =>
       x.test = test /\ \A s \in ToSet(test.sections) : SectionFeasible(s)
  /\ x.pc \in {"pools", "insert"} =>
       \A i \in 1 .. Len(x.pools) : x.pools[i] = PoolOf(bank, x.test.sections[i].topic)

Good(x) == Shape(x) /\ (~x.touched => Fresh(x))

TypeInv ==
  /\ bank \in [Ids -> Row] /\ test \in Tests /\ status \in {"draft", "published"}
  /\ writes \in 0 .. MaxWrites
  /\ frozen # NoSnapshot => frozen.id \in 1 .. MaxFreezes /\ Saved(frozen)
  /\ frozen.id \in 0 .. MaxFreezes

Inv ==
  /\ TypeInv
  /\ CheckedSnapshot
  /\ DOMAIN req = Slots /\ \A r \in Slots : Good(req[r])

-----------------------------------------------------------------------------
(* Lemmas.                                                                  *)

LEMMA SectionsTyped ==
  ASSUME NEW t \in TestType, NEW s \in ToSet(t.sections)
  PROVE  s \in SectionType /\ s.topic \in Topics
<1>1. t.sections \in Seq(SectionType)
  BY DEF TestType
<1>2. PICK i \in DOMAIN t.sections : s = t.sections[i]
  BY DEF ToSet
<1>3. s \in SectionType
  BY <1>1, <1>2
<1> QED
  BY <1>3 DEF SectionType

LEMMA Bounds == MaxWrites \in Nat /\ MaxFreezes \in Nat /\ Gone \notin Topics
BY BankGuardAssumption

LEMMA TestsTyped == ASSUME NEW t \in Tests PROVE t \in TestType
BY BankGuardAssumption

LEMMA PoolRead ==
  ASSUME bank \in [Ids -> Row], NEW topic \in Topics
  PROVE  PoolOf(bank, topic) \in Reads
BY DEF Reads

(* A request leaves a bank of the same type behind.                         *)
LEMMA AppliedTyped ==
  ASSUME NEW b \in [Ids -> Row], NEW c \in Changes
  PROVE  applied(b, c) \in [Ids -> Row]
<1> SUFFICES ASSUME NEW i \in Ids PROVE applied(b, c)[i] \in Row
  BY DEF applied
<1>1. CASE i \notin c.ids
  BY <1>1 DEF applied
<1>2. CASE i \in c.ids
  <2>1. applied(b, c)[i] = [topic |-> IF c.to = "stay" THEN b[i].topic ELSE c.to,
                            tags |-> IF c.tags = Keep THEN b[i].tags ELSE c.tags,
                            index |-> b[i].index]
    BY <1>2 DEF applied, Row
  <2>2. (IF c.to = "stay" THEN b[i].topic ELSE c.to) \in Topics \cup {Gone}
    BY DEF Changes, Row
  <2>3. (IF c.tags = Keep THEN b[i].tags ELSE c.tags) \in TagSets
    BY DEF Changes, Row
  <2>4. b[i].index \in 0 .. 1
    BY DEF Row
  <2> QED
    BY <2>1, <2>2, <2>3, <2>4 DEF Row
<1> QED
  BY <1>1, <1>2

LEMMA IdleShape == Shape(Idle)
<1>1. Idle.change \in Changes
  BY DEF Idle, NoChange, Changes
<1>2. Idle.test \in TestType
  <2>1. <<>> \in Seq(SectionType)
    OBVIOUS
  <2> QED
    BY <2>1 DEF Idle, TestType
<1>3. Idle \in Request
  BY <1>1, <1>2 DEF Idle, Request, Steps
<1> QED
  BY <1>3 DEF Shape, Idle

LEMMA IdleGood == Good(Idle)
<1>1. Idle.pc = "idle"
  BY DEF Idle
<1> QED
  BY <1>1, IdleShape DEF Good, Fresh

(* A request that is touched keeps its shape and knows nothing any more.    *)
LEMMA TouchedGood ==
  ASSUME NEW x, Shape(x), NEW b \in BOOLEAN
  PROVE  /\ Shape([x EXCEPT !.touched = x.touched \/ b])
         /\ [x EXCEPT !.touched = x.touched \/ b].pc = x.pc
         /\ [x EXCEPT !.touched = x.touched \/ b].touched = (x.touched \/ b)
<1> DEFINE y == [x EXCEPT !.touched = x.touched \/ b]
<1>1. x \in Request
  BY DEF Shape
<1>2. /\ y.pc = x.pc /\ y.change = x.change /\ y.from = x.from /\ y.pools = x.pools
      /\ y.test = x.test /\ y.checked = x.checked /\ y.touched = (x.touched \/ b)
  BY <1>1 DEF Request
<1>3. y \in Request
  BY <1>1 DEF Request
<1> HIDE DEF y
<1> QED
  BY <1>2, <1>3 DEF Shape, Saved, y


-----------------------------------------------------------------------------
(* The steps.                                                               *)

(* A step of one request that writes nothing.                               *)
LEMMA LocalStep ==
  ASSUME Inv, NEW r \in Slots, NEW x, req' = [req EXCEPT ![r] = x],
         UNCHANGED <<bank, test, status, frozen, writes>>, Good(x)
  PROVE  Inv'
<1>1. /\ DOMAIN req' = Slots
      /\ \A q \in Slots : req'[q] = IF q = r THEN x ELSE req[q]
  BY DEF Inv
<1>2. \A q \in Slots : Good(req'[q])
  BY <1>1 DEF Inv
<1>3. \A y : Good(y)' <=> Good(y)
  BY DEF Good, Shape, Saved, Fresh, StillThere, Allowed, SectionFeasible
<1> QED
  BY <1>1, <1>2, <1>3 DEF Inv, TypeInv, CheckedSnapshot, AllFeasible, Saved

(* A write: the other requests in flight are touched.                       *)
LEMMA WriteStep ==
  ASSUME Inv, TypeInv', CheckedSnapshot', NEW S \in SUBSET Slots,
         \A q \in Slots \ S : Good(req[q])',
         \A q \in S : req'[q] = Touch(S)[q],
         DOMAIN req' = Slots
  PROVE  Inv'
<1> SUFFICES ASSUME NEW q \in S PROVE Good(req[q])'
  BY DEF Inv
<1> DEFINE b == q \in S /\ req[q].pc # "idle"
<1>1. req'[q] = [req[q] EXCEPT !.touched = req[q].touched \/ b]
  BY DEF Touch
<1>b. b \in BOOLEAN /\ (b <=> req[q].pc # "idle")
  OBVIOUS
<1> HIDE DEF b
<1>2. Shape(req[q])
  BY DEF Inv, Good
<1>3. /\ Shape(req'[q])
      /\ req'[q].pc = req[q].pc
      /\ req'[q].touched = (req[q].touched \/ b)
  BY <1>1, <1>2, <1>b, TouchedGood
<1>4. Shape(req[q])'
  BY <1>3 DEF Shape, Saved
<1>5. ~(req'[q].touched) => req'[q].pc = "idle"
  BY <1>3, <1>b
<1>6. req'[q].pc = "idle" => Fresh(req[q])'
  BY DEF Fresh
<1> QED
  BY <1>4, <1>5, <1>6 DEF Good


LEMMA AssessStep ==
  ASSUME Inv, NEW r \in Slots, NEW c \in Changes, NEW from \in Topics, NEW force \in BOOLEAN,
         Assess(r, c, from, force)
  PROVE  Inv'
<1> DEFINE x == [Idle EXCEPT !.pc = "decide", !.change = c, !.from = from, !.force = force,
                             !.pool = PoolOf(applied(bank, c), from)]
<1>1. /\ x.pc = "decide" /\ x.change = c /\ x.from = from /\ x.pool = PoolOf(applied(bank, c), from)
      /\ x.pools = <<>>
  BY DEF Idle
<1>2. x.pool \in Reads
  BY <1>1, AppliedTyped DEF Inv, TypeInv, Reads
<1>3. x \in Request
  <2>1. Idle \in Request
    BY IdleShape DEF Shape
  <2> QED
    BY <1>2, <2>1 DEF Request, Idle, Steps
<1>4. req' = [req EXCEPT ![r] = x] /\ UNCHANGED <<bank, test, status, frozen, writes>>
      /\ \A i \in c.ids : bank[i].topic = from
  BY DEF Assess
<1>5. Single(c)
  <2>1. c.ids \in SUBSET Ids /\ IsFiniteSet(c.ids)
    BY BankGuardAssumption, FS_Subset DEF Changes
  <2>2. Cardinality(c.ids) = 1 => \E i : c.ids = {i}
    BY <2>1, FS_Singleton
  <2>3. c.to = Gone \/ Cardinality(c.ids) = 1 \/ \E i \in Ids : c.ids = {i}
    BY DEF Assess
  <2> QED
    BY <2>1, <2>2, <2>3 DEF Single
<1> HIDE DEF x
<1>6. Good(x)
  BY <1>1, <1>3, <1>4, <1>5 DEF Good, Shape, Fresh, StillThere
<1> QED
  BY <1>4, <1>6, LocalStep

LEMMA DecideStep ==
  ASSUME Inv, NEW r \in Slots, Decide(r)
  PROVE  Inv'
<1> DEFINE blocked == /\ status = "published"
                      /\ \E s \in ToSet(test.sections) :
                           s.topic = req[r].from /\ ~Feasible(req[r].pool, s)
           x == [req[r] EXCEPT !.pc = "write", !.pool = {}]
<1>1. Good(req[r]) /\ req[r] \in Request /\ req[r].pc = "decide" /\ DOMAIN req = Slots
  BY DEF Decide, Inv, Good, Shape
<1>2. CASE blocked /\ ~req[r].force
  <2>1. req' = [req EXCEPT ![r] = Idle] /\ UNCHANGED <<bank, test, status, frozen, writes>>
    BY <1>2 DEF Decide
  <2> QED
    BY <2>1, IdleGood, LocalStep
<1>3. CASE ~(blocked /\ ~req[r].force)
  <2>1. req' = [req EXCEPT ![r] = x] /\ UNCHANGED <<bank, test, status, frozen, writes>>
    BY <1>1, <1>3 DEF Decide
  <2>2. /\ x.pc = "write" /\ x.change = req[r].change /\ x.from = req[r].from
        /\ x.force = req[r].force /\ x.touched = req[r].touched /\ x.pools = req[r].pools
        /\ x \in Request
    BY <1>1 DEF Request, Steps
  <2>3. ~req[r].touched => StillThere(req[r]) /\ req[r].pool = PoolOf(applied(bank, req[r].change), req[r].from)
    BY <1>1 DEF Good, Fresh
  <2> HIDE DEF x
  <2>4. ~x.touched => StillThere(x) /\ Allowed(x)
    BY <1>3, <2>2, <2>3 DEF StillThere, Allowed
  <2>5. Good(x)
    BY <1>1, <2>2, <2>4 DEF Good, Shape, Fresh
  <2> QED
    BY <2>1, <2>5, LocalStep
<1> QED
  BY <1>2, <1>3

LEMMA WriteKeeps ==
  ASSUME Inv, NEW r \in Slots, Write(r)
  PROVE  Inv'
<1> DEFINE c == req[r].change
           d == [c EXCEPT !.ids = {i \in c.ids : bank[i].topic # Gone}]
<1>1. req[r] \in Request /\ c \in Changes /\ DOMAIN req = Slots
  BY DEF Inv, Good, Shape, Request
<1>2. d \in Changes
  BY <1>1 DEF Changes
<1>3. bank' = applied(bank, d)
  BY DEF Write
<1>4. bank' \in [Ids -> Row]
  BY <1>2, <1>3, AppliedTyped DEF Inv, TypeInv
<1>5. writes' \in 0 .. MaxWrites
  <2>1. writes' = writes + 1 /\ writes < MaxWrites
    BY DEF Write
  <2> QED
    BY <2>1, Bounds DEF Inv, TypeInv
<1>6. UNCHANGED <<test, status, frozen>>
  BY DEF Write
<1>7. TypeInv' /\ CheckedSnapshot'
  BY <1>4, <1>5, <1>6 DEF Inv, TypeInv, CheckedSnapshot, AllFeasible, Saved
<1>8. req' = [Touch(Slots) EXCEPT ![r] = Idle] /\ DOMAIN Touch(Slots) = Slots
  BY DEF Write, Touch
<1>9. DOMAIN req' = Slots /\ req'[r] = Idle /\ \A q \in Slots \ {r} : req'[q] = Touch(Slots)[q]
  BY <1>8
<1>10. \A q \in Slots \ {r} : Touch(Slots)[q] = Touch(Slots \ {r})[q]
  BY DEF Touch
<1>11. Good(req[r])'
  <2>1. Shape(Idle) /\ Idle.pc = "idle"
    BY IdleShape DEF Idle
  <2> QED
    BY <1>9, <2>1 DEF Good, Shape, Saved, Fresh
<1> HIDE DEF c, d
<1> DEFINE S == Slots \ {r}
<1>12. /\ S \in SUBSET Slots /\ \A q \in Slots \ S : q = r
       /\ \A q \in S : req'[q] = Touch(S)[q]
  BY <1>9, <1>10
<1>13. \A q \in Slots \ S : Good(req[q])'
  BY <1>11, <1>12
<1> HIDE DEF S
<1> QED
  BY <1>7, <1>9, <1>12, <1>13, WriteStep


LEMMA EditStep ==
  ASSUME Inv, NEW i \in Ids, NEW topic \in Topics, NEW tags \in TagSets, NEW index \in 0 .. 1,
         EditUnguarded(i, topic, tags, index)
  PROVE  Inv'
<1>1. bank' = [bank EXCEPT ![i] = [topic |-> topic, tags |-> tags, index |-> index]]
  BY DEF EditUnguarded
<1>2. bank' \in [Ids -> Row]
  BY <1>1 DEF Inv, TypeInv, Row
<1>3. writes' = writes + 1 /\ writes < MaxWrites /\ UNCHANGED <<test, status, frozen>> /\ req' = Touch(Slots)
  BY DEF EditUnguarded
<1>4. writes' \in 0 .. MaxWrites
  BY <1>3, Bounds DEF Inv, TypeInv
<1>5. TypeInv' /\ CheckedSnapshot'
  BY <1>2, <1>3, <1>4 DEF Inv, TypeInv, CheckedSnapshot, AllFeasible, Saved
<1>6. DOMAIN req' = Slots
  BY <1>3 DEF Touch
<1> QED
  BY <1>3, <1>5, <1>6, WriteStep

LEMMA SaveStep ==
  ASSUME Inv, NEW t \in Tests, NEW s \in {"draft", "published"}, SaveTest(t, s)
  PROVE  Inv'
<1>1. /\ writes' = writes + 1 /\ writes < MaxWrites /\ UNCHANGED <<bank, frozen>>
      /\ req' = Touch(Slots) /\ test' = t /\ status' = s
  BY DEF SaveTest
<1>2. writes' \in 0 .. MaxWrites
  BY <1>1, Bounds DEF Inv, TypeInv
<1>3. TypeInv' /\ CheckedSnapshot'
  BY <1>1, <1>2 DEF Inv, TypeInv, CheckedSnapshot, AllFeasible, Saved
<1>4. DOMAIN req' = Slots
  BY <1>1 DEF Touch
<1> QED
  BY <1>1, <1>3, <1>4, WriteStep

LEMMA WithdrawStep ==
  ASSUME Inv, Withdraw
  PROVE  Inv'
<1>1. /\ UNCHANGED <<bank, test, frozen, writes>> /\ status' = "draft"
      /\ req' = Touch(Slots)
  BY DEF Withdraw
<1>2. TypeInv' /\ CheckedSnapshot'
  BY <1>1 DEF Inv, TypeInv, CheckedSnapshot, AllFeasible, Saved
<1>3. DOMAIN req' = Slots
  BY <1>1 DEF Touch
<1> QED
  BY <1>1, <1>2, <1>3, WriteStep

LEMMA BeginStep ==
  ASSUME Inv, NEW r \in Slots, BeginPublish(r)
  PROVE  Inv'
<1> DEFINE pc == IF test.sections = <<>> THEN "patch" ELSE "check"
           x == [Idle EXCEPT !.pc = pc, !.test = test]
<1>1. req' = [req EXCEPT ![r] = x] /\ UNCHANGED <<bank, test, status, frozen, writes>>
  BY DEF BeginPublish
<1>2. test \in Tests /\ test \in TestType
  BY TestsTyped DEF Inv, TypeInv
<1>3. /\ x.pc = pc /\ x.test = test /\ x.pools = <<>> /\ x.checked = 0 /\ x \in Request
  BY <1>2, IdleShape DEF Idle, Request, Steps, Shape
<1>4. pc = "check" => 0 < Len(test.sections)
  <2>1. test.sections \in Seq(SectionType)
    BY <1>2 DEF TestType
  <2> QED
    BY <2>1
<1>5. pc = "patch" => \A s \in ToSet(test.sections) : SectionFeasible(s)
  BY DEF ToSet
<1>6. pc \in {"patch", "check"}
  OBVIOUS
<1> HIDE DEF x, pc
<1>7. Good(x)
  BY <1>2, <1>3, <1>4, <1>5, <1>6 DEF Good, Shape, Saved, Fresh
<1> QED
  BY <1>1, <1>7, LocalStep

LEMMA CheckStep ==
  ASSUME Inv, NEW r \in Slots, CheckSection(r)
  PROVE  Inv'
<1> DEFINE n == req[r].checked + 1
           s == req[r].test.sections[n]
           pc == IF n = Len(req[r].test.sections) THEN "patch" ELSE "check"
           x == [req[r] EXCEPT !.checked = n, !.pc = pc]
<1>1. /\ Good(req[r]) /\ Shape(req[r]) /\ req[r] \in Request /\ req[r].pc = "check" /\ DOMAIN req = Slots
  BY DEF CheckSection, Inv, Good, Shape
<1>2. CASE ~Feasible(PoolOf(bank, s.topic), s)
  <2>1. req' = [req EXCEPT ![r] = Idle] /\ UNCHANGED <<bank, test, status, frozen, writes>>
    BY <1>1, <1>2 DEF CheckSection
  <2> QED
    BY <2>1, IdleGood, LocalStep
<1>3. CASE Feasible(PoolOf(bank, s.topic), s)
  <2>1. req' = [req EXCEPT ![r] = x] /\ UNCHANGED <<bank, test, status, frozen, writes>>
    BY <1>1, <1>3 DEF CheckSection
  <2>2. n \in Nat /\ req[r].test.sections \in Seq(SectionType) /\ req[r].checked < Len(req[r].test.sections)
    BY <1>1 DEF Request, TestType, Shape
  <2>3. /\ x.pc = pc /\ x.test = req[r].test /\ x.checked = n /\ x.touched = req[r].touched
        /\ x.pools = req[r].pools /\ x \in Request
    BY <1>1, <2>2 DEF Request, Steps
  <2>4. x.pools = <<>> /\ Saved(x)
    BY <1>1, <2>3 DEF Shape, Saved
  <2>5. pc = "check" => n < Len(req[r].test.sections)
    <3>1. req[r].checked \in Nat /\ Len(req[r].test.sections) \in Nat
      BY <1>1, <2>2 DEF Request
    <3> QED
      BY <2>2, <3>1
  <2>6. ASSUME ~req[r].touched
        PROVE  req[r].test = test /\ \A i \in 1 .. n : SectionFeasible(test.sections[i])
    <3>1. req[r].test = test /\ \A i \in 1 .. req[r].checked : SectionFeasible(test.sections[i])
      BY <1>1, <2>6 DEF Good, Fresh
    <3>2. SectionFeasible(test.sections[n])
      BY <1>3, <3>1 DEF SectionFeasible
    <3> QED
      BY <1>1, <2>2, <3>1, <3>2 DEF Request
  <2>7. ASSUME ~req[r].touched, pc = "patch"
        PROVE  \A q \in ToSet(test.sections) : SectionFeasible(q)
    BY <2>2, <2>6, <2>7 DEF ToSet
  <2>8. pc \in {"patch", "check"}
    OBVIOUS
  <2> HIDE DEF x, pc, n
  <2>9. Good(x)
    BY <2>3, <2>4, <2>5, <2>6, <2>7, <2>8 DEF Good, Shape, Fresh
  <2> QED
    BY <2>1, <2>9, LocalStep
<1> QED
  BY <1>2, <1>3


LEMMA PatchStep ==
  ASSUME Inv, NEW r \in Slots, PatchStatus(r)
  PROVE  Inv'
<1> DEFINE S == Slots \ {r}
           x == [Touch(S)[r] EXCEPT !.pc = "sections", !.test = test, !.checked = 0]
<1>1. /\ Good(req[r]) /\ Shape(req[r]) /\ req[r] \in Request /\ req[r].pc = "patch" /\ DOMAIN req = Slots
      /\ test \in Tests /\ test \in TestType
  BY TestsTyped DEF PatchStatus, Inv, Good, Shape, TypeInv
<1>2. UNCHANGED <<bank, test, frozen, writes>> /\ status' = "published"
      /\ req' = [Touch(S) EXCEPT ![r] = x] /\ DOMAIN Touch(S) = Slots
  BY DEF PatchStatus, Touch
<1>3. TypeInv' /\ CheckedSnapshot'
  BY <1>2 DEF Inv, TypeInv, CheckedSnapshot, AllFeasible, Saved
<1> DEFINE b == r \in S /\ req[r].pc # "idle"
<1>4. Touch(S)[r] = [req[r] EXCEPT !.touched = req[r].touched \/ b] /\ b \in BOOLEAN /\ ~b
  BY DEF Touch
<1> HIDE DEF b
<1>5. /\ Shape(Touch(S)[r]) /\ Touch(S)[r].pc = "patch"
      /\ Touch(S)[r].touched = req[r].touched
  <2>1. Shape(Touch(S)[r]) /\ Touch(S)[r].pc = "patch" /\ Touch(S)[r].touched = (req[r].touched \/ b)
    BY <1>1, <1>4, TouchedGood
  <2>2. req[r].touched \in BOOLEAN
    BY <1>1 DEF Request
  <2> QED
    BY <1>4, <2>1, <2>2
<1>6. Touch(S)[r].pools = <<>> /\ Touch(S)[r] \in Request
  BY <1>5 DEF Shape
<1>7. /\ x.pc = "sections" /\ x.test = test /\ x.pools = <<>> /\ x.touched = req[r].touched
      /\ x \in Request
  BY <1>1, <1>5, <1>6 DEF Request, Steps
<1>8. ~req[r].touched => \A s \in ToSet(test.sections) : SectionFeasible(s)
  BY <1>1 DEF Good, Fresh
<1>9. req'[r] = x /\ DOMAIN req' = Slots /\ \A q \in S : req'[q] = Touch(S)[q]
  BY <1>2
<1> HIDE DEF x
<1>10. S \in SUBSET Slots /\ \A q \in Slots \ S : q = r
  OBVIOUS
<1> HIDE DEF S
<1>11. \A q \in Slots \ S : Good(req[q])'
  BY <1>1, <1>2, <1>7, <1>8, <1>9, <1>10 DEF Good, Shape, Saved, Fresh, SectionFeasible
<1> QED
  BY <1>3, <1>9, <1>10, <1>11, WriteStep

LEMMA SectionsStep ==
  ASSUME Inv, NEW r \in Slots, BuildSections(r)
  PROVE  Inv'
<1> DEFINE pc == IF test.sections = <<>> THEN "insert" ELSE "pools"
           x == [req[r] EXCEPT !.test = [req[r].test EXCEPT !.sections = test.sections], !.pc = pc]
<1>1. /\ Good(req[r]) /\ Shape(req[r]) /\ req[r] \in Request /\ req[r].pc = "sections" /\ DOMAIN req = Slots
      /\ test \in Tests /\ test \in TestType
  BY TestsTyped DEF BuildSections, Inv, Good, Shape, TypeInv
<1>2. req' = [req EXCEPT ![r] = x] /\ UNCHANGED <<bank, test, status, frozen, writes>>
  BY <1>1 DEF BuildSections, Request
<1>3. /\ x.pc = pc /\ x.test.sections = test.sections /\ x.pools = <<>> /\ x.touched = req[r].touched
      /\ x \in Request
  BY <1>1 DEF Request, Steps, Shape, TestType
<1>4. ~req[r].touched => x.test = test
  <2>1. ~req[r].touched => req[r].test = test
    BY <1>1 DEF Good, Fresh
  <2> QED
    BY <1>1, <2>1 DEF TestType, Request
<1>5. Len(test.sections) \in Nat /\ (pc = "pools" => 0 < Len(test.sections)) /\ (pc = "insert" => Len(test.sections) = 0)
  <2>1. test.sections \in Seq(SectionType)
    BY <1>1 DEF TestType
  <2> QED
    BY <2>1
<1>6. pc \in {"pools", "insert"}
  OBVIOUS
<1>7. ~req[r].touched => \A s \in ToSet(test.sections) : SectionFeasible(s)
  BY <1>1 DEF Good, Fresh
<1> HIDE DEF x, pc
<1>8. Good(x)
  BY <1>1, <1>3, <1>4, <1>5, <1>6, <1>7 DEF Good, Shape, Saved, Fresh
<1> QED
  BY <1>2, <1>8, LocalStep

LEMMA PoolStep ==
  ASSUME Inv, NEW r \in Slots, BuildPool(r)
  PROVE  Inv'
<1> DEFINE old == req[r].pools
           n == Len(old) + 1
           topic == req[r].test.sections[n].topic
           last == n = Len(req[r].test.sections)
           pc == IF last THEN "insert" ELSE "pools"
           x == [req[r] EXCEPT !.pools = Append(old, PoolOf(bank, topic)), !.pc = pc]
<1>1. /\ Good(req[r]) /\ Shape(req[r]) /\ req[r] \in Request /\ req[r].pc = "pools" /\ DOMAIN req = Slots
      /\ bank \in [Ids -> Row]
  BY DEF BuildPool, Inv, Good, Shape, TypeInv
<1>2. /\ old \in Seq(Reads) /\ Len(old) < Len(req[r].test.sections) /\ Len(old) \in Nat
      /\ req[r].test.sections \in Seq(SectionType) /\ Len(req[r].test.sections) \in Nat
  BY <1>1 DEF Shape, Request, TestType
<1>3. topic \in Topics
  <2>1. n \in 1 .. Len(req[r].test.sections)
    BY <1>2
  <2>2. req[r].test.sections[n] \in SectionType
    BY <1>2, <2>1
  <2> QED
    BY <2>2 DEF SectionType
<1>4. req' = [req EXCEPT ![r] = x] /\ UNCHANGED <<bank, test, status, frozen, writes>>
  BY <1>1 DEF BuildPool
<1>5. PoolOf(bank, topic) \in Reads
  BY <1>1, <1>3, PoolRead
<1>6. /\ Append(old, PoolOf(bank, topic)) \in Seq(Reads) /\ Len(Append(old, PoolOf(bank, topic))) = n
      /\ \A i \in 1 .. Len(old) : Append(old, PoolOf(bank, topic))[i] = old[i]
      /\ Append(old, PoolOf(bank, topic))[n] = PoolOf(bank, topic)
  BY <1>2, <1>5
<1>7. /\ x.pc = pc /\ x.test = req[r].test /\ x.touched = req[r].touched
      /\ x.pools = Append(old, PoolOf(bank, topic)) /\ x \in Request
  BY <1>1, <1>6 DEF Request, Steps
<1>8. (pc = "pools" => n < Len(req[r].test.sections)) /\ (pc = "insert" => n = Len(req[r].test.sections))
      /\ pc \in {"pools", "insert"}
  BY <1>2
<1>9. Saved(x)
  BY <1>1, <1>7 DEF Shape, Saved
<1>10. ~req[r].touched =>
          /\ req[r].test = test /\ \A s \in ToSet(test.sections) : SectionFeasible(s)
          /\ \A i \in 1 .. Len(old) : old[i] = PoolOf(bank, req[r].test.sections[i].topic)
  BY <1>1 DEF Good, Fresh
<1>11. ~req[r].touched => \A i \in 1 .. n : x.pools[i] = PoolOf(bank, req[r].test.sections[i].topic)
  BY <1>2, <1>6, <1>7, <1>10
<1>12. Len(x.pools) = n
  BY <1>6, <1>7
<1> HIDE DEF x, pc, n, topic, old
<1>13. Good(x)
  BY <1>7, <1>8, <1>9, <1>10, <1>11, <1>12 DEF Good, Shape, Fresh
<1> QED
  BY <1>4, <1>13, LocalStep

(* createTestSnapshot: the pool of a section is one that was read for its   *)
(* topic.                                                                   *)
LEMMA PoolsInserted ==
  ASSUME NEW t \in TestType, NEW old \in Seq(Reads), Len(old) = Len(t.sections), NEW s \in ToSet(t.sections)
  PROVE  LET pools == [topic \in ToSet(TopicsOf(t)) |-> old[CHOOSE i \in DOMAIN old : TopicsOf(t)[i] = topic]]
         IN  \E i \in 1 .. Len(old) : pools[s.topic] = old[i] /\ t.sections[i].topic = s.topic
<1> DEFINE pools == [topic \in ToSet(TopicsOf(t)) |-> old[CHOOSE i \in DOMAIN old : TopicsOf(t)[i] = topic]]
<1>1. t.sections \in Seq(SectionType)
  BY DEF TestType
<1>2. PICK k \in DOMAIN t.sections : s = t.sections[k]
  BY DEF ToSet
<1>3. DOMAIN old = 1 .. Len(old) /\ DOMAIN t.sections = 1 .. Len(t.sections)
  BY <1>1
<1>4. \A i \in DOMAIN t.sections : TopicsOf(t)[i] = t.sections[i].topic
  BY DEF TopicsOf
<1>5. s.topic \in ToSet(TopicsOf(t))
  BY <1>2, <1>4 DEF ToSet, TopicsOf
<1> DEFINE i == CHOOSE j \in DOMAIN old : TopicsOf(t)[j] = s.topic
<1>6. i \in DOMAIN old /\ TopicsOf(t)[i] = s.topic
  BY <1>1, <1>2, <1>3, <1>4
<1>7. pools[s.topic] = old[i]
  BY <1>5
<1> HIDE DEF i, pools
<1>8. i \in 1 .. Len(old) /\ pools[s.topic] = old[i] /\ t.sections[i].topic = s.topic
  BY <1>3, <1>4, <1>6, <1>7
<1> QED
  BY <1>8 DEF pools

(* What is inserted was read from the pools that were judged.               *)
LEMMA InsertStep ==
  ASSUME Inv, NEW r \in Slots, InsertSnapshot(r)
  PROVE  Inv'
<1> DEFINE t == req[r].test
           old == req[r].pools
           pools == [topic \in ToSet(TopicsOf(t)) |-> old[CHOOSE i \in DOMAIN old : TopicsOf(t)[i] = topic]]
<1>1. /\ Good(req[r]) /\ Shape(req[r]) /\ req[r] \in Request /\ req[r].pc = "insert" /\ DOMAIN req = Slots
  BY DEF InsertSnapshot, Inv, Good, Shape
<1>2. /\ frozen' = [id |-> frozen.id + 1, test |-> t, touched |-> req[r].touched, pools |-> pools]
      /\ frozen.id < MaxFreezes /\ req' = [req EXCEPT ![r] = Idle]
      /\ UNCHANGED <<bank, test, status, writes>>
  BY DEF InsertSnapshot
<1>3. Saved(req[r]) /\ frozen'.id \in 1 .. MaxFreezes /\ frozen'.id \in 0 .. MaxFreezes
  BY <1>1, <1>2, Bounds DEF Shape, Inv, TypeInv
<1>4. TypeInv'
  BY <1>2, <1>3 DEF Inv, TypeInv, Saved
<1>5. ASSUME ~req[r].touched, NEW s \in ToSet(t.sections)
      PROVE  Feasible(pools[s.topic], s)
  <2>1. /\ t = test /\ SectionFeasible(s)
        /\ \A i \in 1 .. Len(old) : old[i] = PoolOf(bank, t.sections[i].topic)
    BY <1>1, <1>5 DEF Good, Fresh
  <2>2. t \in TestType /\ old \in Seq(Reads) /\ Len(old) = Len(t.sections)
    BY <1>1 DEF Request, Shape
  <2>3. \E i \in 1 .. Len(old) : pools[s.topic] = old[i] /\ t.sections[i].topic = s.topic
    BY <2>2, PoolsInserted
  <2> HIDE DEF pools
  <2>4. pools[s.topic] = PoolOf(bank, s.topic)
    BY <2>1, <2>3
  <2> QED
    BY <2>1, <2>4 DEF SectionFeasible
<1> HIDE DEF pools
<1>6. CheckedSnapshot'
  BY <1>2, <1>5 DEF CheckedSnapshot, AllFeasible
<1>7. DOMAIN req' = Slots /\ \A q \in Slots : req'[q] = IF q = r THEN Idle ELSE req[q]
  BY <1>1, <1>2
<1>8. ASSUME NEW q \in Slots PROVE Good(req[q])'
  <2>1. Good(req'[q])
    BY <1>7, IdleGood DEF Inv
  <2> QED
    BY <1>2, <2>1 DEF Good, Shape, Saved, Fresh, StillThere, Allowed, SectionFeasible
<1> QED
  BY <1>4, <1>6, <1>7, <1>8 DEF Inv

LEMMA FailStep ==
  ASSUME Inv, NEW r \in Slots, PublishFails(r)
  PROVE  Inv'
<1>1. req' = [req EXCEPT ![r] = Idle] /\ UNCHANGED <<bank, test, status, frozen, writes>>
  BY DEF PublishFails
<1> QED
  BY <1>1, IdleGood, LocalStep

LEMMA InvInit == BankInit => Inv
<1> SUFFICES ASSUME BankInit PROVE Inv
  OBVIOUS
<1>1. bank \in [Ids -> Row] /\ test \in Tests /\ status = "draft" /\ writes = 0
  BY BankGuardAssumption DEF BankInit
<1>2. frozen = NoSnapshot /\ frozen.id = 0
  BY DEF BankInit, NoSnapshot
<1>3. TypeInv /\ CheckedSnapshot
  BY <1>1, <1>2, Bounds DEF TypeInv, CheckedSnapshot
<1>4. DOMAIN req = Slots /\ \A r \in Slots : req[r] = Idle
  BY DEF BankInit
<1> QED
  BY <1>3, <1>4, IdleGood DEF Inv

LEMMA InvNext == Inv /\ [Author]_bankVars => Inv'
<1> SUFFICES ASSUME Inv, [Author]_bankVars PROVE Inv'
  OBVIOUS
<1>1. CASE UNCHANGED bankVars
  <2>1. UNCHANGED <<bank, test, status, frozen, writes, req>>
    BY <1>1 DEF bankVars
  <2> QED
    BY <2>1 DEF Inv, TypeInv, CheckedSnapshot, AllFeasible, Saved, Good, Shape, Fresh, StillThere,
                Allowed, SectionFeasible
<1>2. ASSUME NEW r \in Slots, NEW c \in Changes, NEW from \in Topics, NEW force \in BOOLEAN,
             Assess(r, c, from, force)
      PROVE  Inv'
  BY <1>2, AssessStep
<1>3. ASSUME NEW r \in Slots, Decide(r) \/ Write(r) PROVE Inv'
  BY <1>3, DecideStep, WriteKeeps
<1>4. ASSUME NEW r \in Slots,
             BeginPublish(r) \/ CheckSection(r) \/ PatchStatus(r) \/ BuildSections(r) \/ BuildPool(r)
               \/ InsertSnapshot(r) \/ PublishFails(r)
      PROVE  Inv'
  BY <1>4, BeginStep, CheckStep, PatchStep, SectionsStep, PoolStep, InsertStep, FailStep
<1>5. ASSUME NEW i \in Ids, NEW topic \in Topics, NEW tags \in TagSets, NEW index \in 0 .. 1,
             EditUnguarded(i, topic, tags, index)
      PROVE  Inv'
  BY <1>5, EditStep
<1>6. ASSUME NEW t \in Tests, NEW s \in {"draft", "published"}, SaveTest(t, s) PROVE Inv'
  BY <1>6, SaveStep
<1>7. CASE Withdraw
  BY <1>7, WithdrawStep
<1> QED
  BY <1>1, <1>2, <1>3, <1>4, <1>5, <1>6, <1>7 DEF Author

-----------------------------------------------------------------------------
(* Theorems.                                                                *)

THEOREM InvHolds == BankSpec => []Inv
BY InvInit, InvNext, PTL DEF BankSpec

(* Types hold of every reachable state of the bank, the test and the        *)
(* requests (routes/questions.ts, routes/tests.ts).                         *)
THEOREM BankTypeCorrect == BankSpec => []BankTypeOK
<1>1. Inv => BankTypeOK
  BY DEF Inv, TypeInv, BankTypeOK, Saved, Good, Shape, Request
<1> QED
  BY <1>1, InvHolds, PTL

(* assessTestPublish: an undisturbed publication freezes what it judged.    *)
THEOREM SnapshotIsChecked == BankSpec => []CheckedSnapshot
<1>1. Inv => CheckedSnapshot
  BY DEF Inv
<1> QED
  BY <1>1, InvHolds, PTL

(* questions.ts: an undisturbed, unforced change of the bank leaves every   *)
(* section of the topic drawable in a published test.                       *)
THEOREM GuardedTopics == BankSpec => TopicStaysDrawable
<1> DEFINE Stays ==
      \A r \in Slots :
        Write(r) /\ Undisturbed(r) /\ status = "published" =>
          \A s \in ToSet(test.sections) : s.topic = req[r].from => Feasible(LivePools[s.topic]', s)
<1>1. Inv /\ [Author]_bankVars => [Stays]_bankVars
  <2> SUFFICES ASSUME Inv, NEW r \in Slots, Write(r), Undisturbed(r), status = "published",
                      NEW s \in ToSet(test.sections), s.topic = req[r].from
               PROVE  Feasible(LivePools[s.topic]', s)
    OBVIOUS
  <2> DEFINE c == req[r].change
             d == [c EXCEPT !.ids = {i \in c.ids : bank[i].topic # Gone}]
  <2>1. /\ Good(req[r]) /\ Shape(req[r]) /\ req[r] \in Request /\ req[r].pc = "write" /\ c \in Changes
        /\ ~req[r].touched /\ ~req[r].force /\ req[r].from \in Topics
    BY DEF Inv, Good, Shape, Request, Write, Undisturbed
  <2>2. StillThere(req[r]) /\ Allowed(req[r])
    BY <2>1 DEF Good, Fresh
  <2>3. {i \in c.ids : bank[i].topic # Gone} = c.ids
    BY <2>1, <2>2, Bounds DEF StillThere
  <2>4. d = c
    BY <2>1, <2>3 DEF Changes
  <2>5. bank' = applied(bank, d)
    BY DEF Write
  <2>6. Feasible(PoolOf(applied(bank, c), s.topic), s)
    BY <2>1, <2>2 DEF Allowed
  <2>7. LivePools[s.topic]' = PoolOf(bank', s.topic)
    BY <2>1 DEF LivePools
  <2> QED
    BY <2>4, <2>5, <2>6, <2>7
<1> QED
  BY <1>1, InvHolds, PTL DEF BankSpec, TopicStaysDrawable

-----------------------------------------------------------------------------
(* The draw from a pool that has one question more.                         *)

(* The questions of one topic: ids tell them apart.                         *)
Lawful(S) ==
  /\ IsFiniteSet(S)
  /\ \A p \in S : p.id \in Nat /\ p.index \in Nat
  /\ \A p, q \in S : p.id = q.id => p = q

LEMMA LeastExists ==
  ASSUME NEW B \in SUBSET Nat, B # {}
  PROVE  \E n \in B : \A k \in B : n <= k
<1>1. PICK n \in B : \A k \in B : ~ (<<k, n>> \in OpToRel(<, Nat))
  BY NatLessThanWellFounded, WFMin
<1>2. \A k \in B : ~ (k < n)
  BY <1>1 DEF OpToRel
<1>3. \A k \in B : k \in Nat /\ n \in Nat
  OBVIOUS
<1> QED
  BY <1>2, <1>3

LEMMA LawfulSubset ==
  ASSUME NEW S, Lawful(S), NEW T \in SUBSET S
  PROVE  Lawful(T) /\ Cardinality(T) \in Nat /\ Cardinality(T) <= Cardinality(S)
<1>1. IsFiniteSet(T) /\ Cardinality(T) <= Cardinality(S)
  BY FS_Subset DEF Lawful
<1>2. Cardinality(T) \in Nat
  BY <1>1, FS_CardinalityType
<1> QED
  BY <1>1, <1>2 DEF Lawful

(* The bank's order is a strict total order on the questions of a topic.    *)
LEMMA PrecedesOrders ==
  ASSUME NEW S, Lawful(S)
  PROVE  /\ \A p, q \in S : p # q => Precedes(p, q) \/ Precedes(q, p)
         /\ \A p \in S : ~ Precedes(p, p)
         /\ \A p, q, r \in S : Precedes(p, q) /\ Precedes(q, r) => Precedes(p, r)
<1>1. ASSUME NEW p \in S, NEW q \in S, p # q PROVE Precedes(p, q) \/ Precedes(q, p)
  <2>1. /\ p.id \in Nat /\ p.index \in Nat /\ q.id \in Nat /\ q.index \in Nat
        /\ p.id # q.id
    BY <1>1 DEF Lawful
  <2> QED
    BY <2>1 DEF Precedes, NoIndex
<1>2. ASSUME NEW p \in S PROVE ~ Precedes(p, p)
  <2>1. p.id \in Nat /\ p.index \in Nat
    BY DEF Lawful
  <2> QED
    BY <2>1 DEF Precedes, NoIndex
<1>3. ASSUME NEW p \in S, NEW q \in S, NEW r \in S, Precedes(p, q), Precedes(q, r)
      PROVE  Precedes(p, r)
  <2>1. /\ p.id \in Nat /\ p.index \in Nat /\ q.id \in Nat /\ q.index \in Nat
        /\ r.id \in Nat /\ r.index \in Nat
    BY DEF Lawful
  <2> QED
    BY <1>3, <2>1 DEF Precedes, NoIndex
<1> QED
  BY <1>1, <1>2, <1>3

LEMMA FirstExists ==
  ASSUME NEW S, Lawful(S), S # {}
  PROVE  \E m \in S : \A p \in S \ {m} : Precedes(m, p)
<1> DEFINE before(x) == {y \in S : Precedes(y, x)}
           sizes     == {Cardinality(before(x)) : x \in S}
<1>1. \A x \in S : IsFiniteSet(before(x)) /\ Cardinality(before(x)) \in Nat
  <2> SUFFICES ASSUME NEW x \in S PROVE IsFiniteSet(before(x)) /\ Cardinality(before(x)) \in Nat
    OBVIOUS
  <2>1. before(x) \in SUBSET S
    OBVIOUS
  <2> HIDE DEF before
  <2> QED
    BY <2>1, LawfulSubset DEF Lawful
<1>2. sizes \in SUBSET Nat /\ sizes # {}
  <2> HIDE DEF before
  <2> QED
    BY <1>1
<1>3. PICK n \in sizes : \A k \in sizes : n <= k
  <2> HIDE DEF sizes
  <2> QED
    BY <1>2, LeastExists
<1>4. PICK m \in S : n = Cardinality(before(m))
  <2> HIDE DEF before
  <2> QED
    BY DEF sizes
<1>5. SUFFICES ASSUME NEW p \in S \ {m}, ~ Precedes(m, p) PROVE FALSE
  BY Zenon
<1>6. before(p) \subseteq before(m) /\ p \in before(m) /\ p \notin before(p)
  BY <1>5, PrecedesOrders
<1>7. Cardinality(before(p)) < Cardinality(before(m))
  <2>1. before(p) \in SUBSET (before(m) \ {p})
    BY <1>6
  <2> HIDE DEF before
  <2>2. /\ IsFiniteSet(before(m) \ {p})
        /\ Cardinality(before(m) \ {p}) = Cardinality(before(m)) - 1
    BY <1>1, <1>6, FS_RemoveElement
  <2>3. Cardinality(before(p)) <= Cardinality(before(m) \ {p})
    BY <2>1, <2>2, FS_Subset
  <2> QED
    BY <1>1, <2>2, <2>3
<1>8. Cardinality(before(p)) \in sizes /\ Cardinality(before(p)) \in Nat
  <2> HIDE DEF before
  <2> QED
    BY <1>1, <1>5
<1> HIDE DEF before, sizes
<1>9. Cardinality(before(m)) <= Cardinality(before(p)) /\ Cardinality(before(m)) \in Nat
  BY <1>1, <1>3, <1>4, <1>8
<1> QED
  BY <1>7, <1>8, <1>9

(* What a first choice is. *)
LEMMA FirstOnes ==
  ASSUME NEW S, Lawful(S), NEW n \in Nat, NEW F
  PROVE  F \in Pick("identity", n, S) <=>
           /\ F \in SUBSET S /\ Cardinality(F) = Least(n, Cardinality(S))
           /\ \A p \in F, q \in S \ F : Precedes(p, q)
BY DEF Pick, kSubset

(* ... there always is one: the first of the rest is taken with the others. *)
LEMMA PickExists ==
  ASSUME NEW S, Lawful(S), NEW n \in Nat
  PROVE  Pick("identity", n, S) # {}
<1> DEFINE Bad == {k \in Nat : Pick("identity", k, S) = {}}
<1>0. Cardinality(S) \in Nat /\ IsFiniteSet(S)
  BY LawfulSubset DEF Lawful
<1>1. SUFFICES ASSUME Bad # {} PROVE FALSE
  OBVIOUS
<1>2. PICK k \in Bad : \A j \in Bad : k <= j
  <2>1. Bad \in SUBSET Nat
    OBVIOUS
  <2> HIDE DEF Bad
  <2> QED
    BY <1>1, <2>1, LeastExists
<1>3. k \in Nat /\ Pick("identity", k, S) = {}
  BY DEF Bad
<1>4. k # 0
  <2>1. {} \in Pick("identity", 0, S)
    BY <1>0, FS_EmptySet, FirstOnes DEF Least
  <2> QED
    BY <1>3, <2>1
<1>5. k - 1 \in Nat /\ k - 1 \notin Bad
  BY <1>2, <1>3, <1>4
<1>6. PICK F : F \in Pick("identity", k - 1, S)
  BY <1>5
<1> HIDE DEF Bad
<1>7. /\ F \in SUBSET S /\ Cardinality(F) = Least(k - 1, Cardinality(S))
      /\ \A p \in F, q \in S \ F : Precedes(p, q)
  BY <1>5, <1>6, FirstOnes
<1>8. CASE Cardinality(S) <= k - 1
  <2>1. Least(k - 1, Cardinality(S)) = Least(k, Cardinality(S))
    BY <1>0, <1>3, <1>8 DEF Least
  <2>2. F \in Pick("identity", k, S)
    BY <1>3, <1>7, <2>1, FirstOnes
  <2> QED
    BY <1>3, <2>2
<1>9. CASE Cardinality(S) > k - 1
  <2>1. Cardinality(F) = k - 1 /\ Least(k, Cardinality(S)) = k
    BY <1>0, <1>3, <1>5, <1>7, <1>9 DEF Least
  <2>2. S \ F # {} /\ Lawful(S \ F) /\ IsFiniteSet(F)
    <3>1. F # S
      BY <1>0, <1>9, <2>1, <1>5
    <3> QED
      BY <1>7, <3>1, LawfulSubset DEF Lawful
  <2>3. PICK m \in S \ F : \A p \in (S \ F) \ {m} : Precedes(m, p)
    BY <2>2, FirstExists
  <2>4. Cardinality(F \cup {m}) = k
    <3>1. Cardinality(F \cup {m}) = Cardinality(F) + 1
      BY <2>2, <2>3, FS_AddElement
    <3> QED
      BY <1>3, <2>1, <3>1
  <2>5. \A p \in F \cup {m}, q \in S \ (F \cup {m}) : Precedes(p, q)
    BY <1>7, <2>3
  <2>6. F \cup {m} \in Pick("identity", k, S)
    BY <1>3, <1>7, <2>1, <2>3, <2>4, <2>5, FirstOnes
  <2> QED
    BY <1>3, <2>6
<1> QED
  BY <1>0, <1>3, <1>5, <1>8, <1>9

(* With one question more the same number is taken, and again one question  *)
(* more is left, the new one or one that it displaces.                      *)
LEMMA PickShifts ==
  ASSUME NEW S, NEW z, Lawful(S \cup {z}), z \notin S, NEW n \in Nat, n <= Cardinality(S),
         NEW G \in Pick("identity", n, S \cup {z})
  PROVE  \E F \in Pick("identity", n, S), w \in (S \cup {z}) \ G :
           w \notin S \ F /\ (S \cup {z}) \ G = (S \ F) \cup {w}
<1>1. /\ Lawful(S) /\ Cardinality(S) \in Nat /\ IsFiniteSet(S)
      /\ Cardinality(S \cup {z}) = Cardinality(S) + 1
  BY LawfulSubset, FS_AddElement DEF Lawful
<1>2. Least(n, Cardinality(S)) = n /\ Least(n, Cardinality(S \cup {z})) = n
  BY <1>1 DEF Least
<1>3. /\ G \in SUBSET (S \cup {z}) /\ Cardinality(G) = n
      /\ \A p \in G, q \in (S \cup {z}) \ G : Precedes(p, q)
  BY <1>2, FirstOnes
<1>4. CASE z \notin G
  <2>1. G \in Pick("identity", n, S)
    BY <1>1, <1>2, <1>3, <1>4, FirstOnes
  <2> QED
    BY <1>4, <2>1
<1>5. CASE z \in G
  <2>1. IsFiniteSet(G) /\ Lawful(S \ G)
    BY <1>1, <1>3, LawfulSubset DEF Lawful
  <2>2. IsFiniteSet(G \ {z}) /\ Cardinality(G \ {z}) = n - 1
    BY <1>3, <1>5, <2>1, FS_RemoveElement
  <2>3. S \ G # {}
    <3> SUFFICES ASSUME S \ G = {} PROVE FALSE
      OBVIOUS
    <3>1. G \ {z} = S
      BY <1>3, <1>5
    <3>2. Cardinality(S) = n - 1
      BY <2>2, <3>1
    <3> QED
      BY <1>1, <3>2
  <2>4. PICK m \in S \ G : \A p \in (S \ G) \ {m} : Precedes(m, p)
    BY <2>1, <2>3, FirstExists
  <2> DEFINE F == (G \ {z}) \cup {m}
  <2>5. Cardinality(F) = n
    BY <2>2, <2>4, FS_AddElement
  <2>6. F \in SUBSET S /\ \A p \in F, q \in S \ F : Precedes(p, q)
    BY <1>3, <2>4
  <2>7. /\ m \in (S \cup {z}) \ G /\ m \notin S \ F
        /\ (S \cup {z}) \ G = (S \ F) \cup {m}
    BY <1>5, <2>4
  <2> HIDE DEF F
  <2>8. F \in Pick("identity", n, S)
    BY <1>1, <1>2, <2>5, <2>6, FirstOnes
  <2> QED
    BY <2>7, <2>8
<1> QED
  BY <1>4, <1>5

Tagged(S, tag) == {q \in S : tag \in q.tags}

Stratum == [tag : STRING, count : Nat, mode : {"exact", "min"}]

Serves(pool, strata, take, n) ==
  take[n] \in Pick("identity", strata[n].count, Tagged(Unused(pool, take, n - 1), strata[n].tag))

NoneShort(strata, take, n) == \A m \in 1 .. n : Cardinality(take[m]) >= strata[m].count

LEMMA UnusedFacts ==
  ASSUME NEW pool, NEW take, NEW n \in Nat
  PROVE  /\ Unused(pool, take, 0) = pool
         /\ Unused(pool, take, n) \in SUBSET pool
         /\ Unused(pool, take, n + 1) = Unused(pool, take, n) \ take[n + 1]
<1>1. 1 .. 0 = {} /\ 1 .. (n + 1) = (1 .. n) \cup {n + 1}
  OBVIOUS
<1> QED
  BY <1>1 DEF Unused

LEMMA UnusedSame ==
  ASSUME NEW pool, NEW take, NEW other, NEW n \in Nat, \A m \in 1 .. n : take[m] = other[m]
  PROVE  \A m \in 0 .. n : Unused(pool, take, m) = Unused(pool, other, m)
<1> SUFFICES ASSUME NEW m \in 0 .. n PROVE Unused(pool, take, m) = Unused(pool, other, m)
  OBVIOUS
<1>1. \A i \in 1 .. m : i \in 1 .. n
  OBVIOUS
<1> QED
  BY <1>1 DEF Unused

LEMMA TakesServe ==
  ASSUME NEW pool, NEW strata \in Seq(Stratum), NEW take
  PROVE  take \in Takes(pool, strata, "identity") <=>
           /\ take \in [1 .. Len(strata) -> SUBSET pool]
           /\ \A n \in 1 .. Len(strata) : Serves(pool, strata, take, n)
<1>1. DOMAIN strata = 1 .. Len(strata)
  OBVIOUS
<1> QED
  BY <1>1, Zenon DEF Takes, Serves, Tagged

(* How a draw from the pool keeps step with a draw `more` from the pool and *)
(* the question z: as long as no quota fell short, one question more is     *)
(* left over there.                                                         *)
Keeps(P, z, strata, more, take, n) ==
  /\ take \in [1 .. Len(strata) -> SUBSET P]
  /\ \A m \in 1 .. n : Serves(P, strata, take, m)
  /\ NoneShort(strata, take, n) =>
       /\ NoneShort(strata, more, n)
       /\ \E w : /\ w \notin Unused(P, take, n)
                 /\ Unused(P \cup {z}, more, n) = Unused(P, take, n) \cup {w}

(* The next stratum.                                                        *)
LEMMA NextStratum ==
  ASSUME NEW P, NEW z, Lawful(P \cup {z}), NEW strata \in Seq(Stratum),
         NEW more \in Takes(P \cup {z}, strata, "identity"),
         NEW n \in Nat, n + 1 <= Len(strata), NEW take, Keeps(P, z, strata, more, take, n)
  PROVE  \E next : Keeps(P, z, strata, more, next, n + 1)
<1> DEFINE U == Unused(P, take, n)
           V == Unused(P \cup {z}, more, n)
           T == Tagged(U, strata[n + 1].tag)
           c == strata[n + 1].count
           with(F) == [take EXCEPT ![n + 1] = F]
<1>1. /\ Len(strata) \in Nat /\ n + 1 \in 1 .. Len(strata) /\ c \in Nat
      /\ U \in SUBSET P /\ T \in SUBSET U /\ V \in SUBSET (P \cup {z})
  <2>1. Len(strata) \in Nat /\ n + 1 \in 1 .. Len(strata)
    OBVIOUS
  <2>2. strata[n + 1] \in Stratum
    BY <2>1
  <2>3. c \in Nat
    BY <2>2 DEF Stratum
  <2>4. U \in SUBSET P /\ V \in SUBSET (P \cup {z})
    BY UnusedFacts
  <2>5. T \in SUBSET U
    BY DEF Tagged
  <2> QED
    BY <2>1, <2>3, <2>4, <2>5
<1> HIDE DEF U, V, T, c, with
<1>2. Lawful(P) /\ Lawful(U) /\ Lawful(T) /\ Lawful(V) /\ IsFiniteSet(T) /\ Cardinality(T) \in Nat
  <2>1. Lawful(P)
    BY LawfulSubset
  <2>2. Lawful(U) /\ Lawful(V)
    BY <1>1, <2>1, LawfulSubset
  <2> QED
    BY <1>1, <2>1, <2>2, LawfulSubset DEF Lawful
<1>3. /\ take \in [1 .. Len(strata) -> SUBSET P]
      /\ \A m \in 1 .. n : Serves(P, strata, take, m)
  BY DEF Keeps
<1>4. ASSUME NEW F \in Pick("identity", c, T)
      PROVE  /\ with(F) \in [1 .. Len(strata) -> SUBSET P]
             /\ \A m \in 1 .. n : with(F)[m] = take[m]
             /\ with(F)[n + 1] = F
             /\ \A m \in 1 .. n + 1 : Serves(P, strata, with(F), m)
             /\ Unused(P, with(F), n + 1) = U \ F
  <2>1. F \in SUBSET P
    BY <1>1, <1>2, FirstOnes
  <2>2. /\ with(F) \in [1 .. Len(strata) -> SUBSET P] /\ with(F)[n + 1] = F
        /\ \A m \in 1 .. n : with(F)[m] = take[m]
    BY <1>1, <1>3, <2>1 DEF with
  <2>3. \A m \in 0 .. n : Unused(P, with(F), m) = Unused(P, take, m)
    BY <2>2, UnusedSame
  <2>4. ASSUME NEW m \in 1 .. n PROVE Serves(P, strata, with(F), m)
    <3>1. m - 1 \in 0 .. n /\ with(F)[m] = take[m] /\ Serves(P, strata, take, m)
      BY <1>3, <2>2
    <3> QED
      BY <2>3, <3>1 DEF Serves
  <2>5. Serves(P, strata, with(F), n + 1)
    <3>1. (n + 1) - 1 = n /\ n \in 0 .. n
      OBVIOUS
    <3> QED
      BY <2>2, <2>3, <3>1 DEF Serves, T, U, c
  <2>6. Unused(P, with(F), n + 1) = U \ F
    <3>1. n \in 0 .. n
      OBVIOUS
    <3>2. Unused(P, with(F), n + 1) = Unused(P, with(F), n) \ with(F)[n + 1]
      BY UnusedFacts
    <3> QED
      BY <2>2, <2>3, <3>1, <3>2 DEF U
  <2>7. \A m \in 1 .. n + 1 : m \in 1 .. n \/ m = n + 1
    OBVIOUS
  <2> QED
    BY <2>2, <2>4, <2>5, <2>6, <2>7
<1>5. /\ Serves(P \cup {z}, strata, more, n + 1)
      /\ Unused(P \cup {z}, more, n + 1) = V \ more[n + 1]
      /\ more[n + 1] \in Pick("identity", c, Tagged(V, strata[n + 1].tag))
  <2>1. Serves(P \cup {z}, strata, more, n + 1)
    BY <1>1, TakesServe
  <2>2. (n + 1) - 1 = n
    OBVIOUS
  <2> QED
    BY <2>1, <2>2, UnusedFacts DEF Serves, V, c
<1>6. CASE NoneShort(strata, take, n) /\ c <= Cardinality(T)
  <2>1. PICK w : w \notin U /\ V = U \cup {w}
    BY <1>6 DEF Keeps, U, V
  <2>2. NoneShort(strata, more, n)
    BY <1>6 DEF Keeps
  <2> DEFINE G == more[n + 1]
             R == Tagged(V, strata[n + 1].tag)
  <2>a. G \in Pick("identity", c, R) /\ (R = T \/ R = T \cup {w}) /\ (R = T \cup {w} => w \notin T)
    BY <1>1, <1>5, <2>1 DEF Tagged, T
  <2>b. R \in SUBSET V /\ T \in SUBSET R /\ Lawful(R)
    <3>1. R \in SUBSET V /\ T \in SUBSET R
      BY <2>1 DEF Tagged, T
    <3> QED
      BY <1>2, <3>1, LawfulSubset
  <2> HIDE DEF G, R
  <2>3. \E F \in Pick("identity", c, T), v \in V \ G : v \notin U \ F /\ V \ G = (U \ F) \cup {v}
    <3>1. CASE R = T
      <4>1. G \in Pick("identity", c, T)
        BY <2>a, <3>1
      <4>2. G \in SUBSET T
        BY <1>1, <1>2, <4>1, FirstOnes
      <4>3. w \in V \ G /\ w \notin U \ G /\ V \ G = (U \ G) \cup {w}
        BY <1>1, <2>1, <4>2
      <4> QED
        BY <4>1, <4>3
    <3>2. CASE R = T \cup {w}
      <4>1. w \notin T /\ Lawful(T \cup {w}) /\ G \in Pick("identity", c, T \cup {w})
        BY <2>a, <2>b, <3>2
      <4>2. PICK F \in Pick("identity", c, T), v \in (T \cup {w}) \ G :
               v \notin T \ F /\ (T \cup {w}) \ G = (T \ F) \cup {v}
        BY <1>1, <1>6, <4>1, PickShifts
      <4>3. F \in SUBSET T /\ G \in SUBSET (T \cup {w})
        BY <1>1, <1>2, <4>1, <4>2, FirstOnes
      <4>4. V \ G = (U \ F) \cup {v} /\ v \in V \ G /\ v \notin U \ F
        BY <1>1, <2>1, <4>1, <4>2, <4>3
      <4> QED
        BY <4>2, <4>4
    <3> QED
      BY <2>a, <3>1, <3>2
  <2>4. PICK F \in Pick("identity", c, T), v \in V \ G : v \notin U \ F /\ V \ G = (U \ F) \cup {v}
    BY <2>3
  <2>5. Cardinality(G) >= c
    <3>1. Cardinality(T) <= Cardinality(R) /\ Cardinality(R) \in Nat
      BY <2>b, LawfulSubset, FS_Subset DEF Lawful
    <3>2. Cardinality(G) = Least(c, Cardinality(R))
      BY <1>1, <2>a, <2>b, FirstOnes
    <3> QED
      BY <1>1, <1>2, <1>6, <3>1, <3>2 DEF Least
  <2>6. NoneShort(strata, more, n + 1)
    <3>1. \A m \in 1 .. n + 1 : m \in 1 .. n \/ m = n + 1
      OBVIOUS
    <3> QED
      BY <2>2, <2>5, <3>1 DEF NoneShort, c, G
  <2>7. Keeps(P, z, strata, more, with(F), n + 1)
    BY <1>4, <1>5, <2>4, <2>6 DEF Keeps, G
  <2> QED
    BY <2>7
<1>7. CASE ~ (NoneShort(strata, take, n) /\ c <= Cardinality(T))
  <2>1. PICK F : F \in Pick("identity", c, T)
    BY <1>1, <1>2, PickExists
  <2>2. Cardinality(F) = Least(c, Cardinality(T))
    BY <1>1, <1>2, <2>1, FirstOnes
  <2>3. ~ NoneShort(strata, with(F), n + 1)
    <3>1. CASE ~ NoneShort(strata, take, n)
      <4>1. PICK m \in 1 .. n : ~ (Cardinality(take[m]) >= strata[m].count)
        BY <3>1 DEF NoneShort
      <4>2. with(F)[m] = take[m] /\ m \in 1 .. n + 1
        BY <1>4, <2>1
      <4> QED
        BY <4>1, <4>2 DEF NoneShort
    <3>2. CASE ~ (c <= Cardinality(T))
      <4>1. ~ (Cardinality(F) >= c)
        BY <1>1, <1>2, <2>2, <3>2 DEF Least
      <4>2. with(F)[n + 1] = F /\ n + 1 \in 1 .. n + 1
        BY <1>4, <2>1
      <4> QED
        BY <4>1, <4>2 DEF NoneShort, c
    <3> QED
      BY <1>7, <3>1, <3>2
  <2>4. Keeps(P, z, strata, more, with(F), n + 1)
    BY <1>4, <2>1, <2>3 DEF Keeps
  <2> QED
    BY <2>4
<1> QED
  BY <1>6, <1>7

LEMMA DrawKeepsStep ==
  ASSUME NEW P, NEW z, Lawful(P \cup {z}), z \notin P, NEW strata \in Seq(Stratum),
         NEW more \in Takes(P \cup {z}, strata, "identity")
  PROVE  \E take : Keeps(P, z, strata, more, take, Len(strata))
<1> DEFINE Bad == {n \in 0 .. Len(strata) : ~ \E take : Keeps(P, z, strata, more, take, n)}
<1>0. Len(strata) \in Nat
  OBVIOUS
<1>1. SUFFICES ASSUME Bad # {} PROVE FALSE
  BY <1>0
<1>2. PICK n \in Bad : \A k \in Bad : n <= k
  <2>1. Bad \in SUBSET Nat
    BY <1>0
  <2> HIDE DEF Bad
  <2> QED
    BY <1>1, <2>1, LeastExists
<1>3. n \in 0 .. Len(strata) /\ ~ \E take : Keeps(P, z, strata, more, take, n)
  BY DEF Bad
<1>4. n # 0
  <2> DEFINE none == [m \in 1 .. Len(strata) |-> {}]
  <2>1. none \in [1 .. Len(strata) -> SUBSET P]
    OBVIOUS
  <2> HIDE DEF none
  <2>2. Unused(P, none, 0) = P /\ Unused(P \cup {z}, more, 0) = P \cup {z}
    BY UnusedFacts
  <2>3. \A m \in 1 .. 0 : FALSE
    OBVIOUS
  <2>4. Keeps(P, z, strata, more, none, 0)
    BY <2>1, <2>2, <2>3 DEF Keeps, NoneShort
  <2> QED
    BY <1>3, <2>4
<1>5. n - 1 \in 0 .. Len(strata) /\ n - 1 \in Nat /\ (n - 1) + 1 = n /\ n <= Len(strata) /\ ~ (n <= n - 1)
  BY <1>0, <1>3, <1>4
<1>6. PICK take : Keeps(P, z, strata, more, take, n - 1)
  BY <1>2, <1>5
<1> HIDE DEF Bad
<1> DEFINE k == n - 1
<1>7. k \in Nat /\ k + 1 = n /\ k + 1 <= Len(strata) /\ Keeps(P, z, strata, more, take, k)
  BY <1>5, <1>6
<1> HIDE DEF k
<1>8. \E next : Keeps(P, z, strata, more, next, k + 1)
  BY <1>7, NextStratum
<1> QED
  BY <1>3, <1>7, <1>8

(* There is something to fill up with, if only nothing.                     *)
LEMMA FillExists ==
  ASSUME NEW unused, Lawful(unused), NEW s \in SectionType, NEW n \in Nat
  PROVE  Fill(s, unused, n, "identity") # {}
<1> DEFINE free == {q \in unused : q.tags \cap exactKeys(s) = {}}
<1>1. s.drawCount \in Nat
  BY DEF SectionType
<1>2. free \in SUBSET unused
  OBVIOUS
<1>3. Fill(s, unused, n, "identity") =
        IF s.drawCount > n THEN Pick("identity", s.drawCount - n, free) ELSE {{}}
  BY DEF Fill
<1> HIDE DEF free
<1>4. Lawful(free)
  BY <1>2, LawfulSubset
<1>5. CASE s.drawCount > n
  <2>1. s.drawCount - n \in Nat
    BY <1>1, <1>5
  <2> QED
    BY <1>3, <1>4, <1>5, <2>1, PickExists
<1>6. CASE ~ (s.drawCount > n)
  BY <1>3, <1>6
<1> QED
  BY <1>5, <1>6

-----------------------------------------------------------------------------
(* Filters, blocks and sums: the recursive functions of Draw, unfolded.     *)

LEMMA Induct ==
  ASSUME NEW N \in Nat, NEW B \in SUBSET (0 .. N), 0 \in B, \A n \in 1 .. N : n - 1 \in B => n \in B
  PROVE  \A n \in 0 .. N : n \in B
<1> DEFINE Bad == (0 .. N) \ B
<1> SUFFICES ASSUME Bad # {} PROVE FALSE
  OBVIOUS
<1>1. Bad \in SUBSET Nat
  OBVIOUS
<1>2. PICK n \in Bad : \A k \in Bad : n <= k
  <2> HIDE DEF Bad
  <2> QED
    BY <1>1, LeastExists
<1>3. n \in 1 .. N /\ n - 1 \notin Bad /\ n - 1 \in 0 .. N
  BY <1>2
<1> QED
  BY <1>2, <1>3

(* A function of the steps 0 .. N that starts with a and goes on by h.      *)
LEMMA Unfolds ==
  ASSUME NEW X, NEW a \in X, NEW N \in Nat, NEW h \in [1 .. N -> [X -> X]]
  PROVE  \E f \in [0 .. N -> X] : f[0] = a /\ \A n \in 1 .. N : f[n] = h[n][f[n - 1]]
<1> DEFINE Runs(f, k) == f[0] = a /\ \A n \in 1 .. k : f[n] = h[n][f[n - 1]]
           B == {k \in 0 .. N : \E f \in [0 .. k -> X] : Runs(f, k)}
<1>1. 0 \in B
  <2> DEFINE f == [n \in 0 .. 0 |-> a]
  <2>1. f \in [0 .. 0 -> X] /\ Runs(f, 0) /\ 0 \in 0 .. N
    OBVIOUS
  <2> HIDE DEF f, Runs
  <2> QED
    BY <2>1
<1>2. ASSUME NEW k \in 1 .. N, k - 1 \in B PROVE k \in B
  <2>1. PICK f \in [0 .. k - 1 -> X] : Runs(f, k - 1)
    BY <1>2
  <2> DEFINE g == [n \in 0 .. k |-> IF n = k THEN h[k][f[k - 1]] ELSE f[n]]
  <2>2. h[k] \in [X -> X] /\ f[k - 1] \in X
    BY <2>1
  <2>3. g \in [0 .. k -> X]
    BY <2>1, <2>2
  <2>4. \A n \in 0 .. k - 1 : g[n] = f[n]
    OBVIOUS
  <2>5. g[k] = h[k][f[k - 1]]
    OBVIOUS
  <2> HIDE DEF g
  <2>6. Runs(g, k)
    <3>1. g[0] = a
      BY <2>1, <2>4
    <3>2. ASSUME NEW n \in 1 .. k PROVE g[n] = h[n][g[n - 1]]
      <4>1. CASE n = k
        BY <2>4, <2>5, <4>1
      <4>2. CASE n # k
        <5>1. n \in 1 .. k - 1 /\ n \in 0 .. k - 1 /\ n - 1 \in 0 .. k - 1
          BY <4>2
        <5> QED
          BY <2>1, <2>4, <5>1
      <4> QED
        BY <4>1, <4>2
    <3> QED
      BY <3>1, <3>2
  <2> QED
    BY <2>3, <2>6
<1>3. N \in B
  <2>1. B \in SUBSET (0 .. N)
    OBVIOUS
  <2> HIDE DEF B
  <2>2. \A n \in 0 .. N : n \in B
    BY <1>1, <1>2, <2>1, Induct
  <2> QED
    BY <2>2
<1> QED
  BY <1>3

(* Functions that start alike and go on alike are alike.                    *)
LEMMA Alike ==
  ASSUME NEW N \in Nat, NEW f, NEW g, f[0] = g[0], \A n \in 1 .. N : f[n - 1] = g[n - 1] => f[n] = g[n]
  PROVE  \A n \in 0 .. N : f[n] = g[n]
<1> DEFINE B == {n \in 0 .. N : f[n] = g[n]}
<1>1. B \in SUBSET (0 .. N) /\ 0 \in B /\ \A n \in 1 .. N : n - 1 \in B => n \in B
  OBVIOUS
<1>2. \A n \in 0 .. N : n \in B
  <2> HIDE DEF B
  <2> QED
    BY <1>1, Induct
<1> QED
  BY <1>2

(* Filters.                                                                 *)
Kept(f, s, S) ==
  f[0] = <<>> /\ \A n \in 1 .. Len(s) : f[n] = IF s[n] \in S THEN Append(f[n - 1], s[n]) ELSE f[n - 1]

LEMMA KeptExists ==
  ASSUME NEW V, NEW s \in Seq(V), NEW S
  PROVE  \E f \in [0 .. Len(s) -> Seq(V)] : Kept(f, s, S)
<1> DEFINE X == Seq(V)
           h == [n \in 1 .. Len(s) |-> [x \in X |-> IF s[n] \in S THEN Append(x, s[n]) ELSE x]]
<1>1. Len(s) \in Nat /\ <<>> \in X
  OBVIOUS
<1>2. \A n \in 1 .. Len(s) : s[n] \in V
  OBVIOUS
<1>3. \A n \in 1 .. Len(s), x \in X : Append(x, s[n]) \in X
  BY <1>2
<1>4. h \in [1 .. Len(s) -> [X -> X]]
  <2> HIDE DEF X
  <2> QED
    BY <1>3
<1>5. \A n \in 1 .. Len(s), x \in X : h[n][x] = IF s[n] \in S THEN Append(x, s[n]) ELSE x
  OBVIOUS
<1> DEFINE N == Len(s)
           a == <<>>
<1> HIDE DEF h, X
<1>6. PICK f \in [0 .. Len(s) -> X] : f[0] = <<>> /\ \A n \in 1 .. Len(s) : f[n] = h[n][f[n - 1]]
  <2>1. N \in Nat /\ a \in X /\ h \in [1 .. N -> [X -> X]]
    BY <1>1, <1>4
  <2> HIDE DEF N, a
  <2>2. \E f \in [0 .. N -> X] : f[0] = a /\ \A n \in 1 .. N : f[n] = h[n][f[n - 1]]
    BY <2>1, Unfolds
  <2> QED
    BY <2>2 DEF N, a
<1>7. \A n \in 1 .. Len(s) : f[n - 1] \in X
  BY <1>1, <1>6
<1>8. Kept(f, s, S)
  BY <1>5, <1>6, <1>7 DEF Kept
<1> QED
  BY <1>6, <1>8 DEF X

(* filter, whatever function does its work.                                 *)
LEMMA OnlyIs ==
  ASSUME NEW V, NEW s \in Seq(V), NEW S, NEW f, Kept(f, s, S)
  PROVE  Only(s, S) = f[Len(s)]
<1> DEFINE N == Len(s)
           Is(k) == k = [n \in 0 .. N |-> IF n = 0 THEN <<>>
                                          ELSE IF s[n] \in S THEN Append(k[n - 1], s[n]) ELSE k[n - 1]]
           kept == CHOOSE k : Is(k)
<1>0. N \in Nat
  OBVIOUS
<1>1. Only(s, S) = kept[N]
  BY Zenon DEF Only
<1> HIDE DEF N
<1>2. PICK g \in [0 .. N -> Seq(V)] : Kept(g, s, S)
  BY KeptExists DEF N
<1>3. Is(g)
  <2> DEFINE r == [n \in 0 .. N |-> IF n = 0 THEN <<>>
                                   ELSE IF s[n] \in S THEN Append(g[n - 1], s[n]) ELSE g[n - 1]]
  <2>1. /\ g[0] = <<>> /\ g = [n \in 0 .. N |-> g[n]]
        /\ \A n \in 1 .. N : g[n] = IF s[n] \in S THEN Append(g[n - 1], s[n]) ELSE g[n - 1]
    BY <1>2 DEF Kept, N
  <2>2. \A n \in 0 .. N : n = 0 \/ n \in 1 .. N
    BY <1>0
  <2>3. \A n \in 0 .. N : g[n] = IF n = 0 THEN <<>>
                                  ELSE IF s[n] \in S THEN Append(g[n - 1], s[n]) ELSE g[n - 1]
    BY <2>1, <2>2
  <2>4. [n \in 0 .. N |-> g[n]] = r
    BY <2>3
  <2> QED
    BY <2>1, <2>4, Zenon
<1>4. Is(kept)
  <2> HIDE DEF Is
  <2> QED
    BY <1>3
<1> HIDE DEF kept
<1>5. \A n \in 0 .. N : kept[n] = IF n = 0 THEN <<>>
                                  ELSE IF s[n] \in S THEN Append(kept[n - 1], s[n]) ELSE kept[n - 1]
  BY <1>4
<1> HIDE DEF Is
<1>6. kept[0] = f[0] /\ \A n \in 1 .. N : kept[n - 1] = f[n - 1] => kept[n] = f[n]
  BY <1>0, <1>5 DEF Kept, N
<1>7. \A n \in 0 .. N : kept[n] = f[n]
  BY <1>0, <1>6, Alike
<1> QED
  BY <1>0, <1>1, <1>7 DEF N

LEMMA OnlyType ==
  ASSUME NEW V, NEW s \in Seq(V), NEW S
  PROVE  Only(s, S) \in Seq(V)
<1>1. PICK f \in [0 .. Len(s) -> Seq(V)] : Kept(f, s, S)
  BY KeptExists
<1>2. Only(s, S) = f[Len(s)] /\ Len(s) \in 0 .. Len(s)
  BY <1>1, OnlyIs
<1> QED
  BY <1>1, <1>2

(* All of it, nothing of it, and what comes to the same.                    *)
LEMMA OnlyAll ==
  ASSUME NEW V, NEW s \in Seq(V), NEW S, ToSet(s) \subseteq S
  PROVE  Only(s, S) = s
<1> DEFINE f == [n \in 0 .. Len(s) |-> SubSeq(s, 1, n)]
<1>0. Len(s) \in Nat
  OBVIOUS
<1>1. f[0] = <<>>
  BY <1>0, SubSeqEmpty
<1>2. ASSUME NEW n \in 1 .. Len(s) PROVE f[n] = Append(f[n - 1], s[n]) /\ s[n] \in S
  <2>1. n \in 1 .. Len(s) /\ 1 \in 1 .. Len(s) /\ n - 1 \in 0 .. Len(s) /\ s[n] \in V
    BY <1>0
  <2>2. SubSeq(s, 1, n) = SubSeq(s, 1, n - 1) \o <<s[n]>>
    BY <2>1, SubSeqRecursiveSecond
  <2>3. SubSeq(s, 1, n - 1) \in Seq(V)
    BY <1>0, <2>1, SubSeqProperties
  <2>4. Append(SubSeq(s, 1, n - 1), s[n]) = SubSeq(s, 1, n - 1) \o <<s[n]>>
    BY <2>1, <2>3, AppendIsConcat
  <2>5. s[n] \in S
    BY DEF ToSet
  <2> QED
    BY <2>1, <2>2, <2>4, <2>5
<1>3. f[Len(s)] = s
  BY <1>0, SubSeqFull
<1> HIDE DEF f
<1>4. Kept(f, s, S)
  BY <1>1, <1>2 DEF Kept
<1> QED
  BY <1>3, <1>4, OnlyIs

LEMMA OnlyNone ==
  ASSUME NEW V, NEW s \in Seq(V), NEW S, ToSet(s) \cap S = {}
  PROVE  Only(s, S) = <<>>
<1> DEFINE f == [n \in 0 .. Len(s) |-> <<>>]
<1>1. \A n \in 1 .. Len(s) : s[n] \notin S
  BY DEF ToSet
<1>2. f[Len(s)] = <<>> /\ Kept(f, s, S)
  BY <1>1 DEF Kept
<1> QED
  BY <1>2, OnlyIs

LEMMA OnlySame ==
  ASSUME NEW V, NEW s \in Seq(V), NEW S, NEW T, ToSet(s) \cap S = ToSet(s) \cap T
  PROVE  Only(s, S) = Only(s, T)
<1>1. PICK f \in [0 .. Len(s) -> Seq(V)] : Kept(f, s, S)
  BY KeptExists
<1>2. \A n \in 1 .. Len(s) : s[n] \in S <=> s[n] \in T
  BY DEF ToSet
<1>3. Kept(f, s, T)
  BY <1>1, <1>2 DEF Kept
<1> QED
  BY <1>1, <1>3, OnlyIs

(* What is kept, and that it is kept once.                                  *)
LEMMA OnlyKeeps ==
  ASSUME NEW V, NEW s \in Seq(V), NEW S
  PROVE  /\ ToSet(Only(s, S)) = ToSet(s) \cap S
         /\ IsInjective(s) => IsInjective(Only(s, S))
<1>0. Len(s) \in Nat /\ DOMAIN s = 1 .. Len(s)
  OBVIOUS
<1>1. PICK f \in [0 .. Len(s) -> Seq(V)] : Kept(f, s, S)
  BY KeptExists
<1> DEFINE B == {n \in 0 .. Len(s) : ToSet(f[n]) = {s[i] : i \in 1 .. n} \cap S
                                     /\ (IsInjective(s) => IsInjective(f[n]))}
<1>2. 0 \in B
  <2>1. f[0] = <<>> /\ 1 .. 0 = {}
    BY <1>1 DEF Kept
  <2> QED
    BY <1>0, <2>1 DEF ToSet, IsInjective
<1>3. ASSUME NEW n \in 1 .. Len(s), n - 1 \in B PROVE n \in B
  <2>1. /\ n - 1 \in 0 .. Len(s) /\ n \in 0 .. Len(s) /\ f[n - 1] \in Seq(V) /\ s[n] \in V
    BY <1>0, <1>1
  <2>10. n \in Nat /\ 1 .. n = (1 .. (n - 1)) \cup {n}
    BY <1>0
  <2>2. /\ ToSet(f[n - 1]) = {s[i] : i \in 1 .. (n - 1)} \cap S
        /\ IsInjective(s) => IsInjective(f[n - 1])
    BY <1>3
  <2>3. f[n] = IF s[n] \in S THEN Append(f[n - 1], s[n]) ELSE f[n - 1]
    BY <1>1 DEF Kept
  <2>4. CASE s[n] \notin S
    BY <2>1, <2>2, <2>3, <2>4, <2>10
  <2>5. CASE s[n] \in S
    <3> DEFINE u == f[n - 1]
               v == Append(u, s[n])
    <3>1. /\ v \in Seq(V) /\ Len(v) = Len(u) + 1 /\ Len(u) \in Nat
          /\ \A i \in 1 .. Len(u) : v[i] = u[i]
          /\ v[Len(u) + 1] = s[n]
          /\ DOMAIN u = 1 .. Len(u) /\ DOMAIN v = 1 .. (Len(u) + 1)
      BY <2>1, AppendProperties
    <3>2. ToSet(v) = ToSet(u) \cup {s[n]}
      <4> HIDE DEF u, v
      <4> QED
        BY <3>1 DEF ToSet
    <3>3. ASSUME IsInjective(s) PROVE IsInjective(v)
      <4>1. \A i \in 1 .. (n - 1) : s[i] # s[n]
        <5>1. \A i \in 1 .. (n - 1) : i \in DOMAIN s /\ n \in DOMAIN s /\ i # n
          BY <1>0
        <5> QED
          BY <3>3, <5>1 DEF IsInjective
      <4>2. s[n] \notin ToSet(u)
        BY <2>2, <4>1
      <4>3. \A i \in 1 .. Len(u) : u[i] # s[n]
        <5> HIDE DEF u
        <5> QED
          BY <3>1, <4>2 DEF ToSet
      <4>4. \A i, j \in 1 .. Len(u) : u[i] = u[j] => i = j
        BY <2>2, <3>1, <3>3 DEF IsInjective
      <4> HIDE DEF u, v
      <4> QED
        BY <3>1, <4>3, <4>4 DEF IsInjective
    <3>4. f[n] = v
      BY <2>3, <2>5
    <3> HIDE DEF v
    <3>5. ToSet(f[n]) = {s[i] : i \in 1 .. n} \cap S
      BY <2>1, <2>2, <2>5, <2>10, <3>2, <3>4
    <3> QED
      BY <2>1, <3>3, <3>4, <3>5
  <2> QED
    BY <2>4, <2>5
<1>4. \A n \in 0 .. Len(s) : n \in B
  <2>1. B \in SUBSET (0 .. Len(s))
    OBVIOUS
  <2> HIDE DEF B
  <2> QED
    BY <1>0, <1>2, <1>3, <2>1, Induct
<1>5. Only(s, S) = f[Len(s)] /\ Len(s) \in 0 .. Len(s)
  BY <1>0, <1>1, OnlyIs
<1> QED
  BY <1>0, <1>4, <1>5 DEF ToSet

LEMMA OnlyConcat ==
  ASSUME NEW V, NEW u \in Seq(V), NEW v \in Seq(V), NEW S
  PROVE  Only(u \o v, S) = Only(u, S) \o Only(v, S)
<1> DEFINE m == Len(u)
           k == Len(v)
           w == u \o v
<1>1. /\ m \in Nat /\ k \in Nat /\ w \in Seq(V) /\ Len(w) = m + k
      /\ \A i \in 1 .. m : w[i] = u[i]
      /\ \A i \in 1 .. k : w[m + i] = v[i]
  <2>1. w \in Seq(V) /\ Len(w) = m + k /\ \A i \in 1 .. m + k : w[i] = IF i <= m THEN u[i] ELSE v[i - m]
    BY ConcatProperties
  <2>2. m \in Nat /\ k \in Nat
    OBVIOUS
  <2> HIDE DEF m, k, w
  <2> QED
    BY <2>1, <2>2
<1>2. PICK f \in [0 .. m -> Seq(V)] : Kept(f, u, S)
  BY KeptExists
<1>3. PICK g \in [0 .. k -> Seq(V)] : Kept(g, v, S)
  BY KeptExists
<1> DEFINE e == [n \in 0 .. m + k |-> IF n <= m THEN f[n] ELSE f[m] \o g[n - m]]
<1>4. Only(u, S) = f[m] /\ Only(v, S) = g[k]
  BY <1>2, <1>3, OnlyIs
<1>5. /\ f[m] \in Seq(V) /\ \A i \in 0 .. k : g[i] \in Seq(V)
      /\ \A i \in 1 .. k : v[i] \in V
  <2>1. \A i \in 1 .. k : v[i] \in V
    OBVIOUS
  <2>2. m \in 0 .. m
    BY <1>1
  <2> QED
    BY <1>2, <1>3, <2>1, <2>2
<1>6. g[0] = <<>> /\ f[m] \o g[0] = f[m]
  BY <1>3, <1>5, ConcatEmptySeq DEF Kept
<1>7. /\ \A n \in 0 .. m : e[n] = f[n]
      /\ \A i \in 0 .. k : e[m + i] = f[m] \o g[i]
  <2>1. \A n \in 0 .. m : e[n] = f[n]
    BY <1>1
  <2>2. ASSUME NEW i \in 0 .. k PROVE e[m + i] = f[m] \o g[i]
    <3>1. CASE i = 0
      <4>1. m + i = m /\ m \in 0 .. m
        BY <1>1, <3>1
      <4> QED
        BY <1>6, <2>1, <3>1, <4>1
    <3>2. CASE i # 0
      <4>1. ~ (m + i <= m) /\ m + i - m = i /\ m + i \in 0 .. m + k
        BY <1>1, <3>2
      <4> QED
        BY <4>1
    <3> QED
      BY <3>1, <3>2
  <2> QED
    BY <2>1, <2>2
<1>8. /\ f[0] = <<>>
      /\ \A n \in 1 .. m : f[n] = IF u[n] \in S THEN Append(f[n - 1], u[n]) ELSE f[n - 1]
      /\ \A n \in 1 .. k : g[n] = IF v[n] \in S THEN Append(g[n - 1], v[n]) ELSE g[n - 1]
  BY <1>2, <1>3 DEF Kept
<1> HIDE DEF e, m, k, w
<1>9. ASSUME NEW i \in 1 .. k
      PROVE  f[m] \o g[i] = IF v[i] \in S THEN Append(f[m] \o g[i - 1], v[i]) ELSE f[m] \o g[i - 1]
  <2>1. CASE v[i] \notin S
    BY <1>8, <2>1
  <2>2. CASE v[i] \in S
    <3>1. i - 1 \in 0 .. k /\ g[i - 1] \in Seq(V) /\ v[i] \in V /\ <<v[i]>> \in Seq(V)
      BY <1>1, <1>5
    <3>2. g[i] = g[i - 1] \o <<v[i]>>
      BY <1>8, <2>2, <3>1, AppendIsConcat
    <3>3. f[m] \o g[i - 1] \in Seq(V)
      BY <1>5, <3>1, ConcatProperties
    <3>4. Append(f[m] \o g[i - 1], v[i]) = (f[m] \o g[i - 1]) \o <<v[i]>>
      BY <3>1, <3>3, AppendIsConcat
    <3>5. (f[m] \o g[i - 1]) \o <<v[i]>> = f[m] \o (g[i - 1] \o <<v[i]>>)
      <4> DEFINE x == f[m]
                 y == g[i - 1]
                 z == <<v[i]>>
      <4>1. x \in Seq(V) /\ y \in Seq(V) /\ z \in Seq(V)
        BY <1>5, <3>1
      <4> HIDE DEF x, y, z
      <4>2. (x \o y) \o z = x \o (y \o z)
        BY <4>1, ConcatAssociative
      <4> QED
        BY <4>2 DEF x, y, z
    <3> QED
      BY <2>2, <3>2, <3>4, <3>5
  <2> QED
    BY <2>1, <2>2
<1>10. ASSUME NEW n \in 1 .. Len(w)
       PROVE  e[n] = IF w[n] \in S THEN Append(e[n - 1], w[n]) ELSE e[n - 1]
  <2>1. CASE n <= m
    <3>1. n \in 1 .. m /\ n \in 0 .. m /\ n - 1 \in 0 .. m
      BY <1>1, <2>1
    <3> QED
      BY <1>1, <1>7, <1>8, <3>1
  <2>2. CASE ~ (n <= m)
    <3> DEFINE i == n - m
    <3>1. i \in 1 .. k /\ i \in 0 .. k /\ i - 1 \in 0 .. k /\ n = m + i /\ n - 1 = m + (i - 1)
      BY <1>1, <2>2
    <3> HIDE DEF i
    <3>2. e[n] = f[m] \o g[i] /\ e[n - 1] = f[m] \o g[i - 1] /\ w[n] = v[i]
      BY <1>1, <1>7, <3>1
    <3> QED
      BY <1>9, <3>1, <3>2
  <2> QED
    BY <2>1, <2>2
<1>11. e[0] = <<>> /\ e[Len(w)] = f[m] \o g[k]
  <2>1. 0 \in 0 .. m /\ k \in 0 .. k
    BY <1>1
  <2> QED
    BY <1>1, <1>7, <1>8, <2>1
<1>12. Kept(e, w, S)
  BY <1>10, <1>11 DEF Kept
<1>13. Only(w, S) = e[Len(w)]
  BY <1>1, <1>12, OnlyIs
<1> QED
  BY <1>4, <1>11, <1>13 DEF w

(* Blocks laid one after the other.                                         *)
Joined(f, b) == f[0] = <<>> /\ \A n \in 1 .. Len(b) : f[n] = f[n - 1] \o b[n]

LEMMA JoinedExists ==
  ASSUME NEW V, NEW b \in Seq(Seq(V))
  PROVE  \E f \in [0 .. Len(b) -> Seq(V)] : Joined(f, b)
<1> DEFINE X == Seq(V)
           N == Len(b)
           a == <<>>
           h == [n \in 1 .. N |-> [x \in X |-> x \o b[n]]]
<1>1. N \in Nat /\ a \in X /\ \A n \in 1 .. N : b[n] \in X
  OBVIOUS
<1>2. \A n \in 1 .. N, x \in X : x \o b[n] \in X
  BY <1>1, ConcatProperties
<1>3. h \in [1 .. N -> [X -> X]] /\ \A n \in 1 .. N, x \in X : h[n][x] = x \o b[n]
  <2> HIDE DEF X, N
  <2> QED
    BY <1>2
<1> HIDE DEF X, N, a, h
<1>4. \E f \in [0 .. N -> X] : f[0] = a /\ \A n \in 1 .. N : f[n] = h[n][f[n - 1]]
  <2>1. N \in Nat /\ a \in X /\ h \in [1 .. N -> [X -> X]]
    BY <1>1, <1>3
  <2> QED
    BY <2>1, Unfolds, Z3
<1>40. PICK f \in [0 .. N -> X] : f[0] = a /\ \A n \in 1 .. N : f[n] = h[n][f[n - 1]]
  BY <1>4
<1>5. \A n \in 1 .. N : n - 1 \in 0 .. N
  BY <1>1
<1>6. Joined(f, b)
  BY <1>3, <1>40, <1>5 DEF Joined, N, a
<1> QED
  BY <1>40, <1>6 DEF X, N

LEMMA FlattenIs ==
  ASSUME NEW V, NEW b \in Seq(Seq(V)), NEW f \in [0 .. Len(b) -> Seq(V)], Joined(f, b)
  PROVE  FlattenSeq(b) = f[Len(b)]
<1> DEFINE N == Len(b)
           Is(k) == k = [i \in 1 .. N |-> IF i = 1 THEN b[i] ELSE k[i - 1] \o b[i]]
           flatten == CHOOSE k : Is(k)
<1>0. N \in Nat
  OBVIOUS
<1>1. CASE N = 0
  <2>1. b = <<>>
    BY <1>1
  <2> QED
    BY <1>1, <2>1 DEF FlattenSeq, Joined
<1>2. CASE N # 0
  <2>1. FlattenSeq(b) = flatten[N]
    BY <1>2, Zenon DEF FlattenSeq
  <2> DEFINE g == [i \in 1 .. N |-> f[i]]
  <2>2. /\ \A i \in 1 .. N : f[i] = f[i - 1] \o b[i]
        /\ f[0] = <<>> /\ f[0] \o b[1] = b[1]
    <3>1. 1 \in 1 .. N /\ b[1] \in Seq(V)
      BY <1>0, <1>2
    <3> QED
      BY <3>1, ConcatEmptySeq DEF Joined
  <2>3. Is(g)
    <3> DEFINE r == [i \in 1 .. N |-> IF i = 1 THEN b[i] ELSE g[i - 1] \o b[i]]
    <3> HIDE DEF N
    <3>1. ASSUME NEW i \in 1 .. N PROVE f[i] = IF i = 1 THEN b[i] ELSE g[i - 1] \o b[i]
      <4>1. CASE i = 1
        <5>1. f[1] = f[0] \o b[1]
          <6>1. 1 \in 1 .. N /\ 1 - 1 = 0
            BY <4>1
          <6> QED
            BY <2>2, <6>1
        <5> QED
          BY <2>2, <4>1, <5>1
      <4>2. CASE i # 1
        <5>1. i - 1 \in 1 .. N
          BY <1>0, <4>2
        <5>2. g[i - 1] = f[i - 1]
          BY <5>1
        <5> QED
          BY <2>2, <4>2, <5>2
      <4> QED
        BY <4>1, <4>2
    <3>2. g = r
      BY <3>1
    <3> QED
      BY <3>2, Zenon
  <2>4. Is(flatten)
    <3> HIDE DEF Is
    <3> QED
      BY <2>3
  <2> HIDE DEF flatten
  <2>5. \A i \in 1 .. N : flatten[i] = IF i = 1 THEN b[i] ELSE flatten[i - 1] \o b[i]
    BY <2>4
  <2> HIDE DEF Is, g
  <2> DEFINE F == [n \in 0 .. N |-> IF n = 0 THEN <<>> ELSE flatten[n]]
  <2> HIDE DEF N
  <2>6. F[0] = f[0] /\ \A n \in 1 .. N : F[n - 1] = f[n - 1] => F[n] = f[n]
    <3>1. F[0] = f[0]
      BY <1>0, <2>2
    <3>2. ASSUME NEW n \in 1 .. N, F[n - 1] = f[n - 1] PROVE F[n] = f[n]
      <4>1. F[n] = flatten[n]
        BY <1>0
      <4>2. CASE n = 1
        <5>1. f[1] = f[0] \o b[1]
          <6>1. 1 \in 1 .. N /\ 1 - 1 = 0
            BY <4>2
          <6> QED
            BY <2>2, <6>1
        <5> QED
          BY <2>2, <2>5, <4>1, <4>2, <5>1
      <4>3. CASE n # 1
        <5>1. n - 1 \in 0 .. N /\ n - 1 # 0
          BY <1>0, <4>3
        <5>2. F[n - 1] = flatten[n - 1]
          BY <5>1
        <5> QED
          BY <2>2, <2>5, <3>2, <4>1, <4>3, <5>2
      <4> QED
        BY <4>2, <4>3
    <3> QED
      BY <3>1, <3>2
  <2> DEFINE E == F
  <2>7. E[N] = f[N]
    <3>1. E[0] = f[0] /\ \A n \in 1 .. N : E[n - 1] = f[n - 1] => E[n] = f[n]
      BY <2>6
    <3> HIDE DEF E
    <3>2. \A n \in 0 .. N : E[n] = f[n]
      BY <1>0, <3>1, Alike
    <3> QED
      BY <1>0, <3>2
  <2>8. F[N] = flatten[N]
    BY <1>0, <1>2 DEF N
  <2> QED
    BY <2>1, <2>7, <2>8 DEF N
<1> QED
  BY <1>1, <1>2

(* Two sequences laid together.                                             *)
LEMMA TwoTogether ==
  ASSUME NEW V, NEW u \in Seq(V), NEW v \in Seq(V)
  PROVE  /\ u \o v \in Seq(V)
         /\ ToSet(u \o v) = ToSet(u) \cup ToSet(v)
         /\ IsInjective(u) /\ IsInjective(v) /\ ToSet(u) \cap ToSet(v) = {} => IsInjective(u \o v)
<1> DEFINE m == Len(u)
           k == Len(v)
           w == u \o v
<1>1. /\ m \in Nat /\ k \in Nat /\ w \in Seq(V) /\ Len(w) = m + k
      /\ \A i \in 1 .. m + k : w[i] = IF i <= m THEN u[i] ELSE v[i - m]
      /\ DOMAIN u = 1 .. m /\ DOMAIN v = 1 .. k /\ DOMAIN w = 1 .. m + k
  <2>1. w \in Seq(V) /\ Len(w) = m + k /\ \A i \in 1 .. m + k : w[i] = IF i <= m THEN u[i] ELSE v[i - m]
    BY ConcatProperties
  <2>2. m \in Nat /\ k \in Nat /\ DOMAIN u = 1 .. m /\ DOMAIN v = 1 .. k
    OBVIOUS
  <2>3. DOMAIN w = 1 .. Len(w)
    <3> HIDE DEF w
    <3> QED
      BY <2>1
  <2> HIDE DEF m, k, w
  <2> QED
    BY <2>1, <2>2, <2>3
<1> HIDE DEF m, k, w
<1>2. /\ \A i \in 1 .. m : i \in 1 .. m + k /\ w[i] = u[i]
      /\ \A j \in 1 .. k : m + j \in 1 .. m + k /\ w[m + j] = v[j]
      /\ \A i \in 1 .. m + k : i \in 1 .. m \/ (i - m \in 1 .. k /\ i = m + (i - m))
  BY <1>1
<1>3. ToSet(w) = ToSet(u) \cup ToSet(v)
  <2>1. \A x \in ToSet(w) : x \in ToSet(u) \cup ToSet(v)
    BY <1>1, <1>2 DEF ToSet
  <2>2. \A x \in ToSet(u) \cup ToSet(v) : x \in ToSet(w)
    <3>1. ASSUME NEW i \in 1 .. m PROVE u[i] \in ToSet(w)
      BY <1>1, <1>2 DEF ToSet
    <3>2. ASSUME NEW j \in 1 .. k PROVE v[j] \in ToSet(w)
      <4>1. m + j \in DOMAIN w /\ w[m + j] = v[j]
        BY <1>1, <1>2
      <4> QED
        BY <4>1 DEF ToSet
    <3> QED
      BY <1>1, <3>1, <3>2 DEF ToSet
  <2> QED
    BY <2>1, <2>2
<1>4. ASSUME IsInjective(u), IsInjective(v), ToSet(u) \cap ToSet(v) = {}
      PROVE  IsInjective(w)
  <2>1. \A i \in 1 .. m, j \in 1 .. k : u[i] # v[j]
    BY <1>1, <1>4 DEF ToSet
  <2>2. /\ \A i, j \in 1 .. m : u[i] = u[j] => i = j
        /\ \A i, j \in 1 .. k : v[i] = v[j] => i = j
    BY <1>1, <1>4 DEF IsInjective
  <2>3. ASSUME NEW i \in 1 .. m + k, NEW j \in 1 .. m + k, w[i] = w[j] PROVE i = j
    BY <1>1, <1>2, <2>1, <2>2, <2>3
  <2> QED
    BY <1>1, <2>3 DEF IsInjective
<1> QED
  BY <1>1, <1>3, <1>4 DEF w

(* A run of neighbours.                                                     *)
Neighbours(l, flat) == \E k \in 0 .. Len(flat) - Len(l) : l = SubSeq(flat, k + 1, k + Len(l))

LEMMA NeighboursStay ==
  ASSUME NEW V, NEW u \in Seq(V), NEW v \in Seq(V), NEW l \in Seq(V), Neighbours(l, u)
  PROVE  Neighbours(l, u \o v)
<1> DEFINE w == u \o v
           n == Len(l)
           m == Len(u)
<1>1. /\ w \in Seq(V) /\ Len(w) = m + Len(v) /\ Len(v) \in Nat /\ n \in Nat /\ m \in Nat
  BY ConcatProperties
<1>2. PICK k \in 0 .. m - n : l = SubSeq(u, k + 1, k + n)
  BY DEF Neighbours
<1>3. k \in 0 .. Len(w) - n
  <2> HIDE DEF w, n, m
  <2> QED
    BY <1>1, <1>2
<1>4. l = SubSeq(w, k + 1, k + n)
  <2>1. CASE n = 0
    <3>1. l = <<>>
      BY <2>1
    <3> DEFINE p == k + 1
               q == k + n
    <3>2. p \in Int /\ q \in Int /\ q < p
      <4> HIDE DEF w, n, m
      <4> QED
        BY <1>1, <1>2, <2>1
    <3> HIDE DEF p, q
    <3>3. SubSeq(w, p, q) = <<>>
      BY <3>2, SubSeqEmpty
    <3> QED
      BY <3>1, <3>3 DEF p, q
  <2>2. CASE n # 0
    <3> DEFINE p == k + 1
               q == k + n
    <3>2. p \in 1 .. Len(u) /\ q \in 1 .. Len(u)
      <4>1. p \in 1 .. m /\ q \in 1 .. m
        <5> HIDE DEF w, n, m
        <5> QED
          BY <1>1, <1>2, <2>2
      <4> QED
        BY <4>1
    <3> HIDE DEF p, q
    <3>3. SubSeq(u \o v, p, q) = SubSeq(u, p, q)
      BY <3>2, SubSeqOfConcat1
    <3> QED
      BY <1>2, <3>3 DEF p, q
  <2> QED
    BY <2>1, <2>2
<1> QED
  BY <1>3, <1>4 DEF Neighbours

LEMMA NeighboursJoin ==
  ASSUME NEW V, NEW u \in Seq(V), NEW v \in Seq(V)
  PROVE  Neighbours(v, u \o v)
<1> DEFINE w == u \o v
           n == Len(v)
           m == Len(u)
<1>1. /\ w \in Seq(V) /\ Len(w) = m + n /\ n \in Nat /\ m \in Nat
  BY ConcatProperties
<1>3. m \in 0 .. Len(w) - n
  <2> HIDE DEF w, n, m
  <2> QED
    BY <1>1
<1> DEFINE p == m + 1
           q == m + n
<1>4. v = SubSeq(w, p, q)
  <2>1. CASE n = 0
    <3>1. v = <<>>
      BY <2>1
    <3>2. p \in Int /\ q \in Int /\ q < p
      <4> HIDE DEF w, n, m
      <4> QED
        BY <1>1, <2>1
    <3> HIDE DEF p, q
    <3>3. SubSeq(w, p, q) = <<>>
      BY <3>2, SubSeqEmpty
    <3> QED
      BY <3>1, <3>3
  <2>2. CASE n # 0
    <3>2. p \in m + 1 .. m + n /\ q \in m + 1 .. m + n /\ p - m = 1 /\ q - m = n
      <4> HIDE DEF w, n, m
      <4> QED
        BY <1>1, <2>2
    <3> HIDE DEF p, q
    <3>3. SubSeq(u \o v, p, q) = SubSeq(v, p - Len(u), q - Len(u))
      BY <3>2, SubSeqOfConcat2
    <3>4. SubSeq(v, 1, Len(v)) = v
      BY SubSeqFull
    <3> QED
      BY <3>2, <3>3, <3>4
  <2> QED
    BY <2>1, <2>2
<1> QED
  BY <1>3, <1>4 DEF Neighbours

(* Blocks that hold nothing twice.                                          *)
Apart(b) ==
  /\ \A i \in 1 .. Len(b) : IsInjective(b[i])
  /\ \A i, j \in 1 .. Len(b) : i # j => ToSet(b[i]) \cap ToSet(b[j]) = {}

LEMMA BlocksLaid ==
  ASSUME NEW V, NEW b \in Seq(Seq(V))
  PROVE  /\ FlattenSeq(b) \in Seq(V)
         /\ ToSet(FlattenSeq(b)) = UNION {ToSet(b[i]) : i \in 1 .. Len(b)}
         /\ Apart(b) => IsInjective(FlattenSeq(b))
         /\ Apart(b) => \A i \in 1 .. Len(b) : Only(FlattenSeq(b), ToSet(b[i])) = b[i]
         /\ \A i \in 1 .. Len(b) : Neighbours(b[i], FlattenSeq(b))
<1> DEFINE N == Len(b)
<1>0. N \in Nat /\ \A i \in 1 .. N : b[i] \in Seq(V)
  OBVIOUS
<1>1. PICK f \in [0 .. N -> Seq(V)] : Joined(f, b)
  BY JoinedExists
<1>2. FlattenSeq(b) = f[N]
  BY <1>1, FlattenIs
<1> DEFINE Laid(n) ==
             /\ ToSet(f[n]) = UNION {ToSet(b[i]) : i \in 1 .. n}
             /\ Apart(b) => IsInjective(f[n])
             /\ Apart(b) => \A i \in 1 .. n : Only(f[n], ToSet(b[i])) = b[i]
             /\ \A i \in 1 .. n : Neighbours(b[i], f[n])
           B == {n \in 0 .. N : Laid(n)}
<1>3. f[0] = <<>> /\ \A n \in 1 .. N : f[n] = f[n - 1] \o b[n]
  BY <1>1 DEF Joined
<1>4. 0 \in B
  <2>1. ToSet(f[0]) = {} /\ IsInjective(f[0]) /\ 1 .. 0 = {}
    BY <1>3 DEF ToSet, IsInjective
  <2> QED
    BY <1>0, <2>1
<1> HIDE DEF N
<1>5. ASSUME NEW n \in 1 .. N, n - 1 \in B PROVE n \in B
  <2> DEFINE u == f[n - 1]
             v == b[n]
  <2>1. /\ n - 1 \in 0 .. N /\ n \in 0 .. N /\ n \in 1 .. n /\ 1 .. n = (1 .. (n - 1)) \cup {n}
        /\ \A i \in 1 .. n : i \in 1 .. N
        /\ \A i \in 1 .. (n - 1) : i # n
    BY <1>0
  <2>2. u \in Seq(V) /\ v \in Seq(V) /\ f[n] = u \o v
    BY <1>0, <1>1, <1>3, <2>1
  <2>3. Laid(n - 1)
    BY <1>5
  <2>4. /\ \A i \in 1 .. n : b[i] \in Seq(V)
        /\ Apart(b) => /\ IsInjective(v)
                       /\ \A i \in 1 .. (n - 1) : ToSet(b[i]) \cap ToSet(v) = {}
    BY <1>0, <2>1 DEF Apart, N
  <2>5. ToSet(u) = UNION {ToSet(b[i]) : i \in 1 .. (n - 1)}
    BY <2>3
  <2>6. /\ ToSet(f[n]) = ToSet(u) \cup ToSet(v)
        /\ IsInjective(u) /\ IsInjective(v) /\ ToSet(u) \cap ToSet(v) = {} => IsInjective(f[n])
    <3> HIDE DEF u, v
    <3> QED
      BY <2>2, TwoTogether
  <2>7. ToSet(f[n]) = UNION {ToSet(b[i]) : i \in 1 .. n}
    BY <2>1, <2>5, <2>6
  <2>8. Apart(b) => ToSet(u) \cap ToSet(v) = {}
    BY <2>4, <2>5
  <2>9. Apart(b) => IsInjective(f[n])
    BY <2>3, <2>4, <2>6, <2>8
  <2>10. ASSUME Apart(b), NEW i \in 1 .. n PROVE Only(f[n], ToSet(b[i])) = b[i]
    <3> DEFINE S == ToSet(b[i])
    <3>1. Only(u \o v, S) = Only(u, S) \o Only(v, S)
      <4> HIDE DEF u, v, S
      <4> QED
        BY <2>2, OnlyConcat
    <3>2. CASE i = n
      <4>1. Only(v, S) = v
        <5> HIDE DEF u
        <5> QED
          BY <2>2, <3>2, OnlyAll
      <4>2. ToSet(u) \cap S = {}
        BY <2>8, <2>10, <3>2
      <4>3. Only(u, S) = <<>>
        <5> HIDE DEF u, v, S
        <5> QED
          BY <2>2, <4>2, OnlyNone
      <4>4. <<>> \o v = v
        <5> HIDE DEF u, v
        <5> QED
          BY <2>2, ConcatEmptySeq
      <4> QED
        BY <2>2, <3>1, <3>2, <4>1, <4>3, <4>4
    <3>3. CASE i # n
      <4>1. i \in 1 .. (n - 1)
        BY <2>1, <3>3
      <4>2. Only(u, S) = b[i]
        BY <2>3, <2>10, <4>1
      <4>3. ToSet(v) \cap S = {}
        BY <2>4, <2>10, <4>1
      <4>4. Only(v, S) = <<>>
        <5> HIDE DEF u, v, S
        <5> QED
          BY <2>2, <4>3, OnlyNone
      <4>5. b[i] \o <<>> = b[i]
        BY <2>4, ConcatEmptySeq
      <4> QED
        BY <2>2, <3>1, <4>2, <4>4, <4>5
    <3> QED
      BY <3>2, <3>3
  <2>11. ASSUME NEW i \in 1 .. n PROVE Neighbours(b[i], f[n])
    <3>1. CASE i = n
      <4>1. Neighbours(v, u \o v)
        <5> HIDE DEF u, v
        <5> QED
          BY <2>2, NeighboursJoin
      <4> QED
        BY <2>2, <3>1, <4>1
    <3>2. CASE i # n
      <4>1. i \in 1 .. (n - 1)
        BY <2>1, <3>2
      <4>2. Neighbours(b[i], u) /\ b[i] \in Seq(V)
        BY <2>3, <2>4, <4>1
      <4> DEFINE l == b[i]
      <4>3. Neighbours(l, u \o v)
        <5> HIDE DEF u, v, l
        <5> QED
          BY <2>2, <4>2, NeighboursStay DEF l
      <4> QED
        BY <2>2, <4>3
    <3> QED
      BY <3>1, <3>2
  <2>12. Laid(n)
    BY <2>7, <2>9, <2>10, <2>11
  <2> HIDE DEF Laid
  <2> QED
    BY <2>1, <2>12
<1>6. \A n \in 0 .. N : n \in B
  <2>1. B \in SUBSET (0 .. N)
    OBVIOUS
  <2> HIDE DEF B
  <2> QED
    BY <1>0, <1>4, <1>5, <2>1, Induct
<1>7. Laid(N) /\ N \in 0 .. N
  BY <1>0, <1>6
<1>8. f[N] \in Seq(V)
  BY <1>1, <1>7
<1> QED
  BY <1>2, <1>7, <1>8 DEF N

(* A set in some order.                                                     *)
LEMMA SetInOrder ==
  ASSUME NEW S, IsFiniteSet(S), NEW f \in SetToSeqs(S)
  PROVE  /\ f \in Seq(S) /\ DOMAIN f = 1 .. Len(f) /\ Len(f) = Cardinality(S)
         /\ IsInjective(f) /\ ToSet(f) = S
<1> DEFINE n == Cardinality(S)
           D == 1 .. n
<1>1. n \in Nat
  BY FS_CardinalityType
<1>2. f \in [D -> S] /\ \A i, j \in D : i # j => f[i] # f[j]
  BY DEF SetToSeqs
<1> HIDE DEF n
<1>3. f \in Seq(S) /\ Len(f) = n /\ DOMAIN f = 1 .. n
  BY <1>1, <1>2
<1>4. IsInjective(f)
  BY <1>2 DEF IsInjective
<1>5. IsFiniteSet(D) /\ Cardinality(D) = n
  BY <1>1, FS_Interval
<1> HIDE DEF D
<1>6. f \in Injection(D, S)
  BY <1>2, <1>4 DEF Injection
<1>7. f \in Surjection(D, S)
  BY <1>5, <1>6, FS_Injection DEF n
<1>8. ToSet(f) = S
  BY <1>2, <1>7 DEF Surjection, ToSet
<1> QED
  BY <1>3, <1>4, <1>8 DEF n

LEMMA SomeOrder ==
  ASSUME NEW S, IsFiniteSet(S)
  PROVE  SetToSeq(S) \in SetToSeqs(S)
<1> DEFINE D == 1 .. Cardinality(S)
<1>1. PICK f \in Bijection(D, S) : TRUE
  BY FS_CardinalityType DEF ExistsBijection
<1>2. f \in [D -> S] /\ IsInjective(f)
  BY <1>1 DEF Bijection, Injection
<1>3. \E g \in [D -> S] : IsInjective(g)
  BY <1>2
<1> DEFINE c == SetToSeq(S)
<1>4. c \in [D -> S] /\ IsInjective(c)
  <2>1. c = CHOOSE g \in [D -> S] : IsInjective(g)
    BY DEF SetToSeq
  <2> HIDE DEF c, D
  <2> QED
    BY <1>3, <2>1
<1> HIDE DEF c
<1>5. \A i, j \in D : i # j => c[i] # c[j]
  BY <1>4 DEF IsInjective
<1>6. c \in {g \in [D -> S] : \A i, j \in D : i # j => g[i] # g[j]}
  BY <1>4, <1>5
<1>7. c \in SetToSeqs(S)
  BY <1>6, Zenon DEF SetToSeqs
<1> QED
  BY <1>7 DEF c

(* A list without repetition counts its members.                            *)
LEMMA ListCounts ==
  ASSUME NEW V, NEW s \in Seq(V), IsInjective(s)
  PROVE  IsFiniteSet(ToSet(s)) /\ Cardinality(ToSet(s)) = Len(s)
<1> DEFINE n == Len(s)
           S == ToSet(s)
<1>1. n \in Nat /\ DOMAIN s = 1 .. n /\ s \in [1 .. n -> S]
  BY DEF ToSet
<1>2. s \in Bijection(1 .. n, S)
  <2>1. \A x \in S : \E i \in 1 .. n : s[i] = x
    BY <1>1 DEF ToSet
  <2> QED
    BY <1>1, <2>1 DEF Bijection, Injection, Surjection
<1> HIDE DEF n, S
<1>3. ExistsBijection(1 .. n, S)
  BY <1>2 DEF ExistsBijection
<1>4. IsFiniteSet(S) /\ Cardinality(S) = n
  BY <1>1, <1>3, FS_NatBijection, FS_CountingElements
<1> QED
  BY <1>4 DEF n, S

-----------------------------------------------------------------------------
(* The order of a delivery.                                                 *)

(* One of each.                                                             *)
LEMMA EachIs ==
  ASSUME NEW sets, NEW f
  PROVE  f \in OneOfEach(sets) <=>
           f = [i \in DOMAIN sets |-> f[i]] /\ \A i \in DOMAIN sets : f[i] \in sets[i]
<1>1. f \in OneOfEach(sets) <=>
        /\ f \in [DOMAIN sets -> UNION {sets[i] : i \in DOMAIN sets}]
        /\ \A i \in DOMAIN sets : f[i] \in sets[i]
  BY Zenon DEF OneOfEach
<1> QED
  BY <1>1

(* What a topic contributes, as a list without repetition.                  *)
Contribution(d, V) == d.list \in Seq(V) /\ IsInjective(d.list) /\ d.preordered \in BOOLEAN

LEMMA SectionOrders ==
  ASSUME NEW V, NEW d, Contribution(d, V), NEW mode, NEW l \in orderSection(d, mode)
  PROVE  /\ l \in Seq(V) /\ IsInjective(l) /\ ToSet(l) = ToSet(d.list)
         /\ mode = "fixed" => IF d.preordered THEN l = d.list ELSE InIndexOrder(l)
<1> DEFINE S == ToSet(d.list)
<1>1. IsFiniteSet(S) /\ S \in SUBSET V
  <2>1. \A x \in S : x \in V
    BY DEF ToSet, Contribution
  <2> QED
    BY <2>1, ListCounts DEF Contribution
<1>2. CASE d.preordered /\ mode = "fixed"
  BY <1>2 DEF orderSection, Contribution
<1>3. CASE ~ (d.preordered /\ mode = "fixed")
  <2>1. l \in orderQuestions(S, IF d.preordered THEN "random" ELSE mode)
    BY <1>3 DEF orderSection
  <2>2. /\ l \in SetToSeqs(S)
        /\ (IF d.preordered THEN "random" ELSE mode) = "fixed" => InIndexOrder(l)
    <3> HIDE DEF S
    <3> QED
      BY <2>1 DEF orderQuestions
  <2>3. l \in Seq(S) /\ IsInjective(l) /\ ToSet(l) = S
    <3> HIDE DEF S
    <3> QED
      BY <1>1, <2>2, SetInOrder
  <2>4. l \in Seq(V)
    <3> HIDE DEF S
    <3> QED
      BY <1>1, <2>3, SeqMonotonic
  <2> QED
    BY <1>3, <2>2, <2>3, <2>4
<1> QED
  BY <1>2, <1>3

(* The units of the stream hold nothing twice.                              *)
Contributions(drawn, V) == \A i \in DOMAIN drawn : Contribution(drawn[i], V)

DrawnApart(drawn) ==
  \A i, j \in DOMAIN drawn : i # j => ToSet(drawn[i].list) \cap ToSet(drawn[j].list) = {}

UnitOf(drawn, modes, V, u) ==
  /\ u.from \in DOMAIN drawn
  /\ u.block \in Seq(V) /\ IsInjective(u.block)
  /\ ToSet(u.block) \subseteq ToSet(drawn[u.from].list)
  /\ modes[u.from] = "fixed" => u.block \in orderSection(drawn[u.from], "fixed")
  /\ modes[u.from] # "fixed" => \E q \in ToSet(drawn[u.from].list) : u.block = <<q>>

(* The units of a section, and that there are no others.                    *)
LEMMA UnitsAre ==
  ASSUME NEW V, NEW N \in Nat, NEW drawn, DOMAIN drawn = 1 .. N, Contributions(drawn, V), NEW modes,
         NEW units \in Units(drawn, modes)
  PROVE  /\ IsFiniteSet(units)
         /\ \A u \in units : UnitOf(drawn, modes, V, u)
         /\ \A u, v \in units : u.from = v.from /\ (modes[u.from] = "fixed" \/ u.block = v.block) => u = v
         /\ \A i \in 1 .. N : /\ modes[i] = "fixed" => \E u \in units : u.from = i
                              /\ \A q \in ToSet(drawn[i].list) : \E u \in units : u.from = i /\ q \in ToSet(u.block)
<1> DEFINE blocks(i) == {{[from |-> i, block |-> b]} : b \in orderSection(drawn[i], "fixed")}
           choices(i) == IF modes[i] = "fixed" THEN blocks(i) ELSE {Singles(drawn, i)}
           each == [i \in DOMAIN drawn |-> choices(i)]
<1>1. units \in {UNION {u[i] : i \in DOMAIN drawn} : u \in OneOfEach(each)}
  BY Zenon DEF Units
<1> DEFINE whole(u) == UNION {u[i] : i \in 1 .. N}
<1>2. \E u \in OneOfEach(each) : units = whole(u)
  <2> HIDE DEF each
  <2> QED
    BY <1>1
<1>3. PICK u \in OneOfEach(each) : units = whole(u)
  BY <1>2
<1>4. \A i \in 1 .. N : u[i] \in choices(i)
  <2>1. u \in OneOfEach(each) /\ DOMAIN each = 1 .. N /\ \A i \in 1 .. N : each[i] = choices(i)
    BY <1>3
  <2> HIDE DEF each, choices
  <2> QED
    BY <2>1, EachIs
<1> HIDE DEF each
<1>5. ASSUME NEW i \in 1 .. N
      PROVE  /\ IsFiniteSet(u[i])
             /\ \A x \in u[i] : x.from = i /\ UnitOf(drawn, modes, V, x)
             /\ \A x, y \in u[i] : modes[i] = "fixed" \/ x.block = y.block => x = y
             /\ modes[i] = "fixed" => u[i] # {}
             /\ \A q \in ToSet(drawn[i].list) : \E x \in u[i] : q \in ToSet(x.block)
  <2>1. Contribution(drawn[i], V) /\ i \in DOMAIN drawn
    BY DEF Contributions
  <2>2. CASE modes[i] = "fixed"
    <3>1. u[i] \in blocks(i)
      BY <1>4, <2>2
    <3>2. PICK b \in orderSection(drawn[i], "fixed") : u[i] = {[from |-> i, block |-> b]}
      BY <3>1
    <3>3. b \in Seq(V) /\ IsInjective(b) /\ ToSet(b) = ToSet(drawn[i].list)
      BY <2>1, <3>2, SectionOrders
    <3>4. IsFiniteSet(u[i])
      BY <3>2, FS_Singleton
    <3> DEFINE x == [from |-> i, block |-> b]
    <3>5. x.from = i /\ x.block = b
      OBVIOUS
    <3> HIDE DEF x
    <3>6. UnitOf(drawn, modes, V, x)
      BY <2>1, <2>2, <3>2, <3>3, <3>5 DEF UnitOf
    <3>7. u[i] = {x}
      BY <3>2 DEF x
    <3> QED
      BY <3>3, <3>4, <3>5, <3>6, <3>7
  <2>3. CASE modes[i] # "fixed"
    <3> DEFINE S == ToSet(drawn[i].list)
               single(q) == [from |-> i, block |-> <<q>>]
    <3>1. u[i] = {single(q) : q \in S}
      <4>1. u[i] = Singles(drawn, i)
        BY <1>4, <2>3
      <4> QED
        BY <4>1, Zenon DEF Singles
    <3>2. IsFiniteSet(S) /\ S \in SUBSET V
      <4>1. \A x \in S : x \in V
        BY <2>1 DEF ToSet, Contribution
      <4> QED
        BY <2>1, <4>1, ListCounts DEF Contribution
    <3>3. ASSUME NEW q \in S
          PROVE  /\ single(q).from = i /\ single(q).block = <<q>> /\ q \in ToSet(single(q).block)
                 /\ UnitOf(drawn, modes, V, single(q))
      <4> DEFINE x == single(q)
                 b == <<q>>
      <4>1. x.from = i /\ x.block = b
        OBVIOUS
      <4>2. b \in Seq(V) /\ Len(b) = 1 /\ b[1] = q /\ DOMAIN b = 1 .. 1
        BY <3>2, <3>3
      <4> HIDE DEF b, x
      <4>3. ToSet(b) = {q} /\ IsInjective(b)
        BY <4>2 DEF ToSet, IsInjective
      <4>4. \E p \in S : b = <<p>>
        BY <3>3 DEF b
      <4>5. UnitOf(drawn, modes, V, x)
        BY <2>1, <2>3, <3>3, <4>1, <4>2, <4>3, <4>4 DEF UnitOf
      <4> QED
        BY <4>1, <4>3, <4>5 DEF b, x
    <3>4. \A p, q \in S : <<p>> = <<q>> => p = q
      OBVIOUS
    <3>5. IsFiniteSet(u[i])
      <4> DEFINE T == {single(q) : q \in S}
                 g == [q \in S |-> single(q)]
      <4>1. g \in Surjection(S, T)
        <5>1. g \in [S -> T] /\ \A t \in T : \E q \in S : g[q] = t
          OBVIOUS
        <5> QED
          BY <5>1 DEF Surjection
      <4>2. u[i] = T
        BY <3>1
      <4> HIDE DEF g, S, T
      <4> QED
        BY <3>2, <4>1, <4>2, FS_Surjection
    <3>6. \A x \in u[i] : \E q \in S : x = single(q)
      BY <3>1
    <3>7. \A q \in S : single(q) \in u[i]
      BY <3>1
    <3> HIDE DEF single, S
    <3>8. \A x, y \in u[i] : x.block = y.block => x = y
      BY <3>3, <3>4, <3>6
    <3> QED
      BY <2>3, <3>3, <3>5, <3>6, <3>7, <3>8 DEF S
  <2> QED
    BY <2>2, <2>3
<1>6. \A x : x \in units <=> \E i \in 1 .. N : x \in u[i]
  BY <1>3
<1>7. IsFiniteSet(units)
  <2> DEFINE T == {u[i] : i \in 1 .. N}
             g == [i \in 1 .. N |-> u[i]]
  <2>1. g \in Surjection(1 .. N, T)
    <3>1. g \in [1 .. N -> T] /\ \A t \in T : \E i \in 1 .. N : g[i] = t
      OBVIOUS
    <3> QED
      BY <3>1 DEF Surjection
  <2>2. IsFiniteSet(1 .. N)
    BY FS_Interval
  <2>3. \A t \in T : IsFiniteSet(t)
    BY <1>5
  <2>4. units = UNION T
    BY <1>3
  <2> HIDE DEF g, T
  <2>5. IsFiniteSet(T)
    BY <2>1, <2>2, FS_Surjection
  <2> QED
    BY <2>3, <2>4, <2>5, FS_UNION
<1> HIDE DEF whole, choices
<1>8. \A x, y \in units : x.from = y.from /\ (modes[x.from] = "fixed" \/ x.block = y.block) => x = y
  <2> SUFFICES ASSUME NEW x \in units, NEW y \in units, x.from = y.from,
                      modes[x.from] = "fixed" \/ x.block = y.block
               PROVE  x = y
    OBVIOUS
  <2>1. PICK i \in 1 .. N : x \in u[i]
    BY <1>6
  <2>2. PICK j \in 1 .. N : y \in u[j]
    BY <1>6
  <2> QED
    BY <1>5, <2>1, <2>2
<1>9. \A x \in units : UnitOf(drawn, modes, V, x)
  BY <1>5, <1>6
<1>10. ASSUME NEW i \in 1 .. N
       PROVE  /\ modes[i] = "fixed" => \E x \in units : x.from = i
              /\ \A q \in ToSet(drawn[i].list) : \E x \in units : x.from = i /\ q \in ToSet(x.block)
  BY <1>5, <1>6
<1> QED
  BY <1>7, <1>8, <1>9, <1>10

(* What a stream is to the lists it is made of.                             *)
LEMMA StreamLaid ==
  ASSUME NEW V, NEW N \in Nat, NEW drawn, DOMAIN drawn = 1 .. N, Contributions(drawn, V), NEW modes,
         NEW units \in Units(drawn, modes), NEW flat \in Streams(units)
  PROVE  /\ flat \in Seq(V)
         /\ DrawnApart(drawn) =>
              /\ IsInjective(flat)
              /\ ToSet(flat) = UNION {ToSet(drawn[i].list) : i \in 1 .. N}
              /\ \A i \in 1 .. N : modes[i] = "fixed" =>
                   \E b \in orderSection(drawn[i], "fixed") :
                     Neighbours(b, flat) /\ Only(flat, ToSet(b)) = b
<1>1. /\ IsFiniteSet(units)
      /\ \A u \in units : UnitOf(drawn, modes, V, u)
      /\ \A u, v \in units : u.from = v.from /\ (modes[u.from] = "fixed" \/ u.block = v.block) => u = v
      /\ \A i \in 1 .. N : /\ modes[i] = "fixed" => \E u \in units : u.from = i
                           /\ \A q \in ToSet(drawn[i].list) : \E u \in units : u.from = i /\ q \in ToSet(u.block)
  BY UnitsAre
<1>2. PICK s \in SetToSeqs(units) : flat = FlattenSeq([k \in DOMAIN s |-> s[k].block])
  BY Zenon DEF Streams
<1>3. /\ s \in Seq(units) /\ DOMAIN s = 1 .. Len(s) /\ IsInjective(s) /\ ToSet(s) = units /\ Len(s) \in Nat
  <2>1. s \in Seq(units) /\ DOMAIN s = 1 .. Len(s) /\ IsInjective(s) /\ ToSet(s) = units
    BY <1>1, <1>2, SetInOrder
  <2> QED
    BY <2>1
<1> DEFINE b == [k \in DOMAIN s |-> s[k].block]
           M == Len(s)
<1>4. \A k \in 1 .. M : s[k] \in units /\ b[k] = s[k].block
  BY <1>3
<1>5. \A k \in 1 .. M : b[k] \in Seq(V)
  BY <1>1, <1>4 DEF UnitOf
<1>6. b \in Seq(Seq(V)) /\ Len(b) = M
  <2>1. DOMAIN b = 1 .. M /\ M \in Nat
    BY <1>3
  <2>2. b = [k \in 1 .. M |-> b[k]]
    BY <1>3
  <2> HIDE DEF b, M
  <2> QED
    BY <1>5, <2>1, <2>2
<1>7. flat = FlattenSeq(b)
  BY <1>2
<1> HIDE DEF b
<1>8. /\ flat \in Seq(V)
      /\ ToSet(flat) = UNION {ToSet(b[k]) : k \in 1 .. M}
      /\ Apart(b) => IsInjective(flat)
      /\ Apart(b) => \A k \in 1 .. M : Only(flat, ToSet(b[k])) = b[k]
      /\ \A k \in 1 .. M : Neighbours(b[k], flat)
  BY <1>6, <1>7, BlocksLaid
<1>9. \A u \in units : \E k \in 1 .. M : s[k] = u
  BY <1>3 DEF ToSet
<1>10. ASSUME DrawnApart(drawn) PROVE Apart(b)
  <2>1. ASSUME NEW j \in 1 .. M, NEW k \in 1 .. M, j # k
        PROVE  ToSet(b[j]) \cap ToSet(b[k]) = {}
    <3> DEFINE u == s[j]
               v == s[k]
    <3>1. u \in units /\ v \in units /\ u # v /\ b[j] = u.block /\ b[k] = v.block
      BY <1>3, <1>4, <2>1 DEF IsInjective
    <3> HIDE DEF u, v
    <3>2. UnitOf(drawn, modes, V, u) /\ UnitOf(drawn, modes, V, v)
      BY <1>1, <3>1
    <3>3. CASE u.from # v.from
      BY <1>10, <3>1, <3>2, <3>3 DEF UnitOf, DrawnApart
    <3>4. CASE u.from = v.from
      <4>1. modes[u.from] # "fixed" /\ u.block # v.block
        BY <1>1, <3>1, <3>4
      <4>2. (\E p : u.block = <<p>>) /\ (\E q : v.block = <<q>>)
        BY <3>2, <3>4, <4>1 DEF UnitOf
      <4>3. PICK p : u.block = <<p>>
        BY <4>2
      <4>4. PICK q : v.block = <<q>>
        BY <4>2
      <4>5. p # q /\ ToSet(<<p>>) = {p} /\ ToSet(<<q>>) = {q}
        BY <4>1, <4>3, <4>4 DEF ToSet
      <4> QED
        BY <3>1, <4>3, <4>4, <4>5
    <3> QED
      BY <3>3, <3>4
  <2>2. \A k \in 1 .. M : IsInjective(b[k])
    BY <1>1, <1>4 DEF UnitOf
  <2> QED
    BY <1>6, <2>1, <2>2 DEF Apart
<1>11. ToSet(flat) = UNION {ToSet(drawn[i].list) : i \in 1 .. N}
  <2>1. ASSUME NEW q \in ToSet(flat) PROVE \E i \in 1 .. N : q \in ToSet(drawn[i].list)
    <3>1. PICK k \in 1 .. M : q \in ToSet(b[k])
      BY <1>8
    <3>2. UnitOf(drawn, modes, V, s[k]) /\ b[k] = s[k].block
      BY <1>1, <1>4
    <3> QED
      BY <3>1, <3>2 DEF UnitOf
  <2>2. ASSUME NEW i \in 1 .. N, NEW q \in ToSet(drawn[i].list) PROVE q \in ToSet(flat)
    <3>1. PICK u \in units : q \in ToSet(u.block)
      BY <1>1
    <3>2. PICK k \in 1 .. M : s[k] = u
      BY <1>9
    <3> QED
      BY <1>4, <1>8, <3>1, <3>2
  <2> QED
    BY <2>1, <2>2
<1>12. ASSUME DrawnApart(drawn), NEW i \in 1 .. N, modes[i] = "fixed"
       PROVE  \E c \in orderSection(drawn[i], "fixed") : Neighbours(c, flat) /\ Only(flat, ToSet(c)) = c
  <2>1. PICK u \in units : u.from = i
    BY <1>1, <1>12
  <2>2. PICK k \in 1 .. M : s[k] = u
    BY <1>9
  <2>3. b[k] = u.block /\ u.block \in orderSection(drawn[i], "fixed")
    BY <1>1, <1>4, <1>12, <2>1, <2>2 DEF UnitOf
  <2> QED
    BY <1>8, <1>10, <1>12, <2>3
<1> QED
  BY <1>8, <1>10, <1>11, <1>12

(* The delivery d of N draws of questions of V.                             *)
Assembled(d, drawn, N, test_, V) ==
  /\ d.flat \in Seq(V) /\ d.sections \in [1 .. N -> Seq(V)]
  /\ \A i \in 1 .. N : ToSet(d.sections[i]) \subseteq ToSet(drawn[i].list)
  /\ ~mixAcrossTopics(test_) => d.flat = FlattenSeq(d.sections)
  /\ DrawnApart(drawn) =>
       /\ IsInjective(d.flat)
       /\ ToSet(d.flat) = UNION {ToSet(d.sections[i]) : i \in 1 .. N}
       /\ \A i \in 1 .. N :
            /\ IsInjective(d.sections[i]) /\ ToSet(d.sections[i]) = ToSet(drawn[i].list)
            /\ Only(d.flat, ToSet(d.sections[i])) = d.sections[i]
            /\ effectiveSectionOrder(test_.questionOrder, test_.sections[i].order) = "fixed" =>
                 d.sections[i] \in orderSection(drawn[i], "fixed") /\ Neighbours(d.sections[i], d.flat)

LEMMA Delivered ==
  ASSUME NEW V, NEW N \in Nat, NEW drawn, DOMAIN drawn = 1 .. N, Contributions(drawn, V), NEW test_,
         NEW d \in assembleDelivery(test_, drawn)
  PROVE  Assembled(d, drawn, N, test_, V)
<1> DEFINE modes == [i \in DOMAIN drawn |->
                       effectiveSectionOrder(test_.questionOrder, test_.sections[i].order)]
           orders == [i \in DOMAIN drawn |-> orderSection(drawn[i], modes[i])]
           cut(flat) == [i \in DOMAIN drawn |-> projected(flat, drawn[i].list)]
           flats == UNION {Streams(units) : units \in Units(drawn, modes)}
<1>1. d \in IF mixAcrossTopics(test_)
            THEN {[sections |-> cut(flat), flat |-> flat, mixed |-> TRUE] : flat \in flats}
            ELSE {[sections |-> b, flat |-> FlattenSeq(b), mixed |-> FALSE] : b \in OneOfEach(orders)}
  BY Zenon DEF assembleDelivery
<1>2. \A i \in 1 .. N : modes[i] = effectiveSectionOrder(test_.questionOrder, test_.sections[i].order)
  OBVIOUS
<1>3. \A i \in 1 .. N : Contribution(drawn[i], V)
  BY DEF Contributions
<1> HIDE DEF modes
<1>4. CASE ~mixAcrossTopics(test_)
  <2>1. PICK b \in OneOfEach(orders) : d = [sections |-> b, flat |-> FlattenSeq(b), mixed |-> FALSE]
    <3> HIDE DEF orders, flats, cut
    <3> QED
      BY <1>1, <1>4
  <2>2. /\ b = [i \in 1 .. N |-> b[i]]
        /\ \A i \in 1 .. N : b[i] \in orderSection(drawn[i], modes[i])
    <3>1. DOMAIN orders = 1 .. N /\ \A i \in 1 .. N : orders[i] = orderSection(drawn[i], modes[i])
      OBVIOUS
    <3> HIDE DEF orders
    <3> QED
      BY <2>1, <3>1, EachIs
  <2> HIDE DEF orders, flats, cut
  <2>3. \A i \in 1 .. N : b[i] \in Seq(V) /\ IsInjective(b[i]) /\ ToSet(b[i]) = ToSet(drawn[i].list)
    <3> SUFFICES ASSUME NEW i \in 1 .. N
                 PROVE  b[i] \in Seq(V) /\ IsInjective(b[i]) /\ ToSet(b[i]) = ToSet(drawn[i].list)
      OBVIOUS
    <3> DEFINE mode == modes[i]
               l == b[i]
               c == drawn[i]
    <3>1. l \in orderSection(c, mode) /\ Contribution(c, V)
      BY <1>3, <2>2
    <3> HIDE DEF mode, l, c
    <3>2. l \in Seq(V) /\ IsInjective(l) /\ ToSet(l) = ToSet(c.list)
      BY <3>1, SectionOrders
    <3> QED
      BY <3>2 DEF l, c
  <2>4. b \in Seq(Seq(V)) /\ Len(b) = N /\ b \in [1 .. N -> Seq(V)]
    <3>1. b \in [1 .. N -> Seq(V)]
      BY <2>2, <2>3
    <3> QED
      BY <3>1
  <2>5. /\ FlattenSeq(b) \in Seq(V)
        /\ ToSet(FlattenSeq(b)) = UNION {ToSet(b[i]) : i \in 1 .. N}
        /\ Apart(b) => IsInjective(FlattenSeq(b))
        /\ Apart(b) => \A i \in 1 .. N : Only(FlattenSeq(b), ToSet(b[i])) = b[i]
        /\ \A i \in 1 .. N : Neighbours(b[i], FlattenSeq(b))
    BY <2>4, BlocksLaid
  <2>6. DrawnApart(drawn) => Apart(b)
    BY <2>3, <2>4 DEF DrawnApart, Apart
  <2>7. d.sections = b /\ d.flat = FlattenSeq(b)
    BY <2>1
  <2> QED
    BY <1>2, <2>2, <2>3, <2>4, <2>5, <2>6, <2>7 DEF Assembled
<1>5. CASE mixAcrossTopics(test_)
  <2>0. \E flat \in flats : d = [sections |-> cut(flat), flat |-> flat, mixed |-> TRUE]
    <3> HIDE DEF orders, flats, cut
    <3> QED
      BY <1>1, <1>5
  <2>1. PICK flat \in flats : d = [sections |-> cut(flat), flat |-> flat, mixed |-> TRUE]
    BY <2>0
  <2>2. PICK units \in Units(drawn, modes) : flat \in Streams(units)
    BY <2>1
  <2>3. /\ flat \in Seq(V)
        /\ DrawnApart(drawn) =>
              /\ IsInjective(flat)
              /\ ToSet(flat) = UNION {ToSet(drawn[i].list) : i \in 1 .. N}
              /\ \A i \in 1 .. N : modes[i] = "fixed" =>
                   \E b \in orderSection(drawn[i], "fixed") :
                     Neighbours(b, flat) /\ Only(flat, ToSet(b)) = b
    BY <2>2, StreamLaid
  <2> DEFINE b == cut(flat)
  <2>4. d.sections = b /\ d.flat = flat
    BY <2>1
  <2>5. DOMAIN b = 1 .. N /\ b = [i \in 1 .. N |-> b[i]] /\ \A i \in 1 .. N : b[i] = Only(flat, ToSet(drawn[i].list))
    BY DEF projected
  <2> HIDE DEF b, flats, orders
  <2>6. \A i \in 1 .. N : /\ b[i] \in Seq(V)
                          /\ ToSet(b[i]) = ToSet(flat) \cap ToSet(drawn[i].list)
                          /\ IsInjective(flat) => IsInjective(b[i])
    <3> SUFFICES ASSUME NEW i \in 1 .. N
                 PROVE  /\ b[i] \in Seq(V)
                        /\ ToSet(b[i]) = ToSet(flat) \cap ToSet(drawn[i].list)
                        /\ IsInjective(flat) => IsInjective(b[i])
      OBVIOUS
    <3> DEFINE S == ToSet(drawn[i].list)
    <3>1. b[i] = Only(flat, S)
      BY <2>5
    <3> HIDE DEF S
    <3>2. Only(flat, S) \in Seq(V) /\ ToSet(Only(flat, S)) = ToSet(flat) \cap S
          /\ (IsInjective(flat) => IsInjective(Only(flat, S)))
      BY <2>3, OnlyType, OnlyKeeps
    <3> QED
      BY <3>1, <3>2 DEF S
  <2>7. b \in [1 .. N -> Seq(V)]
    BY <2>5, <2>6
  <2>8. ASSUME DrawnApart(drawn), NEW i \in 1 .. N
        PROVE  ToSet(b[i]) = ToSet(drawn[i].list) /\ Only(flat, ToSet(b[i])) = b[i]
    <3>1. ToSet(drawn[i].list) \subseteq ToSet(flat)
      BY <2>3, <2>8
    <3>2. ToSet(b[i]) = ToSet(drawn[i].list)
      BY <2>6, <3>1
    <3> QED
      BY <2>5, <3>2
  <2>9. ASSUME DrawnApart(drawn), NEW i \in 1 .. N, modes[i] = "fixed"
        PROVE  b[i] \in orderSection(drawn[i], "fixed") /\ Neighbours(b[i], flat)
    <3>1. PICK c \in orderSection(drawn[i], "fixed") : Neighbours(c, flat) /\ Only(flat, ToSet(c)) = c
      BY <2>3, <2>9
    <3> DEFINE e == drawn[i]
    <3>2. ToSet(c) = ToSet(e.list)
      <4>1. Contribution(e, V) /\ c \in orderSection(e, "fixed")
        BY <1>3, <3>1
      <4> HIDE DEF e
      <4> QED
        BY <4>1, SectionOrders
    <3>3. c = b[i]
      BY <2>5, <3>1, <3>2
    <3> QED
      BY <3>1, <3>3
  <2>10. DrawnApart(drawn) => ToSet(flat) = UNION {ToSet(b[i]) : i \in 1 .. N}
    BY <2>3, <2>8
  <2> QED
    BY <1>2, <1>5, <2>3, <2>4, <2>6, <2>7, <2>8, <2>9, <2>10 DEF Assembled
<1> QED
  BY <1>4, <1>5

-----------------------------------------------------------------------------
(* What a draw takes, whatever the shuffle.                                 *)

(* The quotas of a blueprint, summed up.                                    *)
Summed(f, strata) == f[0] = 0 /\ \A n \in 1 .. Len(strata) : f[n] = f[n - 1] + strata[n].count

LEMMA SumExists ==
  ASSUME NEW strata \in Seq(Stratum)
  PROVE  \E f \in [0 .. Len(strata) -> Nat] : Summed(f, strata)
<1> DEFINE N == Len(strata)
           h == [n \in 1 .. N |-> [x \in Nat |-> x + strata[n].count]]
<1>1. N \in Nat /\ \A n \in 1 .. N : strata[n].count \in Nat
  <2>1. \A n \in 1 .. N : strata[n] \in Stratum
    OBVIOUS
  <2> QED
    BY <2>1 DEF Stratum
<1>2. \A n \in 1 .. N, x \in Nat : x + strata[n].count \in Nat
  <2> HIDE DEF N
  <2> QED
    BY <1>1
<1>3. h \in [1 .. N -> [Nat -> Nat]] /\ \A n \in 1 .. N, x \in Nat : h[n][x] = x + strata[n].count
  <2> HIDE DEF N
  <2> QED
    BY <1>2
<1> DEFINE a == 0
           X == Nat
<1> HIDE DEF N, h, a, X
<1>4. \E f \in [0 .. N -> X] : f[0] = a /\ \A n \in 1 .. N : f[n] = h[n][f[n - 1]]
  <2>1. N \in Nat /\ a \in X /\ h \in [1 .. N -> [X -> X]]
    BY <1>1, <1>3 DEF X, a
  <2> QED
    BY <2>1, Unfolds, Z3
<1>5. PICK f \in [0 .. N -> Nat] : f[0] = 0 /\ \A n \in 1 .. N : f[n] = h[n][f[n - 1]]
  BY <1>4 DEF a, X
<1>6. \A n \in 1 .. N : n - 1 \in 0 .. N
  BY <1>1
<1>7. Summed(f, strata)
  BY <1>3, <1>5, <1>6 DEF Summed, N
<1> QED
  BY <1>5, <1>7 DEF N

LEMMA QuotasAre ==
  ASSUME NEW strata \in Seq(Stratum), NEW f \in [0 .. Len(strata) -> Nat], Summed(f, strata)
  PROVE  Quotas(strata) = f[Len(strata)]
<1> DEFINE N == Len(strata)
           Is(k) == k = [n \in 0 .. N |-> IF n = 0 THEN 0 ELSE k[n - 1] + strata[n].count]
           sum == CHOOSE k : Is(k)
<1>0. N \in Nat
  OBVIOUS
<1>1. Quotas(strata) = sum[N]
  BY Zenon DEF Quotas
<1>2. f[0] = 0 /\ \A n \in 1 .. N : f[n] = f[n - 1] + strata[n].count
  BY DEF Summed
<1>3. Is(f)
  <2> DEFINE r == [n \in 0 .. N |-> IF n = 0 THEN 0 ELSE f[n - 1] + strata[n].count]
  <2>1. f = [n \in 0 .. N |-> f[n]]
    OBVIOUS
  <2> HIDE DEF N
  <2>2. \A n \in 0 .. N : f[n] = IF n = 0 THEN 0 ELSE f[n - 1] + strata[n].count
    BY <1>0, <1>2
  <2>3. [n \in 0 .. N |-> f[n]] = r
    BY <2>2
  <2> QED
    BY <2>1, <2>3, Zenon
<1>4. Is(sum)
  <2> HIDE DEF Is
  <2> QED
    BY <1>3
<1> HIDE DEF sum
<1>5. \A n \in 0 .. N : sum[n] = IF n = 0 THEN 0 ELSE sum[n - 1] + strata[n].count
  BY <1>4
<1> HIDE DEF Is, N
<1>6. sum[0] = f[0] /\ \A n \in 1 .. N : sum[n - 1] = f[n - 1] => sum[n] = f[n]
  BY <1>0, <1>2, <1>5
<1>7. \A n \in 0 .. N : sum[n] = f[n]
  <2> DEFINE B == {n \in 0 .. N : sum[n] = f[n]}
  <2>1. B \in SUBSET (0 .. N)
    OBVIOUS
  <2>2. 0 \in B
    BY <1>0, <1>6
  <2>3. \A n \in 1 .. N : n - 1 \in B => n \in B
    BY <1>0, <1>6
  <2>4. \A n \in 0 .. N : n \in B => sum[n] = f[n]
    OBVIOUS
  <2> HIDE DEF B
  <2>5. \A n \in 0 .. N : n \in B
    BY <1>0, <2>1, <2>2, <2>3, Induct
  <2> QED
    BY <2>4, <2>5
<1> QED
  BY <1>0, <1>1, <1>7 DEF N

(* Whatever the shuffle.                                                    *)
LEMMA PickFacts ==
  ASSUME NEW S, Lawful(S), NEW n \in Nat, NEW shuffle, NEW F \in Pick(shuffle, n, S)
  PROVE  /\ F \in SUBSET S /\ Lawful(F) /\ Cardinality(F) = Least(n, Cardinality(S))
         /\ Cardinality(F) \in Nat /\ Cardinality(F) <= n
<1>1. F \in SUBSET S /\ Cardinality(F) = Least(n, Cardinality(S))
  BY DEF Pick, kSubset
<1>2. Lawful(F) /\ Cardinality(F) \in Nat
  BY <1>1, LawfulSubset
<1>3. Cardinality(S) \in Nat
  BY FS_CardinalityType DEF Lawful
<1> QED
  BY <1>1, <1>2, <1>3 DEF Least

LEMMA StrataTyped ==
  ASSUME NEW strata \in Seq(Stratum)
  PROVE  /\ Len(strata) \in Nat /\ DOMAIN strata = 1 .. Len(strata)
         /\ \A n \in 1 .. Len(strata) : strata[n] \in Stratum /\ strata[n].count \in Nat
<1>1. Len(strata) \in Nat /\ DOMAIN strata = 1 .. Len(strata) /\ \A n \in 1 .. Len(strata) : strata[n] \in Stratum
  OBVIOUS
<1> QED
  BY <1>1 DEF Stratum

LEMMA TakeFacts ==
  ASSUME NEW pool, Lawful(pool), NEW strata \in Seq(Stratum), NEW shuffle,
         NEW take \in Takes(pool, strata, shuffle)
  PROVE  /\ DOMAIN take = 1 .. Len(strata)
         /\ \A n \in 1 .. Len(strata) :
              LET open == Tagged(Unused(pool, take, n - 1), strata[n].tag)
              IN  /\ take[n] \in SUBSET open /\ open \in SUBSET pool /\ Lawful(take[n])
                  /\ Cardinality(take[n]) = Least(strata[n].count, Cardinality(open))
                  /\ Cardinality(take[n]) \in Nat /\ Cardinality(take[n]) <= strata[n].count
<1>1. DOMAIN strata = 1 .. Len(strata)
  BY StrataTyped
<1>2. /\ take \in [1 .. Len(strata) -> SUBSET pool]
      /\ \A n \in 1 .. Len(strata) :
           take[n] \in Pick(shuffle, strata[n].count, Tagged(Unused(pool, take, n - 1), strata[n].tag))
  BY <1>1, Zenon DEF Takes, Tagged
<1> SUFFICES ASSUME NEW n \in 1 .. Len(strata)
             PROVE  LET open == Tagged(Unused(pool, take, n - 1), strata[n].tag)
                    IN  /\ take[n] \in SUBSET open /\ open \in SUBSET pool /\ Lawful(take[n])
                        /\ Cardinality(take[n]) = Least(strata[n].count, Cardinality(open))
                        /\ Cardinality(take[n]) \in Nat /\ Cardinality(take[n]) <= strata[n].count
  BY <1>2
<1> DEFINE open == Tagged(Unused(pool, take, n - 1), strata[n].tag)
           c == strata[n].count
           F == take[n]
<1>3. open \in SUBSET pool /\ c \in Nat /\ F \in Pick(shuffle, c, open)
  BY <1>2, StrataTyped DEF Tagged, Unused
<1> HIDE DEF open, c, F
<1>4. Lawful(open)
  BY <1>3, LawfulSubset
<1>5. /\ F \in SUBSET open /\ Lawful(F) /\ Cardinality(F) = Least(c, Cardinality(open))
      /\ Cardinality(F) \in Nat /\ Cardinality(F) <= c
  BY <1>3, <1>4, PickFacts
<1> QED
  BY <1>3, <1>5 DEF open, c, F

(* What the strata used grows by what the next one takes.                   *)
LEMMA UsedGrows ==
  ASSUME NEW pool, Lawful(pool), NEW strata \in Seq(Stratum), NEW shuffle,
         NEW take \in Takes(pool, strata, shuffle), NEW n \in 1 .. Len(strata)
  PROVE  /\ take[n] \in SUBSET Unused(pool, take, n - 1)
         /\ Unused(pool, take, n) = Unused(pool, take, n - 1) \ take[n]
         /\ Unused(pool, take, n) \in SUBSET pool /\ Unused(pool, take, n - 1) \in SUBSET pool
         /\ Cardinality(pool \ Unused(pool, take, n - 1)) \in Nat
         /\ Cardinality(pool \ Unused(pool, take, n)) =
              Cardinality(pool \ Unused(pool, take, n - 1)) + Cardinality(take[n])
<1> DEFINE U == Unused(pool, take, n - 1)
           W == Unused(pool, take, n)
           F == take[n]
<1>1. Len(strata) \in Nat /\ n - 1 \in Nat /\ (n - 1) + 1 = n /\ n \in Nat
  BY StrataTyped
<1>2. F \in SUBSET U /\ Cardinality(F) \in Nat /\ Lawful(F)
  <2>1. F \in SUBSET Tagged(U, strata[n].tag) /\ Cardinality(F) \in Nat /\ Lawful(F)
    BY TakeFacts
  <2> QED
    BY <2>1 DEF Tagged
<1>3. W = U \ F
  <2> DEFINE k == n - 1
  <2>1. k \in Nat /\ k + 1 = n
    BY <1>1
  <2> HIDE DEF k
  <2>2. Unused(pool, take, k + 1) = Unused(pool, take, k) \ take[k + 1]
    BY <2>1, UnusedFacts
  <2> QED
    BY <2>1, <2>2 DEF k
<1>4. U \in SUBSET pool /\ W \in SUBSET pool
  BY DEF Unused
<1> HIDE DEF U, W, F
<1> DEFINE A == pool \ U
<1>5. pool \ W = A \cup F /\ A \cap F = {} /\ A \in SUBSET pool
  BY <1>2, <1>3, <1>4
<1> HIDE DEF A
<1>6. IsFiniteSet(A) /\ IsFiniteSet(F) /\ Cardinality(A) \in Nat
  BY <1>2, <1>5, LawfulSubset DEF Lawful
<1>7. Cardinality(A \cup F) = Cardinality(A) + Cardinality(F) - Cardinality({})
  BY <1>5, <1>6, FS_Union
<1>8. Cardinality(A \cup F) = Cardinality(A) + Cardinality(F)
  BY <1>2, <1>6, <1>7, FS_EmptySet
<1> QED
  BY <1>2, <1>3, <1>4, <1>5, <1>6, <1>8 DEF U, W, F, A

LEMMA UsedAtMost ==
  ASSUME NEW pool, Lawful(pool), NEW strata \in Seq(Stratum), NEW shuffle,
         NEW take \in Takes(pool, strata, shuffle)
  PROVE  Cardinality(pool \ Unused(pool, take, Len(strata))) <= Quotas(strata)
<1> DEFINE N == Len(strata)
           used(n) == Cardinality(pool \ Unused(pool, take, n))
<1>1. PICK f \in [0 .. N -> Nat] : Summed(f, strata)
  BY SumExists
<1> DEFINE B == {n \in 0 .. N : used(n) \in Nat /\ used(n) <= f[n]}
<1>2. N \in Nat /\ f[0] = 0 /\ \A n \in 1 .. N : f[n] = f[n - 1] + strata[n].count
  BY <1>1, StrataTyped DEF Summed
<1>3. 0 \in B
  <2>1. Unused(pool, take, 0) = pool
    BY UnusedFacts
  <2>2. used(0) = 0
    BY <2>1, FS_EmptySet
  <2> HIDE DEF used, N
  <2> QED
    BY <1>2, <2>2
<1>4. ASSUME NEW n \in 1 .. N, n - 1 \in B PROVE n \in B
  <2> DEFINE c == Cardinality(take[n])
  <2>1. used(n) = used(n - 1) + c
    BY UsedGrows
  <2>2. c \in Nat /\ c <= strata[n].count /\ strata[n].count \in Nat
    BY TakeFacts, StrataTyped
  <2> HIDE DEF used, c, N
  <2>3. n - 1 \in 0 .. N /\ n \in 0 .. N /\ f[n] = f[n - 1] + strata[n].count
        /\ f[n - 1] \in Nat /\ used(n - 1) \in Nat /\ used(n - 1) <= f[n - 1]
    BY <1>1, <1>2, <1>4
  <2> QED
    BY <2>1, <2>2, <2>3
<1>5. \A n \in 0 .. N : n \in B
  <2>1. B \in SUBSET (0 .. N)
    OBVIOUS
  <2> HIDE DEF B, N
  <2> QED
    BY <1>2, <1>3, <1>4, <2>1, Induct
<1>6. used(N) <= f[N]
  BY <1>2, <1>5
<1> QED
  BY <1>1, <1>6, QuotasAre

(* A draw of a section, from what its strata took, what filled it up and    *)
(* what the slice kept.                                                     *)
Drawing(s, take, kept) ==
  [selected |-> kept,
   warnings |-> {s.strata[n].tag : n \in {m \in DOMAIN s.strata : Cardinality(take[m]) < s.strata[m].count}}]

Used(pool, s, take) == pool \ Unused(pool, take, Len(s.strata))

FillsOf(pool, s, take, shuffle) ==
  Fill(s, Unused(pool, take, Len(s.strata)), Cardinality(Used(pool, s, take)), shuffle)

IsDrawing(pool, s, shuffle, d, take, fill, kept) ==
  /\ take \in Takes(pool, s.strata, shuffle)
  /\ fill \in FillsOf(pool, s, take, shuffle)
  /\ kept \in Sliced(s, take, Used(pool, s, take) \cup fill)
  /\ d = Drawing(s, take, kept)

LEMMA DrawingsAre ==
  ASSUME NEW pool, NEW s, NEW shuffle, NEW d
  PROVE  d \in drawSection(pool, s, shuffle) <=>
           \E take, fill, kept : IsDrawing(pool, s, shuffle, d, take, fill, kept)
<1> DEFINE kepts(take, fill) == {Drawing(s, take, kept) : kept \in Sliced(s, take, Used(pool, s, take) \cup fill)}
           draws(take) == UNION {kepts(take, fill) : fill \in FillsOf(pool, s, take, shuffle)}
<1>1. drawSection(pool, s, shuffle) = UNION {draws(take) : take \in Takes(pool, s.strata, shuffle)}
  BY Zenon DEF drawSection, Drawing, FillsOf, Used
<1>2. \A take, fill : d \in kepts(take, fill) <=>
        \E kept : kept \in Sliced(s, take, Used(pool, s, take) \cup fill) /\ d = Drawing(s, take, kept)
  OBVIOUS
<1> HIDE DEF kepts
<1>3. \A take : d \in draws(take) <=> \E fill : fill \in FillsOf(pool, s, take, shuffle) /\ d \in kepts(take, fill)
  OBVIOUS
<1> HIDE DEF draws
<1>4. d \in drawSection(pool, s, shuffle) <=> \E take : take \in Takes(pool, s.strata, shuffle) /\ d \in draws(take)
  BY <1>1
<1> QED
  BY <1>2, <1>3, <1>4, Zenon DEF IsDrawing

Free(s, W) == {q \in W : q.tags \cap exactKeys(s) = {}}

LEMMA FillBounds ==
  ASSUME NEW unused, Lawful(unused), NEW s \in SectionType, NEW n \in Nat, NEW shuffle,
         NEW fill \in Fill(s, unused, n, shuffle)
  PROVE  /\ fill \in SUBSET Free(s, unused) /\ Lawful(fill) /\ Cardinality(fill) \in Nat
         /\ Cardinality(Free(s, unused)) \in Nat
         /\ Cardinality(fill) = IF s.drawCount > n THEN Least(s.drawCount - n, Cardinality(Free(s, unused))) ELSE 0
<1>1. s.drawCount \in Nat
  BY DEF SectionType
<1>2. Free(s, unused) \in SUBSET unused
  BY DEF Free
<1>3. Lawful(Free(s, unused)) /\ Cardinality(Free(s, unused)) \in Nat
  BY <1>2, LawfulSubset
<1>4. Fill(s, unused, n, shuffle) =
        IF s.drawCount > n THEN Pick(shuffle, s.drawCount - n, Free(s, unused)) ELSE {{}}
  BY DEF Fill, Free
<1>5. CASE s.drawCount > n
  <2> DEFINE m == s.drawCount - n
  <2>1. m \in Nat /\ fill \in Pick(shuffle, m, Free(s, unused))
    BY <1>1, <1>4, <1>5
  <2> HIDE DEF m
  <2>2. /\ fill \in SUBSET Free(s, unused) /\ Lawful(fill)
        /\ Cardinality(fill) = Least(m, Cardinality(Free(s, unused))) /\ Cardinality(fill) \in Nat
    BY <1>3, <2>1, PickFacts
  <2> QED
    BY <1>3, <1>5, <2>2 DEF m
<1>6. CASE ~ (s.drawCount > n)
  <2>1. fill = {}
    BY <1>4, <1>6
  <2>2. {} \in SUBSET Free(s, unused) /\ Cardinality({}) = 0
    BY FS_EmptySet
  <2>3. Lawful({})
    BY <1>3, <2>2, LawfulSubset
  <2> QED
    BY <1>3, <1>6, <2>1, <2>2, <2>3
<1> QED
  BY <1>5, <1>6

(* What is drawn before the slice, and how much of it there is.             *)
Sized(s, pool, take, fill) ==
  LET free == Cardinality(Free(s, Unused(pool, take, Len(s.strata))))
      n == Cardinality(Used(pool, s, take))
  IN  /\ s.strata \in Seq(Stratum) /\ s.drawCount \in Nat /\ Len(s.strata) \in Nat
      /\ n \in Nat /\ free \in Nat /\ Cardinality(fill) \in Nat
      /\ Used(pool, s, take) \in SUBSET pool /\ fill \in SUBSET Free(s, Unused(pool, take, Len(s.strata)))
      /\ Used(pool, s, take) \cup fill \in SUBSET pool
      /\ Cardinality(Used(pool, s, take) \cup fill) = n + Cardinality(fill)
      /\ Cardinality(fill) = IF s.drawCount > n THEN Least(s.drawCount - n, free) ELSE 0
      /\ \A m \in 1 .. Len(s.strata) : take[m] \in SUBSET Used(pool, s, take)

LEMMA DrawSize ==
  ASSUME NEW pool, Lawful(pool), NEW s \in SectionType, NEW shuffle,
         NEW take \in Takes(pool, s.strata, shuffle), NEW fill \in FillsOf(pool, s, take, shuffle)
  PROVE  Sized(s, pool, take, fill)
<1> DEFINE L == Len(s.strata)
           U == Unused(pool, take, L)
           A == Used(pool, s, take)
           n == Cardinality(A)
<1>1. s.strata \in Seq(Stratum) /\ s.drawCount \in Nat
  BY DEF SectionType, Stratum
<1>2. L \in Nat
  BY <1>1, StrataTyped
<1>3. U \in SUBSET pool /\ A = pool \ U
  BY DEF Unused, Used
<1>4. fill \in Fill(s, U, n, shuffle)
  BY DEF FillsOf
<1>5. ASSUME NEW m \in 1 .. L PROVE take[m] \in SUBSET A
  <2>1. take[m] \in SUBSET Tagged(Unused(pool, take, m - 1), s.strata[m].tag)
    BY <1>1, TakeFacts
  <2>2. take[m] \in SUBSET pool
    BY <2>1 DEF Tagged, Unused
  <2>3. take[m] \cap U = {}
    BY <1>5 DEF Unused
  <2> QED
    BY <1>3, <2>2, <2>3
<1> HIDE DEF L, U, A
<1>6. Lawful(U) /\ Lawful(A) /\ n \in Nat
  <2>1. A \in SUBSET pool
    BY <1>3
  <2> QED
    BY <1>3, <2>1, LawfulSubset
<1>7. /\ fill \in SUBSET Free(s, U) /\ Lawful(fill) /\ Cardinality(fill) \in Nat
      /\ Cardinality(Free(s, U)) \in Nat
      /\ Cardinality(fill) = IF s.drawCount > n THEN Least(s.drawCount - n, Cardinality(Free(s, U))) ELSE 0
  <2> HIDE DEF n
  <2> QED
    BY <1>4, <1>6, FillBounds
<1>8. A \cap fill = {} /\ A \cup fill \in SUBSET pool
  BY <1>3, <1>7 DEF Free
<1>9. Cardinality(A \cup fill) = Cardinality(A) + Cardinality(fill) - Cardinality({})
  BY <1>6, <1>7, <1>8, FS_Union DEF Lawful
<1>10. Cardinality(A \cup fill) = n + Cardinality(fill)
  BY <1>6, <1>7, <1>9, FS_EmptySet
<1> QED
  BY <1>1, <1>2, <1>3, <1>5, <1>6, <1>7, <1>8, <1>10 DEF Sized, L, U, A

LEMMA SliceAll ==
  ASSUME NEW s, NEW take, NEW all, IsFiniteSet(all), s.drawCount \in Nat, Cardinality(all) <= s.drawCount,
         \A m \in DOMAIN take : take[m] \in SUBSET all
  PROVE  Sliced(s, take, all) = {all}
<1>1. Cardinality(all) \in Nat
  BY FS_CardinalityType
<1>2. Least(s.drawCount, Cardinality(all)) = Cardinality(all)
  BY <1>1 DEF Least
<1>3. kSubset(Least(s.drawCount, Cardinality(all)), all) = {all}
  <2>1. \A k \in SUBSET all : Cardinality(k) = Cardinality(all) => k = all
    BY FS_Subset
  <2> QED
    BY <1>2, <2>1 DEF kSubset
<1> QED
  BY <1>3 DEF Sliced

(* sectionBodySchema: with quotas within the section's number the slice has *)
(* nothing to cut.                                                          *)
Fits(s) == Quotas(s.strata) <= s.drawCount

LEMMA FitsWhole ==
  ASSUME NEW pool, Lawful(pool), NEW s \in SectionType, Fits(s), NEW shuffle,
         NEW take \in Takes(pool, s.strata, shuffle), NEW fill \in FillsOf(pool, s, take, shuffle)
  PROVE  /\ Cardinality(Used(pool, s, take) \cup fill) <= s.drawCount
         /\ \A kept : kept \in Sliced(s, take, Used(pool, s, take) \cup fill)
                       <=> kept = Used(pool, s, take) \cup fill
<1> DEFINE L == Len(s.strata)
           A == Used(pool, s, take)
           n == Cardinality(A)
           free == Cardinality(Free(s, Unused(pool, take, L)))
           all == A \cup fill
<1>0. Sized(s, pool, take, fill)
  BY DrawSize
<1>1. /\ s.strata \in Seq(Stratum) /\ s.drawCount \in Nat /\ n \in Nat
      /\ all \in SUBSET pool
      /\ Cardinality(all) = n + Cardinality(fill)
      /\ Cardinality(fill) \in Nat /\ free \in Nat
      /\ Cardinality(fill) = IF s.drawCount > n THEN Least(s.drawCount - n, free) ELSE 0
      /\ \A m \in 1 .. L : take[m] \in SUBSET A
  BY <1>0 DEF Sized
<1>2. n <= Quotas(s.strata)
  BY <1>1, UsedAtMost DEF Used
<1>3. Quotas(s.strata) \in Nat
  <2>1. PICK f \in [0 .. L -> Nat] : Summed(f, s.strata)
    BY <1>1, SumExists
  <2>2. L \in 0 .. L
    BY <1>1, StrataTyped
  <2>3. Quotas(s.strata) = f[L]
    BY <1>1, <2>1, QuotasAre
  <2> QED
    BY <2>1, <2>2, <2>3
<1>4. DOMAIN take = 1 .. L
  BY <1>1, TakeFacts
<1>5. \A m \in DOMAIN take : take[m] \in SUBSET all
  BY <1>1, <1>4
<1> HIDE DEF n, free, L, A, all
<1>6. Cardinality(all) <= s.drawCount
  BY <1>1, <1>2, <1>3 DEF Least, Fits
<1>7. IsFiniteSet(all)
  BY <1>1, FS_Subset DEF Lawful
<1>8. Sliced(s, take, all) = {all}
  BY <1>1, <1>5, <1>6, <1>7, SliceAll
<1>9. \A kept : kept \in Sliced(s, take, all) <=> kept = all
  BY <1>8
<1> QED
  BY <1>6, <1>9 DEF A, all

FullDrawing(pool, s, shuffle, d, take, fill) ==
  /\ take \in Takes(pool, s.strata, shuffle)
  /\ fill \in FillsOf(pool, s, take, shuffle)
  /\ d = Drawing(s, take, Used(pool, s, take) \cup fill)

LEMMA FittingDraws ==
  ASSUME NEW pool, Lawful(pool), NEW s \in SectionType, Fits(s), NEW shuffle, NEW d
  PROVE  d \in drawSection(pool, s, shuffle) <=>
           \E take, fill : FullDrawing(pool, s, shuffle, d, take, fill)
<1>1. ASSUME NEW take, NEW fill, NEW kept, IsDrawing(pool, s, shuffle, d, take, fill, kept)
      PROVE  FullDrawing(pool, s, shuffle, d, take, fill)
  <2>1. /\ take \in Takes(pool, s.strata, shuffle) /\ fill \in FillsOf(pool, s, take, shuffle)
        /\ kept \in Sliced(s, take, Used(pool, s, take) \cup fill) /\ d = Drawing(s, take, kept)
    BY <1>1 DEF IsDrawing
  <2>2. kept = Used(pool, s, take) \cup fill
    BY <2>1, FitsWhole
  <2> QED
    BY <2>1, <2>2 DEF FullDrawing
<1>2. ASSUME NEW take, NEW fill, FullDrawing(pool, s, shuffle, d, take, fill)
      PROVE  IsDrawing(pool, s, shuffle, d, take, fill, Used(pool, s, take) \cup fill)
  <2>1. /\ take \in Takes(pool, s.strata, shuffle) /\ fill \in FillsOf(pool, s, take, shuffle)
        /\ d = Drawing(s, take, Used(pool, s, take) \cup fill)
    BY <1>2 DEF FullDrawing
  <2>2. Used(pool, s, take) \cup fill \in Sliced(s, take, Used(pool, s, take) \cup fill)
    BY <2>1, FitsWhole
  <2> QED
    BY <2>1, <2>2 DEF IsDrawing
<1> QED
  BY <1>1, <1>2, DrawingsAre, Zenon

(* Nothing but the pool is drawn.                                           *)
LEMMA DrawnFromPool ==
  ASSUME NEW pool, Lawful(pool), NEW s \in SectionType, NEW shuffle, NEW d \in drawSection(pool, s, shuffle)
  PROVE  d.selected \in SUBSET pool
<1>0. PICK take, fill, kept : IsDrawing(pool, s, shuffle, d, take, fill, kept)
  BY DrawingsAre, Zenon
<1>1. take \in Takes(pool, s.strata, shuffle)
  BY <1>0 DEF IsDrawing
<1>2. fill \in FillsOf(pool, s, take, shuffle)
  BY <1>0 DEF IsDrawing
<1>3. kept \in Sliced(s, take, Used(pool, s, take) \cup fill) /\ d = Drawing(s, take, kept)
  BY <1>0 DEF IsDrawing
<1>04. Sized(s, pool, take, fill)
  BY <1>1, <1>2, DrawSize
<1>4. Used(pool, s, take) \cup fill \in SUBSET pool
  BY <1>04 DEF Sized
<1>5. kept \in SUBSET (Used(pool, s, take) \cup fill)
  BY <1>3 DEF Sliced, kSubset
<1> QED
  BY <1>3, <1>4, <1>5 DEF Drawing

(* QuotasApart: a question has the tag of one stratum at most.              *)
LEMMA OneQuota ==
  ASSUME NEW pool, NEW s \in SectionType, QuotasApart(pool, s), NEW q \in pool,
         NEW m \in 1 .. Len(s.strata), NEW n \in 1 .. Len(s.strata),
         s.strata[m].tag \in q.tags, s.strata[n].tag \in q.tags
  PROVE  m = n
<1> DEFINE I == {i \in DOMAIN s.strata : s.strata[i].tag \in q.tags}
<1>1. s.strata \in Seq(Stratum)
  BY DEF SectionType, Stratum
<1>2. Len(s.strata) \in Nat /\ DOMAIN s.strata = 1 .. Len(s.strata)
  BY <1>1, StrataTyped
<1>3. m \in I /\ n \in I /\ I \in SUBSET (1 .. Len(s.strata))
  BY <1>2
<1>4. Cardinality(I) <= 1
  BY DEF QuotasApart
<1>5. IsFiniteSet(1 .. Len(s.strata))
  BY <1>2, FS_Interval
<1> HIDE DEF I
<1>6. IsFiniteSet(I) /\ Cardinality(I) \in Nat
  BY <1>3, <1>5, FS_Subset, FS_CardinalityType
<1>7. Cardinality(I) # 0
  BY <1>3, <1>6, FS_EmptySet
<1>8. Cardinality(I) = 1
  BY <1>4, <1>6, <1>7
<1>9. PICK x : I = {x}
  BY <1>6, <1>8, FS_Singleton
<1> QED
  BY <1>3, <1>9

(* drawSection: the remainder brings no question of an exact tag.           *)
LEMMA ExactDraw ==
  ASSUME NEW pool, Lawful(pool), NEW s \in SectionType, QuotasApart(pool, s), NEW shuffle,
         NEW d \in drawSection(pool, s, shuffle),
         NEW n \in 1 .. Len(s.strata), s.strata[n].mode = "exact"
  PROVE  /\ IsFiniteSet(Tagged(d.selected, s.strata[n].tag))
         /\ Cardinality(Tagged(d.selected, s.strata[n].tag)) <= s.strata[n].count
<1>0. PICK take, fill, kept : IsDrawing(pool, s, shuffle, d, take, fill, kept)
  BY DrawingsAre, Zenon
<1>1. take \in Takes(pool, s.strata, shuffle)
  BY <1>0 DEF IsDrawing
<1>2. fill \in FillsOf(pool, s, take, shuffle)
  BY <1>0 DEF IsDrawing
<1>3. kept \in Sliced(s, take, Used(pool, s, take) \cup fill) /\ d = Drawing(s, take, kept)
  BY <1>0 DEF IsDrawing
<1> DEFINE L == Len(s.strata)
           tag == s.strata[n].tag
<1>4. s.strata \in Seq(Stratum)
  BY DEF SectionType, Stratum
<1>05. Sized(s, pool, take, fill)
  BY <1>1, <1>2, DrawSize
<1>5. /\ fill \in SUBSET Free(s, Unused(pool, take, L)) /\ Used(pool, s, take) \in SUBSET pool
  BY <1>05 DEF Sized
<1>6. d.selected \in SUBSET (Used(pool, s, take) \cup fill)
  BY <1>3 DEF Sliced, kSubset, Drawing
<1>7. tag \in exactKeys(s)
  <2>1. s.strata[n] \in ToSet(s.strata)
    BY <1>4, StrataTyped DEF ToSet
  <2> QED
    BY <2>1 DEF exactKeys
<1>8. ASSUME NEW q \in Tagged(d.selected, tag) PROVE q \in take[n]
  <2>1. q \in d.selected /\ tag \in q.tags
    BY <1>8 DEF Tagged
  <2>2. q \notin fill
    BY <1>5, <1>7, <2>1 DEF Free
  <2>3. q \in pool /\ q \notin Unused(pool, take, L)
    BY <1>6, <2>1, <2>2 DEF Used
  <2>4. PICK m \in 1 .. L : q \in take[m]
    BY <2>3 DEF Unused
  <2>5. take[m] \in SUBSET Tagged(Unused(pool, take, m - 1), s.strata[m].tag)
    BY <1>1, <1>4, TakeFacts
  <2>6. s.strata[m].tag \in q.tags
    BY <2>4, <2>5 DEF Tagged
  <2>7. m = n
    BY <2>1, <2>3, <2>6, OneQuota
  <2> QED
    BY <2>4, <2>7
<1>9. Lawful(take[n]) /\ Cardinality(take[n]) \in Nat /\ Cardinality(take[n]) <= s.strata[n].count
      /\ s.strata[n].count \in Nat
  BY <1>1, <1>4, TakeFacts, StrataTyped
<1> DEFINE T == Tagged(d.selected, tag)
           F == take[n]
           c == s.strata[n].count
<1>10. T \in SUBSET F
  BY <1>8
<1> HIDE DEF T, F, c
<1>11. Lawful(T) /\ Cardinality(T) \in Nat /\ Cardinality(T) <= Cardinality(F)
  BY <1>9, <1>10, LawfulSubset DEF F
<1>12. IsFiniteSet(T) /\ Cardinality(T) <= c
  BY <1>9, <1>11 DEF F, c, Lawful
<1> QED
  BY <1>12 DEF T, c

(* When no question serves two quotas, no stratum takes from another, and   *)
(* two draws differ in what they take but not in how much.                  *)
LEMMA TagUntouched ==
  ASSUME NEW pool, NEW s \in SectionType, QuotasApart(pool, s), NEW take,
         \A m \in 1 .. Len(s.strata) : take[m] \in SUBSET Tagged(pool, s.strata[m].tag),
         NEW n \in 1 .. Len(s.strata)
  PROVE  Tagged(Unused(pool, take, n - 1), s.strata[n].tag) = Tagged(pool, s.strata[n].tag)
<1> DEFINE L == Len(s.strata)
           tag == s.strata[n].tag
<1>1. s.strata \in Seq(Stratum)
  BY DEF SectionType, Stratum
<1>2. L \in Nat
  BY <1>1, StrataTyped
<1>3. ASSUME NEW q \in Tagged(pool, tag) PROVE q \in Unused(pool, take, n - 1)
  <2>1. q \in pool /\ tag \in q.tags
    BY <1>3 DEF Tagged
  <2>2. ASSUME NEW m \in 1 .. (n - 1), q \in take[m] PROVE FALSE
    <3>1. m \in 1 .. L /\ m # n
      <4> HIDE DEF L
      <4>1. n \in 1 .. L
        BY DEF L
      <4> QED
        BY <1>2, <2>2, <4>1
    <3>2. s.strata[m].tag \in q.tags
      BY <2>2, <3>1 DEF Tagged
    <3> QED
      BY <2>1, <3>1, <3>2, OneQuota
  <2> QED
    BY <2>1, <2>2 DEF Unused
<1>4. \A q \in Unused(pool, take, n - 1) : q \in pool
  BY DEF Unused
<1> QED
  BY <1>3, <1>4 DEF Tagged

LEMMA ApartTakes ==
  ASSUME NEW pool, Lawful(pool), NEW s \in SectionType, QuotasApart(pool, s), NEW shuffle,
         NEW take \in Takes(pool, s.strata, shuffle), NEW n \in 1 .. Len(s.strata)
  PROVE  /\ take[n] \in SUBSET Tagged(pool, s.strata[n].tag) /\ Lawful(take[n])
         /\ Cardinality(take[n]) = Least(s.strata[n].count, Cardinality(Tagged(pool, s.strata[n].tag)))
         /\ Cardinality(take[n]) \in Nat
<1> DEFINE L == Len(s.strata)
<1>1. s.strata \in Seq(Stratum)
  BY DEF SectionType, Stratum
<1>2. \A m \in 1 .. L : take[m] \in SUBSET Tagged(pool, s.strata[m].tag)
  <2> SUFFICES ASSUME NEW m \in 1 .. L PROVE take[m] \in SUBSET Tagged(pool, s.strata[m].tag)
    OBVIOUS
  <2>1. take[m] \in SUBSET Tagged(Unused(pool, take, m - 1), s.strata[m].tag)
    BY <1>1, TakeFacts
  <2> QED
    BY <2>1 DEF Tagged, Unused
<1>3. Tagged(Unused(pool, take, n - 1), s.strata[n].tag) = Tagged(pool, s.strata[n].tag)
  BY <1>2, TagUntouched
<1>4. /\ Cardinality(take[n]) = Least(s.strata[n].count, Cardinality(Tagged(Unused(pool, take, n - 1), s.strata[n].tag)))
      /\ Cardinality(take[n]) \in Nat /\ Lawful(take[n])
  BY <1>1, TakeFacts
<1> QED
  BY <1>2, <1>3, <1>4

LEMMA ApartFree ==
  ASSUME NEW pool, Lawful(pool), NEW s \in SectionType, QuotasApart(pool, s), NEW shuffle,
         NEW take \in Takes(pool, s.strata, shuffle), NEW n \in 1 .. Len(s.strata)
  PROVE  /\ Cardinality(Free(s, Unused(pool, take, n - 1))) \in Nat
         /\ Cardinality(Free(s, Unused(pool, take, n))) =
              IF s.strata[n].mode = "exact" THEN Cardinality(Free(s, Unused(pool, take, n - 1)))
              ELSE Cardinality(Free(s, Unused(pool, take, n - 1))) - Cardinality(take[n])
<1> DEFINE L == Len(s.strata)
           U == Unused(pool, take, n - 1)
           W == Unused(pool, take, n)
           F == take[n]
<1>1. s.strata \in Seq(Stratum)
  BY DEF SectionType, Stratum
<1>0. F \in SUBSET U /\ U \in SUBSET pool
  BY <1>1, UsedGrows
<1>02. W = U \ F
  <2> DEFINE k == n - 1
  <2>1. k \in Nat /\ k + 1 = n
    BY <1>1, StrataTyped
  <2> HIDE DEF k
  <2>2. Unused(pool, take, k + 1) = Unused(pool, take, k) \ take[k + 1]
    BY <2>1, UnusedFacts
  <2> QED
    BY <2>1, <2>2 DEF k
<1>2. F \in SUBSET U /\ W = U \ F /\ U \in SUBSET pool
  BY <1>0, <1>02
<1>3. F \in SUBSET Tagged(pool, s.strata[n].tag) /\ Lawful(F) /\ Cardinality(F) \in Nat
  BY ApartTakes
<1>4. DOMAIN s.strata = 1 .. L /\ s.strata[n] \in Stratum
  BY <1>1, StrataTyped
<1> HIDE DEF U, W, F
<1> DEFINE A == Free(s, U)
<1>5. A \in SUBSET pool
  BY <1>2 DEF Free
<1>6. IsFiniteSet(A) /\ Cardinality(A) \in Nat
  <2> HIDE DEF A
  <2> QED
    BY <1>5, LawfulSubset DEF Lawful
<1>7. CASE s.strata[n].mode = "exact"
  <2>1. s.strata[n].tag \in exactKeys(s)
    BY <1>4, <1>7 DEF exactKeys, ToSet
  <2>2. Free(s, W) = A
    BY <1>2, <1>3, <2>1 DEF Free, Tagged
  <2> QED
    BY <1>6, <1>7, <2>2 DEF U, W, F
<1>8. CASE s.strata[n].mode # "exact"
  <2>1. ASSUME NEW q \in F PROVE q \in A
    <3>1. q \in pool /\ q \in U /\ s.strata[n].tag \in q.tags
      BY <1>2, <1>3 DEF Tagged
    <3>2. ASSUME NEW key \in q.tags \cap exactKeys(s) PROVE FALSE
      <4>1. PICK m \in 1 .. L : s.strata[m].tag = key /\ s.strata[m].mode = "exact"
        BY <1>4, <3>2 DEF exactKeys, ToSet
      <4>2. m = n
        BY <3>1, <3>2, <4>1, OneQuota
      <4> QED
        BY <1>8, <4>1, <4>2
    <3> QED
      BY <3>1, <3>2 DEF Free
  <2>2. Free(s, W) = A \ F
    BY <1>2 DEF Free
  <2>3. A \cap F = F
    BY <2>1
  <2> HIDE DEF A
  <2>4. Cardinality(A \ F) = Cardinality(A) - Cardinality(A \cap F)
    BY <1>6, FS_Difference
  <2> QED
    BY <1>6, <1>8, <2>2, <2>3, <2>4 DEF U, W, F, A
<1> QED
  BY <1>7, <1>8

(* Two draws take as many questions of the strata and leave as many free.  *)
SameSizes(pool, s, take, other) ==
  /\ Cardinality(Used(pool, s, take)) = Cardinality(Used(pool, s, other))
  /\ Cardinality(Free(s, Unused(pool, take, Len(s.strata)))) =
       Cardinality(Free(s, Unused(pool, other, Len(s.strata))))

LEMMA ApartSame ==
  ASSUME NEW pool, Lawful(pool), NEW s \in SectionType, QuotasApart(pool, s), NEW shuffle, NEW shuffle2,
         NEW take \in Takes(pool, s.strata, shuffle), NEW other \in Takes(pool, s.strata, shuffle2)
  PROVE  SameSizes(pool, s, take, other)
<1> DEFINE L == Len(s.strata)
           used(t, n) == Cardinality(pool \ Unused(pool, t, n))
           free(t, n) == Cardinality(Free(s, Unused(pool, t, n)))
           B == {n \in 0 .. L : used(take, n) = used(other, n) /\ free(take, n) = free(other, n)}
<1>1. s.strata \in Seq(Stratum)
  BY DEF SectionType, Stratum
<1>2. L \in Nat
  BY <1>1, StrataTyped
<1>3. 0 \in B
  <2>1. Unused(pool, take, 0) = pool /\ Unused(pool, other, 0) = pool
    BY UnusedFacts
  <2>2. 0 \in 0 .. L
    <3> HIDE DEF L
    <3> QED
      BY <1>2
  <2> QED
    BY <2>1, <2>2
<1>4. ASSUME NEW n \in 1 .. L, n - 1 \in B PROVE n \in B
  <2>10. Cardinality(take[n]) = Least(s.strata[n].count, Cardinality(Tagged(pool, s.strata[n].tag)))
    BY ApartTakes
  <2>11. Cardinality(other[n]) = Least(s.strata[n].count, Cardinality(Tagged(pool, s.strata[n].tag)))
    BY ApartTakes
  <2>1. Cardinality(take[n]) = Cardinality(other[n])
    BY <2>10, <2>11
  <2>2. used(take, n) = used(take, n - 1) + Cardinality(take[n])
    BY <1>1, UsedGrows
  <2>3. used(other, n) = used(other, n - 1) + Cardinality(other[n])
    BY <1>1, UsedGrows
  <2>4. free(take, n) = IF s.strata[n].mode = "exact" THEN free(take, n - 1)
                        ELSE free(take, n - 1) - Cardinality(take[n])
    BY ApartFree
  <2>5. free(other, n) = IF s.strata[n].mode = "exact" THEN free(other, n - 1)
                         ELSE free(other, n - 1) - Cardinality(other[n])
    BY ApartFree
  <2>6. used(take, n - 1) = used(other, n - 1) /\ free(take, n - 1) = free(other, n - 1)
    BY <1>4
  <2>7. n \in 0 .. L
    <3> HIDE DEF L
    <3> QED
      BY <1>2
  <2> HIDE DEF used, free, L
  <2> QED
    BY <2>1, <2>2, <2>3, <2>4, <2>5, <2>6, <2>7
<1>5. \A n \in 0 .. L : n \in B
  <2>1. B \in SUBSET (0 .. L)
    OBVIOUS
  <2> HIDE DEF B, L
  <2> QED
    BY <1>2, <1>3, <1>4, <2>1, Induct
<1>6. L \in 0 .. L
  <2> HIDE DEF L
  <2> QED
    BY <1>2
<1> QED
  BY <1>5, <1>6 DEF Used, SameSizes

(* The draw in the bank's order is possible.                                *)
LEMMA ApartFirst ==
  ASSUME NEW pool, Lawful(pool), NEW s \in SectionType, QuotasApart(pool, s)
  PROVE  \E take : take \in Takes(pool, s.strata, "identity")
<1> DEFINE L == Len(s.strata)
           open(n) == Tagged(pool, s.strata[n].tag)
           first(n) == CHOOSE F : F \in Pick("identity", s.strata[n].count, open(n))
           take == [n \in 1 .. L |-> first(n)]
<1>1. s.strata \in Seq(Stratum)
  BY DEF SectionType, Stratum
<1>2. \A n \in 1 .. L : s.strata[n].count \in Nat
  BY <1>1, StrataTyped
<1>3. ASSUME NEW n \in 1 .. L
      PROVE  take[n] \in Pick("identity", s.strata[n].count, open(n)) /\ take[n] \in SUBSET open(n)
             /\ open(n) \in SUBSET pool
  <2>1. open(n) \in SUBSET pool
    BY DEF Tagged
  <2> DEFINE S == open(n)
             c == s.strata[n].count
  <2>2. Pick("identity", c, S) # {}
    <3>1. c \in Nat /\ S \in SUBSET pool
      BY <1>2, <2>1
    <3> HIDE DEF c, S
    <3>2. Lawful(S)
      BY <3>1, LawfulSubset
    <3> QED
      BY <3>1, <3>2, PickExists
  <2>3. first(n) \in Pick("identity", c, S)
    <3> HIDE DEF open
    <3>1. \E F : F \in Pick("identity", c, S)
      BY <2>2
    <3> QED
      BY <3>1, Zenon
  <2>4. take[n] \in Pick("identity", c, S)
    BY <2>3
  <2>5. take[n] \in SUBSET S
    <3> HIDE DEF take, S, c
    <3> QED
      BY <2>4 DEF Pick, kSubset
  <2> QED
    BY <2>1, <2>4, <2>5
<1>4. DOMAIN take = 1 .. L /\ take = [n \in 1 .. L |-> take[n]]
  OBVIOUS
<1> HIDE DEF take, first
<1>5. ASSUME NEW n \in 1 .. L PROVE Serves(pool, s.strata, take, n)
  <2>1. \A m \in 1 .. Len(s.strata) : take[m] \in SUBSET Tagged(pool, s.strata[m].tag)
    BY <1>3
  <2>2. Tagged(Unused(pool, take, n - 1), s.strata[n].tag) = open(n)
    BY <2>1, TagUntouched
  <2> QED
    BY <1>3, <2>2 DEF Serves
<1>6. take \in [1 .. L -> SUBSET pool]
  <2>1. \A n \in 1 .. L : take[n] \in SUBSET pool
    <3> SUFFICES ASSUME NEW n \in 1 .. L PROVE take[n] \in SUBSET pool
      OBVIOUS
    <3> HIDE DEF open, L
    <3> QED
      BY <1>3
  <2> HIDE DEF L
  <2> QED
    BY <1>4, <2>1
<1> QED
  BY <1>1, <1>5, <1>6, TakesServe

(* checkDrawFeasibility promises what drawSection then does.                *)
LEMMA FeasibleFills ==
  ASSUME NEW pool, Lawful(pool), NEW s \in SectionType, Fits(s), QuotasApart(pool, s),
         s.forms = <<>>, ~s.drawAll, Feasible(pool, s), NEW d \in drawSection(pool, s, "random")
  PROVE  /\ Cardinality(d.selected) = s.drawCount
         /\ \A n \in 1 .. Len(s.strata) : Cardinality(Tagged(d.selected, s.strata[n].tag)) >= s.strata[n].count
<1> DEFINE L == Len(s.strata)
<1>1. s.strata \in Seq(Stratum) /\ s.drawCount \in Nat
  BY DEF SectionType, Stratum
<1>2. PICK take, fill : FullDrawing(pool, s, "random", d, take, fill)
  BY FittingDraws
<1>3. take \in Takes(pool, s.strata, "random")
  BY <1>2 DEF FullDrawing
<1>4. fill \in FillsOf(pool, s, take, "random")
  BY <1>2 DEF FullDrawing
<1>5. d.selected = Used(pool, s, take) \cup fill
  BY <1>2 DEF FullDrawing, Drawing
<1>6. PICK other : other \in Takes(pool, s.strata, "identity")
  BY ApartFirst
<1>7. PICK filled : filled \in FillsOf(pool, s, other, "identity")
  <2> DEFINE U == Unused(pool, other, L)
             m == Cardinality(Used(pool, s, other))
  <2>1. U \in SUBSET pool /\ Used(pool, s, other) \in SUBSET pool
    BY DEF Unused, Used
  <2>2. Lawful(U) /\ m \in Nat
    <3> HIDE DEF U
    <3> QED
      BY <2>1, LawfulSubset
  <2>3. FillsOf(pool, s, other, "identity") = Fill(s, U, m, "identity")
    BY DEF FillsOf
  <2> HIDE DEF U, m
  <2>4. Fill(s, U, m, "identity") # {}
    BY <2>2, FillExists
  <2> QED
    BY <2>3, <2>4
<1> DEFINE all == Used(pool, s, other) \cup filled
           e == Drawing(s, other, all)
<1>8. e.selected = all /\ e.warnings = {s.strata[n].tag : n \in {m \in DOMAIN s.strata : Cardinality(other[m]) < s.strata[m].count}}
  BY DEF Drawing
<1>9. e \in drawSection(pool, s, "identity")
  <2>1. FullDrawing(pool, s, "identity", e, other, filled)
    BY <1>6, <1>7 DEF FullDrawing
  <2> HIDE DEF e
  <2> QED
    BY <2>1, FittingDraws
<1> HIDE DEF e
<1>10. e.warnings = {} /\ Cardinality(all) >= s.drawCount
  BY <1>8, <1>9 DEF Feasible
<1>11. \A n \in 1 .. L : Cardinality(take[n]) >= s.strata[n].count /\ Lawful(take[n])
  <2> SUFFICES ASSUME NEW n \in 1 .. L
               PROVE  Cardinality(take[n]) >= s.strata[n].count /\ Lawful(take[n])
    OBVIOUS
  <2>10. Cardinality(take[n]) = Least(s.strata[n].count, Cardinality(Tagged(pool, s.strata[n].tag)))
    BY <1>3, ApartTakes
  <2>11. Cardinality(other[n]) = Least(s.strata[n].count, Cardinality(Tagged(pool, s.strata[n].tag)))
    BY <1>6, ApartTakes
  <2>12. Cardinality(other[n]) \in Nat
    BY <1>6, ApartTakes
  <2>13. Lawful(take[n])
    BY <1>3, ApartTakes
  <2>1. Cardinality(take[n]) = Cardinality(other[n]) /\ Cardinality(other[n]) \in Nat /\ Lawful(take[n])
    BY <2>10, <2>11, <2>12, <2>13
  <2>2. n \in DOMAIN s.strata /\ s.strata[n].count \in Nat
    BY <1>1, StrataTyped
  <2>3. ~ (Cardinality(other[n]) < s.strata[n].count)
    BY <1>8, <1>10, <2>2
  <2> QED
    BY <2>1, <2>2, <2>3
<1>12. Cardinality(d.selected) = s.drawCount
  <2> DEFINE a == Cardinality(Used(pool, s, take))
             b == Cardinality(Used(pool, s, other))
             f == Cardinality(Free(s, Unused(pool, take, L)))
             g == Cardinality(Free(s, Unused(pool, other, L)))
             x == Cardinality(fill)
             y == Cardinality(filled)
  <2>10. Sized(s, pool, take, fill)
    BY <1>3, <1>4, DrawSize
  <2>1. /\ a \in Nat /\ x \in Nat /\ f \in Nat /\ Cardinality(d.selected) = a + x
        /\ x = IF s.drawCount > a THEN Least(s.drawCount - a, f) ELSE 0
    BY <1>5, <2>10 DEF Sized
  <2>2. /\ b \in Nat /\ y \in Nat /\ g \in Nat /\ Cardinality(all) = b + y
        /\ y = IF s.drawCount > b THEN Least(s.drawCount - b, g) ELSE 0
    <3>1. Sized(s, pool, other, filled)
      BY <1>6, <1>7, DrawSize
    <3> QED
      BY <3>1 DEF Sized
  <2>3. a = b /\ f = g
    <3>1. PICK shuffle, shuffle2 : /\ take \in Takes(pool, s.strata, shuffle)
                                   /\ other \in Takes(pool, s.strata, shuffle2)
      BY <1>3, <1>6
    <3> HIDE DEF a, b, f, g, x, y, all, L
    <3>2. SameSizes(pool, s, take, other)
      BY <3>1, ApartSame
    <3> QED
      BY <3>2 DEF SameSizes, a, b, f, g, L
  <2>4. Cardinality(d.selected) <= s.drawCount
    <3>1. Cardinality(Used(pool, s, take) \cup fill) <= s.drawCount
      BY <1>3, <1>4, FitsWhole
    <3> QED
      BY <1>5, <3>1
  <2> HIDE DEF a, b, f, g, x, y, all
  <2>5. x = y
    BY <2>1, <2>2, <2>3
  <2> QED
    BY <1>1, <1>10, <2>1, <2>2, <2>3, <2>4, <2>5
<1>13. ASSUME NEW n \in 1 .. L
       PROVE  Cardinality(Tagged(d.selected, s.strata[n].tag)) >= s.strata[n].count
  <2> DEFINE T == Tagged(d.selected, s.strata[n].tag)
             F == take[n]
  <2>1. F \in SUBSET Tagged(pool, s.strata[n].tag)
    BY <1>3, ApartTakes
  <2>20. Sized(s, pool, take, fill)
    BY <1>3, <1>4, DrawSize
  <2>2. F \in SUBSET Used(pool, s, take) /\ Used(pool, s, take) \cup fill \in SUBSET pool
    BY <2>20 DEF Sized
  <2>3. F \in SUBSET T /\ T \in SUBSET pool
    BY <1>5, <2>1, <2>2 DEF Tagged
  <2> HIDE DEF T, F
  <2>4. Lawful(T) /\ Cardinality(T) \in Nat
    BY <2>3, LawfulSubset
  <2>5. Cardinality(F) <= Cardinality(T) /\ Cardinality(F) \in Nat
    BY <2>3, <2>4, LawfulSubset
  <2>6. Cardinality(F) >= s.strata[n].count /\ s.strata[n].count \in Nat
    BY <1>1, <1>11, StrataTyped DEF F
  <2> QED
    BY <2>4, <2>5, <2>6 DEF T
<1> QED
  BY <1>12, <1>13

(* No warning is a quota that was met.                                      *)
LEMMA Unwarned ==
  ASSUME NEW pool, Lawful(pool), NEW s \in SectionType, NEW take \in Takes(pool, s.strata, "identity"), NEW kept
  PROVE  Drawing(s, take, kept).warnings = {} <=> NoneShort(s.strata, take, Len(s.strata))
<1>1. s.strata \in Seq(Stratum)
  BY DEF SectionType, Stratum
<1>2. DOMAIN s.strata = 1 .. Len(s.strata) /\ \A m \in 1 .. Len(s.strata) : s.strata[m].count \in Nat
  BY <1>1, StrataTyped
<1>3. \A m \in 1 .. Len(s.strata) : Cardinality(take[m]) \in Nat
  <2>1. \A m \in 1 .. Len(s.strata) : take[m] \in SUBSET pool
    BY <1>1, TakesServe
  <2> QED
    BY <2>1, LawfulSubset
<1>4. Drawing(s, take, kept).warnings = {} <=>
        \A m \in DOMAIN s.strata : ~ (Cardinality(take[m]) < s.strata[m].count)
  BY DEF Drawing
<1> QED
  BY <1>2, <1>3, <1>4 DEF NoneShort

(* ... and there is always a remainder, if only an empty one.               *)
LEMMA SomeFill ==
  ASSUME NEW pool, Lawful(pool), NEW s \in SectionType, NEW take
  PROVE  \E fill : fill \in FillsOf(pool, s, take, "identity")
<1> DEFINE U == Unused(pool, take, Len(s.strata))
           m == Cardinality(Used(pool, s, take))
<1>1. U \in SUBSET pool /\ Used(pool, s, take) \in SUBSET pool
  BY DEF Unused, Used
<1>2. Lawful(U) /\ m \in Nat
  <2> HIDE DEF U
  <2> QED
    BY <1>1, LawfulSubset
<1>3. FillsOf(pool, s, take, "identity") = Fill(s, U, m, "identity")
  BY DEF FillsOf
<1> HIDE DEF U, m
<1>4. Fill(s, U, m, "identity") # {}
  BY <1>2, FillExists
<1> QED
  BY <1>3, <1>4

(* checkDrawFeasibility of one section: one more question in the topic does *)
(* no harm.                                                                 *)
LEMMA FeasibleGrows ==
  ASSUME NEW P, NEW z, Lawful(P \cup {z}), z \notin P, NEW s \in SectionType,
         s.forms = <<>> /\ ~s.drawAll => Fits(s), Feasible(P, s)
  PROVE  Feasible(P \cup {z}, s)
<1>1. CASE s.forms # <<>>
  BY <1>1 DEF Feasible, IdsIn
<1>2. CASE s.forms = <<>> /\ s.drawAll
  BY <1>2 DEF Feasible
<1>3. CASE s.forms = <<>> /\ ~s.drawAll
  <2> DEFINE L == Len(s.strata)
             Q == P \cup {z}
  <2> SUFFICES ASSUME NEW e \in drawSection(Q, s, "identity")
               PROVE  e.warnings = {} /\ Cardinality(e.selected) >= s.drawCount
    BY <1>3 DEF Feasible
  <2>1. /\ s.strata \in Seq(Stratum) /\ s.drawCount \in Nat
        /\ Lawful(P) /\ Lawful(Q) /\ IsFiniteSet(P) /\ IsFiniteSet(Q) /\ Fits(s)
    BY <1>3, LawfulSubset DEF SectionType, Stratum, Lawful
  <2>2. PICK more, filled : FullDrawing(Q, s, "identity", e, more, filled)
    <3> HIDE DEF Q
    <3> QED
      BY <2>1, FittingDraws
  <2>20. more \in Takes(Q, s.strata, "identity")
    BY <2>2 DEF FullDrawing
  <2>21. filled \in FillsOf(Q, s, more, "identity")
    BY <2>2 DEF FullDrawing
  <2>22. e = Drawing(s, more, Used(Q, s, more) \cup filled)
    BY <2>2 DEF FullDrawing
  <2>3. PICK take : Keeps(P, z, s.strata, more, take, L)
    BY <2>1, <2>20, DrawKeepsStep
  <2>5. take \in Takes(P, s.strata, "identity")
    BY <2>1, <2>3, TakesServe DEF Keeps
  <2>7. PICK fill : fill \in FillsOf(P, s, take, "identity")
    BY <2>1, SomeFill
  <2> DEFINE U == Unused(P, take, L)
             V == Unused(Q, more, L)
             chosen == Used(P, s, take) \cup fill
             d == Drawing(s, take, chosen)
  <2>8. d \in drawSection(P, s, "identity")
    <3>1. FullDrawing(P, s, "identity", d, take, fill)
      BY <2>5, <2>7 DEF FullDrawing
    <3> HIDE DEF d
    <3> QED
      BY <2>1, <3>1, FittingDraws
  <2>9. d.warnings = {} /\ Cardinality(chosen) >= s.drawCount
    <3>1. d.selected = chosen
      BY DEF Drawing
    <3> HIDE DEF d
    <3> QED
      BY <1>3, <2>8, <3>1 DEF Feasible
  <2>10. NoneShort(s.strata, take, L)
    BY <2>1, <2>5, <2>9, Unwarned
  <2>11. PICK w : w \notin U /\ V = U \cup {w}
    BY <2>3, <2>10 DEF Keeps
  <2>12. NoneShort(s.strata, more, L)
    BY <2>3, <2>10 DEF Keeps
  <2>13. e.warnings = {}
    <3> HIDE DEF Q
    <3> QED
      BY <2>1, <2>20, <2>22, <2>12, Unwarned
  <2>4. Sized(s, P, take, fill) /\ Sized(s, Q, more, filled)
    <3>1. Sized(s, P, take, fill)
      BY <2>1, <2>5, <2>7, DrawSize
    <3> HIDE DEF Q
    <3>2. Sized(s, Q, more, filled)
      BY <2>1, <2>20, <2>21, DrawSize
    <3> QED
      BY <3>1, <3>2
  <2> DEFINE n == Cardinality(P \ U)
             a == Cardinality(Free(s, U))
             b == Cardinality(Free(s, V))
             x == Cardinality(fill)
             y == Cardinality(filled)
  <2>6. /\ U \in SUBSET P /\ V \in SUBSET Q /\ n \in Nat /\ IsFiniteSet(P \ U)
    <3>1. U \in SUBSET P /\ V \in SUBSET Q /\ P \ U \in SUBSET P
      BY DEF Unused
    <3> HIDE DEF U, V, Q
    <3> QED
      BY <2>1, <3>1, LawfulSubset DEF Lawful
  <2>14. Cardinality(Q \ V) = n
    <3> HIDE DEF U, V
    <3>1. Q \ V = (((P \ U) \cup {z}) \ {w})
      BY <2>6, <2>11
    <3>2. z \notin P \ U /\ IsFiniteSet((P \ U) \cup {z}) /\ Cardinality((P \ U) \cup {z}) = n + 1
      BY <2>6, FS_AddElement
    <3>3. w \in (P \ U) \cup {z}
      BY <2>6, <2>11
    <3>4. Cardinality(((P \ U) \cup {z}) \ {w}) = (n + 1) - 1
      BY <3>2, <3>3, FS_RemoveElement
    <3> DEFINE G == Q \ V
               H == ((P \ U) \cup {z}) \ {w}
    <3>5. G = H /\ Cardinality(H) = (n + 1) - 1
      BY <3>1, <3>4
    <3> HIDE DEF n, G, H
    <3>6. Cardinality(G) = n
      BY <2>6, <3>5
    <3> QED
      BY <3>6 DEF G
  <2>15. /\ a \in Nat /\ x \in Nat /\ Cardinality(chosen) = n + x
         /\ x = IF s.drawCount > n THEN Least(s.drawCount - n, a) ELSE 0
    BY <2>4 DEF Sized, Used
  <2>16. /\ b \in Nat /\ y \in Nat /\ Cardinality(e.selected) = n + y
         /\ y = IF s.drawCount > n THEN Least(s.drawCount - n, b) ELSE 0
    <3>1. e.selected = Used(Q, s, more) \cup filled
      BY <2>22 DEF Drawing
    <3>2. Used(Q, s, more) = Q \ V
      BY DEF Used
    <3> HIDE DEF Q, n
    <3> QED
      BY <2>4, <2>14, <3>1, <3>2 DEF Sized
  <2>17. a <= b
    <3>1. Free(s, U) \in SUBSET Free(s, V) /\ Free(s, V) \in SUBSET Q
      BY <2>6, <2>11 DEF Free
    <3> DEFINE A == Free(s, U)
               C == Free(s, V)
    <3> HIDE DEF A, C, Q
    <3>2. Lawful(C)
      BY <2>1, <3>1, LawfulSubset DEF C
    <3>3. Cardinality(A) <= Cardinality(C)
      BY <3>1, <3>2, LawfulSubset DEF A, C
    <3> QED
      BY <3>3 DEF A, C
  <2>18. Cardinality(e.selected) >= s.drawCount
    <3> HIDE DEF a, b, n, x, y, chosen
    <3> QED
      BY <2>1, <2>6, <2>9, <2>15, <2>16, <2>17 DEF Least
  <2> QED
    BY <2>13, <2>18
<1> QED
  BY <1>1, <1>2, <1>3

-----------------------------------------------------------------------------
(* The topics a change of the bank does not take from.                      *)

Entry(b, i) == [id |-> i, tags |-> b[i].tags, index |-> b[i].index]

LEMMA PoolEntries ==
  ASSUME NEW b, NEW topic
  PROVE  PoolOf(b, topic) = {Entry(b, i) : i \in {j \in Ids : b[j].topic = topic}}
BY DEF PoolOf, Entry

LEMMA PoolLawful ==
  ASSUME NEW b \in [Ids -> Row], NEW topic
  PROVE  Lawful(PoolOf(b, topic))
<1> DEFINE S == {j \in Ids : b[j].topic = topic}
           T == {Entry(b, i) : i \in S}
           f == [i \in S |-> Entry(b, i)]
<1>1. S \in SUBSET Ids /\ IsFiniteSet(S)
  BY BankGuardAssumption, FS_Subset
<1>2. f \in Surjection(S, T)
  <2>1. f \in [S -> T] /\ \A t \in T : \E i \in S : f[i] = t
    OBVIOUS
  <2> QED
    BY <2>1 DEF Surjection
<1>3. PoolOf(b, topic) = T
  BY PoolEntries
<1>4. \A i \in S : b[i].index \in Nat /\ i \in Nat /\ Entry(b, i).id = i /\ Entry(b, i).index = b[i].index
  <2>1. \A i \in Ids : b[i] \in Row /\ i \in Nat
    BY BankGuardAssumption
  <2> QED
    BY <1>1, <2>1 DEF Row, Entry
<1>5. \A p \in T : \E i \in S : p = Entry(b, i)
  OBVIOUS
<1> HIDE DEF S, T, f
<1>6. IsFiniteSet(T)
  BY <1>1, <1>2, FS_Surjection
<1> QED
  BY <1>3, <1>4, <1>5, <1>6 DEF Lawful

(* Another topic keeps its questions, and at most one comes to them.        *)
LEMMA OtherPools ==
  ASSUME NEW b \in [Ids -> Row], NEW c \in Changes, Single(c),
         NEW from, \A i \in c.ids : b[i].topic = from,
         NEW topic \in Topics, topic # from
  PROVE  \/ PoolOf(applied(b, c), topic) = PoolOf(b, topic)
         \/ \E z : z \notin PoolOf(b, topic) /\ PoolOf(applied(b, c), topic) = PoolOf(b, topic) \cup {z}
<1> DEFINE a == applied(b, c)
           S == {j \in Ids : b[j].topic = topic}
           R == {j \in Ids : a[j].topic = topic}
<1>1. \A j \in Ids : a[j].topic = IF j \notin c.ids \/ c.to = "stay" THEN b[j].topic ELSE c.to
  BY DEF applied, Row
<1>2. \A j \in S : j \notin c.ids /\ Entry(a, j) = Entry(b, j) /\ j \in R
  BY <1>1 DEF applied, Entry
<1>3. PoolOf(a, topic) = {Entry(a, j) : j \in R} /\ PoolOf(b, topic) = {Entry(b, j) : j \in S}
  BY PoolEntries
<1> HIDE DEF a
<1>4. CASE c.to = "stay" \/ c.to # topic
  <2>1. \A j \in R : j \in S
    BY <1>1, <1>4
  <2> QED
    BY <1>2, <1>3, <2>1 DEF a
<1>5. CASE c.to # "stay" /\ c.to = topic
  <2>1. PICK i \in Ids : c.ids = {i}
    BY <1>5, Bounds DEF Single
  <2>2. \A j \in R : j = i \/ j \in S
    BY <1>1, <2>1
  <2>3. i \in R /\ i \notin S
    BY <1>1, <1>5, <2>1
  <2>4. \A j \in S : Entry(b, j).id = j
    BY DEF Entry
  <2>5. Entry(a, i).id = i
    BY DEF Entry
  <2>6. Entry(a, i) \notin PoolOf(b, topic)
    <3>1. \A j \in S : Entry(b, j) # Entry(a, i)
      BY <2>3, <2>4, <2>5
    <3> QED
      BY <1>3, <3>1
  <2>7. PoolOf(a, topic) = PoolOf(b, topic) \cup {Entry(a, i)}
    BY <1>2, <1>3, <2>2, <2>3
  <2> QED
    BY <2>6, <2>7 DEF a
<1> QED
  BY <1>4, <1>5

(* questions.ts, assessQuestionChange: a test that could be drawn can still *)
(* be drawn after an undisturbed change nobody forced; the topic a question *)
(* moves to is not looked at, and need not be.                              *)
THEOREM GuardKeepsTest == BankSpec => GuardHolds
<1> DEFINE Stays ==
      \A r \in Slots :
        (Write(r) /\ Undisturbed(r) /\ status = "published" /\ AllFeasible(test, LivePools))
        => AllFeasible(test, LivePools)'
<1>1. Inv /\ [Author]_bankVars => [Stays]_bankVars
  <2> SUFFICES ASSUME Inv, NEW r \in Slots, Write(r), Undisturbed(r), status = "published",
                      AllFeasible(test, LivePools)
               PROVE  AllFeasible(test, LivePools)'
    OBVIOUS
  <2> DEFINE c == req[r].change
             d == [c EXCEPT !.ids = {i \in c.ids : bank[i].topic # Gone}]
  <2>1. /\ Good(req[r]) /\ Shape(req[r]) /\ req[r] \in Request /\ req[r].pc = "write" /\ c \in Changes
        /\ ~req[r].touched /\ ~req[r].force /\ req[r].from \in Topics /\ Single(c)
    BY DEF Inv, Good, Shape, Request, Write, Undisturbed
  <2>2. StillThere(req[r]) /\ Allowed(req[r])
    BY <2>1 DEF Good, Fresh
  <2>3. {i \in c.ids : bank[i].topic # Gone} = c.ids
    BY <2>1, <2>2, Bounds DEF StillThere
  <2>4. d = c
    BY <2>1, <2>3 DEF Changes
  <2>5. bank' = applied(bank, c) /\ test' = test
    BY <2>4 DEF Write
  <2>6. bank \in [Ids -> Row] /\ bank' \in [Ids -> Row] /\ test \in TestType
    BY <2>1, <2>5, AppliedTyped, TestsTyped DEF Inv, TypeInv
  <2>7. ASSUME NEW s \in ToSet(test.sections)
        PROVE  Feasible(PoolOf(bank', s.topic), s)
    <3>1. s \in SectionType /\ s.topic \in Topics
      BY <2>6, SectionsTyped
    <3>2. Feasible(PoolOf(bank, s.topic), s)
      BY <3>1 DEF AllFeasible, LivePools
    <3>5. s.forms = <<>> /\ ~s.drawAll => Fits(s)
      BY BankGuardAssumption DEF Inv, TypeInv, Fits
    <3>3. CASE s.topic = req[r].from
      BY <2>1, <2>2, <2>5, <3>3 DEF Allowed
    <3>4. CASE s.topic # req[r].from
      <4>1. \A i \in c.ids : bank[i].topic = req[r].from
        BY <2>2 DEF StillThere
      <4> HIDE DEF c
      <4>2. \/ PoolOf(bank', s.topic) = PoolOf(bank, s.topic)
            \/ \E z : z \notin PoolOf(bank, s.topic) /\ PoolOf(bank', s.topic) = PoolOf(bank, s.topic) \cup {z}
        BY <2>1, <2>5, <2>6, <3>1, <3>4, <4>1, OtherPools
      <4>3. Lawful(PoolOf(bank', s.topic))
        BY <2>6, PoolLawful
      <4> QED
        BY <3>1, <3>2, <3>5, <4>2, <4>3, FeasibleGrows
    <3> QED
      BY <3>3, <3>4
  <2>8. AllFeasible(test, [topic \in Topics |-> PoolOf(bank', topic)])
    <3>1. \A s \in ToSet(test.sections) : s.topic \in Topics
      BY <2>6, SectionsTyped
    <3> QED
      BY <2>7, <3>1 DEF AllFeasible
  <2> QED
    BY <2>5, <2>8 DEF AllFeasible, LivePools
<1> QED
  BY <1>1, InvHolds, PTL DEF BankSpec, GuardHolds

-----------------------------------------------------------------------------
(* The starts of a learner over that bank.                                  *)

(* Nothing a learner does touches the bank, the tests or the snapshots: the *)
(* guarantees of the guard are guarantees of the whole.                     *)
THEOREM LearnersLeaveBankAlone == Spec => BankSpec
<1>1. Init => BankInit
  BY DEF Init
<1>2. [Next]_vars => [Author]_bankVars
  BY DEF Next, Start, Finish, vars
<1> QED
  BY <1>1, <1>2, PTL DEF Spec, BankSpec

Rows(N) == {runs[n] : n \in N}

(* A variant that comes back comes back after all of its section.           *)
Rotated(a, rows) ==
  \A i \in DOMAIN a.sections :
    a.sections[i].form \in FormsIn(rows, a.sections[i].topic) =>
      \A f \in ToSet(Setting(a, i).forms) : f.id \in FormsIn(rows, a.sections[i].topic)

Earlier(rs, n) == {rs[k] : k \in {m \in DOMAIN rs : m < n}}

AttemptFields == {"source", "sections", "stream", "finished"}

RotationInv ==
  /\ starts \in Nat /\ DOMAIN runs \subseteq 1 .. starts
  /\ \A n \in DOMAIN runs : DOMAIN runs[n] = AttemptFields
  /\ \A n \in Open, k \in DOMAIN runs : k <= n
  /\ \A n \in DOMAIN runs : Rotated(runs[n], Earlier(runs, n))

(* selectForm: a variant that was seen is a candidate only when all were.   *)
LEMMA SeenAfterAll ==
  ASSUME NEW forms, NEW seen, NEW f \in candidates(forms, seen), f.id \in seen
  PROVE  \A g \in ToSet(forms) : g.id \in seen
BY DEF candidates

LEMMA FormDealt ==
  ASSUME NEW pool, NEW s, NEW seen, NEW d \in drawTopic(pool, s, seen)
  PROVE  IF s.forms # <<>> THEN \E f \in candidates(s.forms, seen) : d.form = f.id
         ELSE d.form = NoForm
<1> DEFINE one(id) == CHOOSE q \in pool : q.id = id
           list(f) == [i \in DOMAIN present(f, pool) |-> one(present(f, pool)[i])]
           drawn(x) == SetToSeq(x.selected)
<1>1. d \in IF s.forms # <<>>
            THEN {[form |-> f.id, preordered |-> TRUE, list |-> list(f)] : f \in candidates(s.forms, seen)}
            ELSE {[form |-> NoForm, preordered |-> FALSE, list |-> drawn(x)] :
                    x \in drawSection(pool, s, "random")}
  BY Zenon DEF drawTopic
<1> HIDE DEF list, drawn
<1> QED
  BY <1>1

LEMMA FreshRotates ==
  ASSUME NEW src, NEW drawn \in Draws(src), NEW delivery
  PROVE  Rotated(Attempt(src, drawn, delivery), Rows(Finished))
<1> DEFINE a == Attempt(src, drawn, delivery)
           S == src.test.sections
           seen(topic) == FormsIn(Rows(Finished), topic)
           from(i) == drawTopic(src.pools[S[i].topic], S[i], seen(S[i].topic))
<1>1. DOMAIN drawn = DOMAIN S /\ \A i \in DOMAIN S : drawn[i] \in from(i)
  <2>1. drawn \in OneOfEach([i \in DOMAIN S |-> from(i)])
    BY DEF Draws, previousFormIdsForTopic, Rows
  <2> HIDE DEF from
  <2> QED
    BY <2>1 DEF OneOfEach
<1>2. /\ a.source = src /\ DOMAIN a.sections = DOMAIN drawn
      /\ \A i \in DOMAIN drawn : a.sections[i].topic = S[i].topic /\ a.sections[i].form = drawn[i].form
  BY DEF Attempt
<1> HIDE DEF a
<1> SUFFICES ASSUME NEW i \in DOMAIN S, drawn[i].form \in seen(S[i].topic),
                    NEW g \in ToSet(S[i].forms)
             PROVE  g.id \in seen(S[i].topic)
  BY <1>1, <1>2 DEF Rotated, Setting, a
<1>3. CASE S[i].forms # <<>>
  <2>1. PICK f \in candidates(S[i].forms, seen(S[i].topic)) : drawn[i].form = f.id
    BY <1>1, <1>3, FormDealt
  <2> HIDE DEF seen, S
  <2> QED
    BY <2>1, SeenAfterAll
<1>4. CASE S[i].forms = <<>>
  <2>1. drawn[i].form = NoForm
    BY <1>1, <1>4, FormDealt
  <2> QED
    BY <2>1 DEF FormsIn
<1> QED
  BY <1>3, <1>4

LEMMA RotationStart ==
  ASSUME RotationInv, Start
  PROVE  RotationInv'
<1> DEFINE src == sourceForStart
<1>1. PICK a : /\ \/ a \in carryOverVariant(src)
                  \/ \E drawn \in Draws(src) : \E d : a = Attempt(src, drawn, d)
               /\ runs' = [n \in Finished \cup {starts + 1} |-> IF n \in Finished THEN runs[n] ELSE a]
               /\ starts' = starts + 1
  BY DEF Start
<1>2. /\ starts \in Nat /\ DOMAIN runs \subseteq 1 .. starts
      /\ \A n \in DOMAIN runs : DOMAIN runs[n] = AttemptFields
      /\ \A n \in Open, k \in DOMAIN runs : k <= n
      /\ \A n \in DOMAIN runs : Rotated(runs[n], Earlier(runs, n))
  BY DEF RotationInv
<1>3. /\ Finished \subseteq DOMAIN runs /\ Open \subseteq DOMAIN runs
      /\ \A n \in DOMAIN runs : n \in Finished <=> n \notin Open
  BY DEF Finished, Open
<1>4. /\ DOMAIN runs' = Finished \cup {starts + 1} /\ runs'[starts + 1] = a
      /\ \A n \in Finished : runs'[n] = runs[n] /\ n \in 1 .. starts
  BY <1>1, <1>2, <1>3
<1>5. /\ DOMAIN a = AttemptFields /\ Rotated(a, Rows(Finished))
  <2>1. ASSUME NEW m \in Open, a = runs[m] PROVE DOMAIN a = AttemptFields /\ Rotated(a, Rows(Finished))
    <3>1. \A k \in DOMAIN runs : k < m <=> k \in Finished
      BY <1>2, <1>3
    <3>2. Earlier(runs, m) = Rows(Finished)
      BY <1>3, <3>1 DEF Earlier, Rows
    <3> QED
      BY <1>2, <1>3, <2>1, <3>2
  <2>2. ASSUME NEW drawn \in Draws(src), NEW d, a = Attempt(src, drawn, d)
        PROVE  DOMAIN a = AttemptFields /\ Rotated(a, Rows(Finished))
    <3>1. DOMAIN a = AttemptFields
      BY <2>2 DEF Attempt, AttemptFields
    <3> QED
      BY <2>2, <3>1, FreshRotates
  <2> QED
    BY <1>1, <2>1, <2>2 DEF carryOverVariant
<1>6. Earlier(runs', starts + 1) = Rows(Finished)
  BY <1>2, <1>4 DEF Earlier, Rows
<1>7. ASSUME NEW n \in Finished
      PROVE  Rotated(runs'[n], Earlier(runs', n))
  <2>1. \A k \in DOMAIN runs : k < n => k \in Finished
    BY <1>2, <1>3
  <2>2. \A k : k \in DOMAIN runs' /\ k < n <=> k \in DOMAIN runs /\ k < n
    BY <1>2, <1>3, <1>4, <2>1
  <2>3. {k \in DOMAIN runs' : k < n} = {k \in DOMAIN runs : k < n}
    BY <2>2
  <2>4. Earlier(runs', n) = Earlier(runs, n)
    BY <1>4, <2>1, <2>3 DEF Earlier
  <2> QED
    BY <1>2, <1>3, <1>4, <2>4
<1>8. \A n \in DOMAIN runs' : Rotated(runs'[n], Earlier(runs', n))
  BY <1>4, <1>5, <1>6, <1>7
<1>9. ASSUME NEW n \in DOMAIN runs', ~runs'[n].finished PROVE \A k \in DOMAIN runs' : k <= n
  <2>1. n = starts + 1
    BY <1>4, <1>9 DEF Finished, Open
  <2> QED
    BY <1>2, <1>4, <2>1
<1>10. \A n \in DOMAIN runs' : DOMAIN runs'[n] = AttemptFields
  BY <1>2, <1>3, <1>4, <1>5
<1>11. starts' \in Nat /\ DOMAIN runs' \subseteq 1 .. starts'
  BY <1>1, <1>2, <1>4
<1> QED
  BY <1>8, <1>9, <1>10, <1>11 DEF RotationInv, Open

LEMMA RotationFinish ==
  ASSUME RotationInv, Finish
  PROVE  RotationInv'
<1>1. PICK n \in Open : runs' = [runs EXCEPT ![n].finished = TRUE] /\ starts' = starts
  BY DEF Finish
<1>2. /\ starts \in Nat /\ DOMAIN runs \subseteq 1 .. starts
      /\ \A m \in DOMAIN runs : DOMAIN runs[m] = AttemptFields
      /\ \A m \in Open, k \in DOMAIN runs : k <= m
      /\ \A m \in DOMAIN runs : Rotated(runs[m], Earlier(runs, m))
  BY DEF RotationInv
<1>3. /\ n \in DOMAIN runs /\ DOMAIN runs' = DOMAIN runs
      /\ \A m \in DOMAIN runs : /\ DOMAIN runs'[m] = AttemptFields
                                /\ runs'[m].sections = runs[m].sections
                                /\ runs'[m].source = runs[m].source
                                /\ m # n => runs'[m] = runs[m]
      /\ runs'[n].finished = TRUE
  BY <1>1, <1>2 DEF Open, AttemptFields
<1>4. ASSUME NEW m \in DOMAIN runs, NEW topic
      PROVE  FormsIn(Earlier(runs', m), topic) = FormsIn(Earlier(runs, m), topic)
  BY <1>3 DEF FormsIn, FormsOf, Earlier
<1>5. \A m \in DOMAIN runs : Rotated(runs'[m], Earlier(runs', m))
  BY <1>2, <1>3, <1>4 DEF Rotated, Setting
<1>6. ASSUME NEW m \in DOMAIN runs', ~runs'[m].finished PROVE m \in Open
  BY <1>3, <1>6 DEF Open
<1> QED
  BY <1>1, <1>2, <1>3, <1>5, <1>6 DEF RotationInv, Open

(* The server's starts and finishes of a learner, over any bank and tests:  *)
(* a variant comes back only when the learner has finished an attempt with  *)
(* every variant of the section, whatever is abandoned and started again    *)
(* and whatever the authors publish in between.                             *)
THEOREM VariantsRotate == Spec => []RotationHolds
<1>1. Init => RotationInv
  BY DEF Init, RotationInv, Open
<1>2. RotationInv /\ [Next]_vars => RotationInv'
  <2> SUFFICES ASSUME RotationInv, [Next]_vars PROVE RotationInv'
    OBVIOUS
  <2>1. CASE UNCHANGED <<runs, starts>>
    BY <2>1 DEF RotationInv, Open
  <2> QED
    BY <2>1, RotationStart, RotationFinish DEF Next, vars
<1>3. RotationInv => RotationHolds
  BY DEF RotationInv, RotationHolds, Rotated, Earlier
<1> QED
  BY <1>1, <1>2, <1>3, PTL DEF Spec

-----------------------------------------------------------------------------
(* What a section is dealt is what its author asked for.                    *)

(* What a topic contributes to the delivery of a section.                   *)
DealtTo(d, pool, s) ==
  /\ Contribution(d, pool)
  /\ s.forms # <<>> =>
       /\ d.preordered
       /\ \E f \in ToSet(s.forms) :
            /\ d.form = f.id /\ f.id # NoForm /\ f.questions \in Seq(Ids)
            /\ [j \in DOMAIN d.list |-> d.list[j].id] = Only(f.questions, IdsIn(pool))
  /\ s.forms = <<>> =>
       /\ ~d.preordered /\ d.form = NoForm
       /\ \E x \in drawSection(pool, s, "random") : ToSet(d.list) = x.selected

LEMMA VariantDealt ==
  ASSUME NEW pool, Lawful(pool), NEW ids, NEW p \in Seq(ids), IsInjective(p), ToSet(p) \subseteq IdsIn(pool),
         NEW list, list = [i \in DOMAIN p |-> CHOOSE q \in pool : q.id = p[i]]
  PROVE  list \in Seq(pool) /\ IsInjective(list) /\ [j \in DOMAIN list |-> list[j].id] = p
<1> DEFINE n == Len(p)
           one(id) == CHOOSE q \in pool : q.id = id
<1>1. n \in Nat /\ DOMAIN p = 1 .. n /\ p = [i \in 1 .. n |-> p[i]]
  OBVIOUS
<1>2. ASSUME NEW i \in 1 .. n PROVE one(p[i]) \in pool /\ one(p[i]).id = p[i]
  <2>1. p[i] \in ToSet(p)
    BY <1>1 DEF ToSet
  <2>2. \E q \in pool : q.id = p[i]
    BY <2>1 DEF IdsIn
  <2> QED
    BY <2>2
<1>3. list = [i \in 1 .. n |-> one(p[i])]
  BY <1>1
<1> HIDE DEF one, n
<1>4. DOMAIN list = 1 .. n /\ \A i \in 1 .. n : list[i] \in pool /\ list[i].id = p[i]
  BY <1>2, <1>3
<1>5. list \in Seq(pool)
  <2>1. list \in [1 .. n -> pool]
    BY <1>2, <1>3
  <2>2. \E m \in Nat : list \in [1 .. m -> pool]
    BY <1>1, <2>1
  <2> QED
    BY <2>2, SeqDef
<1>6. IsInjective(list)
  BY <1>1, <1>4 DEF IsInjective
<1>7. [j \in DOMAIN list |-> list[j].id] = p
  <2> DEFINE D == DOMAIN list
  <2>1. D = 1 .. n
    BY <1>4
  <2>2. [j \in D |-> list[j].id] = [j \in D |-> p[j]]
    BY <1>4, <2>1
  <2>3. [j \in D |-> p[j]] = p
    BY <1>1, <2>1
  <2> QED
    BY <2>2, <2>3
<1> QED
  BY <1>5, <1>6, <1>7

LEMMA DealtIs ==
  ASSUME NEW pool, Lawful(pool), NEW s \in SectionType, \A f \in ToSet(s.forms) : IsInjective(f.questions),
         NEW seen, NEW d \in drawTopic(pool, s, seen)
  PROVE  DealtTo(d, pool, s)
<1> DEFINE one(id) == CHOOSE q \in pool : q.id = id
           list(f) == [i \in DOMAIN present(f, pool) |-> one(present(f, pool)[i])]
           drawn(x) == SetToSeq(x.selected)
<1>1. d \in IF s.forms # <<>>
            THEN {[form |-> f.id, preordered |-> TRUE, list |-> list(f)] : f \in candidates(s.forms, seen)}
            ELSE {[form |-> NoForm, preordered |-> FALSE, list |-> drawn(x)] :
                    x \in drawSection(pool, s, "random")}
  BY Zenon DEF drawTopic
<1>2. CASE s.forms # <<>>
  <2>1. PICK f \in candidates(s.forms, seen) : d = [form |-> f.id, preordered |-> TRUE, list |-> list(f)]
    <3> HIDE DEF list, drawn
    <3> QED
      BY <1>1, <1>2
  <2>2. f \in ToSet(s.forms)
    BY DEF candidates
  <2>3. f.id # NoForm /\ f.questions \in Seq(Ids) /\ IsInjective(f.questions)
    <3>1. s.forms \in Seq([id : Nat \ {NoForm}, questions : Seq(Ids)])
      BY DEF SectionType
    <3> DEFINE Form == [id : Nat \ {NoForm}, questions : Seq(Ids)]
               u == s.forms
    <3>2. f \in Form
      <4>1. u \in Seq(Form) /\ f \in ToSet(u)
        BY <2>2, <3>1
      <4> HIDE DEF Form, u
      <4> QED
        BY <4>1 DEF ToSet
    <3> QED
      BY <2>2, <3>2
  <2> DEFINE p == present(f, pool)
  <2>4. p = Only(f.questions, IdsIn(pool))
    BY DEF present
  <2>5. p \in Seq(Ids) /\ IsInjective(p) /\ ToSet(p) \subseteq IdsIn(pool)
    <3> DEFINE u == f.questions
               I == IdsIn(pool)
    <3>1. u \in Seq(Ids) /\ IsInjective(u) /\ p = Only(u, I)
      BY <2>3, <2>4
    <3> HIDE DEF p, u, I
    <3>2. ToSet(p) = ToSet(u) \cap I /\ IsInjective(p) /\ p \in Seq(Ids)
      BY <3>1, OnlyType, OnlyKeeps
    <3> QED
      BY <3>2 DEF I
  <2>6. list(f) \in Seq(pool) /\ IsInjective(list(f)) /\ [j \in DOMAIN list(f) |-> list(f)[j].id] = p
    <3> DEFINE l == list(f)
    <3>1. l = [i \in DOMAIN p |-> CHOOSE q \in pool : q.id = p[i]]
      OBVIOUS
    <3> HIDE DEF l, p
    <3>2. l \in Seq(pool) /\ IsInjective(l) /\ [j \in DOMAIN l |-> l[j].id] = p
      BY <2>5, <3>1, VariantDealt
    <3> QED
      BY <3>2 DEF l
  <2>7. d.form = f.id /\ d.preordered = TRUE /\ d.list = list(f)
    BY <2>1
  <2> HIDE DEF list, p
  <2> QED
    BY <1>2, <2>2, <2>3, <2>4, <2>6, <2>7 DEF DealtTo, Contribution
<1>3. CASE s.forms = <<>>
  <2>1. PICK x \in drawSection(pool, s, "random") : d = [form |-> NoForm, preordered |-> FALSE, list |-> drawn(x)]
    <3> HIDE DEF list, drawn
    <3> QED
      BY <1>1, <1>3
  <2> DEFINE S == x.selected
             l == drawn(x)
  <2>2. S \in SUBSET pool
    BY DrawnFromPool
  <2>3. l = SetToSeq(S)
    OBVIOUS
  <2>4. d.form = NoForm /\ d.preordered = FALSE /\ d.list = l
    BY <2>1
  <2> HIDE DEF l
  <2>5. ToSet(l) = S /\ l \in Seq(pool) /\ IsInjective(l)
    <3> HIDE DEF S
    <3>1. IsFiniteSet(S)
      BY <2>2, FS_Subset DEF Lawful
    <3>2. l \in SetToSeqs(S)
      BY <2>3, <3>1, SomeOrder
    <3>3. l \in Seq(S) /\ IsInjective(l) /\ ToSet(l) = S
      BY <3>1, <3>2, SetInOrder
    <3>4. l \in Seq(pool)
      BY <2>2, <3>3, SeqMonotonic
    <3> QED
      BY <3>3, <3>4
  <2> QED
    BY <1>3, <2>4, <2>5 DEF DealtTo, Contribution
<1> QED
  BY <1>2, <1>3


-----------------------------------------------------------------------------
(* What an attempt draws from.                                              *)
SourceGood(src) ==
  /\ \E t \in Tests : src.test.sections = t.sections
  /\ \A s \in ToSet(src.test.sections) : src.pools[s.topic] \in Reads
  /\ ~src.touched => AllFeasible(src.test, src.pools) /\ PoolsApart(src)

SectionSound(pool, s) ==
  /\ s \in SectionType /\ s.topic \in Topics /\ Lawful(pool)
  /\ s.forms = <<>> /\ ~s.drawAll => Fits(s)
  /\ \A f \in ToSet(s.forms) : IsInjective(f.questions)

LEMMA ReadLawful == ASSUME NEW pool \in Reads PROVE Lawful(pool)
<1>1. PICK b \in [Ids -> Row] : \E topic \in Topics : pool = PoolOf(b, topic)
  BY DEF Reads
<1>2. PICK topic \in Topics : pool = PoolOf(b, topic)
  BY <1>1
<1> QED
  BY <1>2, PoolLawful

LEMMA SourceSections ==
  ASSUME NEW src, SourceGood(src)
  PROVE  LET S == src.test.sections
         IN  /\ Len(S) \in Nat /\ DOMAIN S = 1 .. Len(S)
             /\ \A i \in 1 .. Len(S) : S[i] \in ToSet(S) /\ SectionSound(src.pools[S[i].topic], S[i])
<1>1. PICK t \in Tests : src.test.sections = t.sections
  BY DEF SourceGood
<1> DEFINE S == src.test.sections
<1>2. t \in TestType /\ S = t.sections
  BY <1>1, TestsTyped
<1>3. S \in Seq(SectionType)
  BY <1>2 DEF TestType
<1>4. Len(S) \in Nat /\ DOMAIN S = 1 .. Len(S)
  <2> HIDE DEF S
  <2> QED
    BY <1>3
<1>5. ASSUME NEW i \in 1 .. Len(S) PROVE S[i] \in ToSet(S) /\ SectionSound(src.pools[S[i].topic], S[i])
  <2> DEFINE s == S[i]
  <2>1. s \in ToSet(S)
    BY <1>4 DEF ToSet
  <2>2. s \in ToSet(t.sections)
    BY <1>2, <2>1
  <2>3. src.pools[s.topic] \in Reads
    BY <2>1 DEF SourceGood
  <2> HIDE DEF s, S
  <2>4. s \in SectionType /\ s.topic \in Topics
    BY <1>2, <2>2, SectionsTyped
  <2>5. s.forms = <<>> /\ ~s.drawAll => Fits(s)
    BY <2>2, BankGuardAssumption DEF Fits
  <2>6. \A f \in ToSet(s.forms) : IsInjective(f.questions)
    BY <2>2, EditorAssumption
  <2>7. Lawful(src.pools[s.topic])
    BY <2>3, ReadLawful
  <2> QED
    BY <2>1, <2>4, <2>5, <2>6, <2>7 DEF SectionSound, s
<1> QED
  BY <1>4, <1>5

Dealt(src, drawn) ==
  /\ DOMAIN drawn = 1 .. Len(src.test.sections)
  /\ \A i \in 1 .. Len(src.test.sections) :
       DealtTo(drawn[i], src.pools[src.test.sections[i].topic], src.test.sections[i])

LEMMA DrawsDealt ==
  ASSUME NEW src, SourceGood(src), NEW drawn \in Draws(src)
  PROVE  Dealt(src, drawn)
<1> DEFINE S == src.test.sections
           from(i) == drawTopic(src.pools[S[i].topic], S[i], previousFormIdsForTopic(S[i].topic))
           sets == [i \in DOMAIN S |-> from(i)]
<1>1. DOMAIN S = 1 .. Len(S) /\ \A i \in 1 .. Len(S) : SectionSound(src.pools[S[i].topic], S[i])
  BY SourceSections
<1>2. drawn \in OneOfEach(sets)
  BY Zenon DEF Draws
<1>3. DOMAIN sets = DOMAIN S /\ \A i \in DOMAIN S : sets[i] = from(i)
  OBVIOUS
<1> HIDE DEF sets, from
<1>4. DOMAIN drawn = DOMAIN S /\ \A i \in DOMAIN S : drawn[i] \in from(i)
  <2>1. drawn = [i \in DOMAIN sets |-> drawn[i]] /\ \A i \in DOMAIN sets : drawn[i] \in sets[i]
    BY <1>2, EachIs
  <2> QED
    BY <1>3, <2>1
<1>5. ASSUME NEW i \in 1 .. Len(S) PROVE DealtTo(drawn[i], src.pools[S[i].topic], S[i])
  <2> DEFINE pool == src.pools[S[i].topic]
             s == S[i]
             d == drawn[i]
             seen == previousFormIdsForTopic(s.topic)
  <2>1. d \in drawTopic(pool, s, seen)
    BY <1>1, <1>4 DEF from
  <2>2. SectionSound(pool, s)
    BY <1>1
  <2> HIDE DEF pool, s, d, seen
  <2>3. DealtTo(d, pool, s)
    BY <2>1, <2>2, DealtIs DEF SectionSound
  <2> QED
    BY <2>3 DEF pool, s, d
<1> QED
  BY <1>1, <1>4, <1>5 DEF Dealt

(* The pools of the sections, together.                                     *)
LEMMA DealtFrom ==
  ASSUME NEW src, SourceGood(src), NEW drawn, Dealt(src, drawn)
  PROVE  /\ \E V : Contributions(drawn, V)
         /\ PoolsApart(src) => DrawnApart(drawn)
<1> DEFINE S == src.test.sections
           N == Len(S)
           pool(i) == src.pools[S[i].topic]
           V == UNION {pool(i) : i \in 1 .. N}
<1>1. DOMAIN S = 1 .. N /\ DOMAIN drawn = 1 .. N /\ \A i \in 1 .. N : Contribution(drawn[i], pool(i))
  BY SourceSections DEF Dealt, DealtTo
<1>2. ASSUME NEW i \in 1 .. N PROVE Contribution(drawn[i], V)
  <2> DEFINE P == pool(i)
  <2>1. P \subseteq V
    OBVIOUS
  <2>2. drawn[i].list \in Seq(P)
    BY <1>1 DEF Contribution
  <2> DEFINE l == drawn[i].list
  <2>3. l \in Seq(V)
    <3> HIDE DEF P, V, l
    <3>1. l \in Seq(P)
      BY <2>2 DEF l
    <3> QED
      BY <2>1, <3>1, SeqMonotonic
  <2> HIDE DEF V, pool
  <2> QED
    BY <1>1, <2>3 DEF Contribution
<1>3. Contributions(drawn, V)
  <2> HIDE DEF V
  <2> QED
    BY <1>1, <1>2 DEF Contributions
<1>4. ASSUME PoolsApart(src), NEW i \in 1 .. N, NEW j \in 1 .. N, i # j
      PROVE  ToSet(drawn[i].list) \cap ToSet(drawn[j].list) = {}
  <2>1. \A k \in 1 .. N : \A q \in ToSet(drawn[k].list) : q \in pool(k)
    <3> SUFFICES ASSUME NEW k \in 1 .. N, NEW q \in ToSet(drawn[k].list) PROVE q \in pool(k)
      OBVIOUS
    <3> DEFINE l == drawn[k].list
               P == pool(k)
    <3>1. l \in Seq(P) /\ q \in ToSet(l)
      BY <1>1 DEF Contribution
    <3> HIDE DEF l, P
    <3> QED
      BY <3>1 DEF ToSet, P
  <2>2. IdsIn(pool(i)) \cap IdsIn(pool(j)) = {}
    BY <1>1, <1>4 DEF PoolsApart
  <2>3. \A q : ~ (q \in pool(i) /\ q \in pool(j))
    BY <2>2 DEF IdsIn
  <2> QED
    BY <2>1, <2>3
<1> QED
  BY <1>1, <1>3, <1>4 DEF DrawnApart

-----------------------------------------------------------------------------
(* A section of an attempt, against the settings of its author.             *)

LEMMA ListIds ==
  ASSUME NEW V, NEW list \in Seq(V)
  PROVE  IdsIn(ToSet(list)) = ToSet([j \in DOMAIN list |-> list[j].id])
<1> DEFINE D == DOMAIN list
           g == [j \in D |-> list[j].id]
<1>1. ToSet(list) = {list[j] : j \in D}
  BY DEF ToSet
<1>2. ToSet(g) = {list[j].id : j \in D}
  BY DEF ToSet
<1>3. \A x : x \in IdsIn(ToSet(list)) <=> \E j \in D : x = list[j].id
  BY <1>1 DEF IdsIn
<1> QED
  BY <1>2, <1>3

SectionFilled(s, pool, form, got) ==
  IF s.forms # <<>>
  THEN \E f \in ToSet(s.forms) : f.id = form /\ IdsIn(ToSet(got)) = ToSet(f.questions)
  ELSE QuotasApart(pool, s) /\ ~s.drawAll =>
         /\ Len(got) = s.drawCount
         /\ \A t \in ToSet(s.strata) : Cardinality(OfTag(got, t.tag)) >= t.count

LEMMA FillsSection ==
  ASSUME NEW pool, NEW s, SectionSound(pool, s), NEW d, DealtTo(d, pool, s), Feasible(pool, s),
         NEW V, NEW got \in Seq(V), IsInjective(got), ToSet(got) = ToSet(d.list)
  PROVE  SectionFilled(s, pool, d.form, got)
<1>1. s \in SectionType /\ Lawful(pool)
  BY DEF SectionSound
<1>2. CASE s.forms # <<>>
  <2>1. PICK f \in ToSet(s.forms) :
               /\ d.form = f.id /\ f.id # NoForm /\ f.questions \in Seq(Ids)
               /\ [j \in DOMAIN d.list |-> d.list[j].id] = Only(f.questions, IdsIn(pool))
    BY <1>2 DEF DealtTo
  <2>2. ToSet(f.questions) \subseteq IdsIn(pool)
    BY <1>2, <2>1 DEF Feasible, variantQuestionIds
  <2>3. Only(f.questions, IdsIn(pool)) = f.questions
    BY <2>1, <2>2, OnlyAll
  <2>4. IdsIn(ToSet(d.list)) = ToSet([j \in DOMAIN d.list |-> d.list[j].id])
    <3> DEFINE l == d.list
    <3>1. l \in Seq(pool)
      BY DEF DealtTo, Contribution
    <3> HIDE DEF l
    <3>2. IdsIn(ToSet(l)) = ToSet([j \in DOMAIN l |-> l[j].id])
      BY <3>1, ListIds
    <3> QED
      BY <3>2 DEF l
  <2> QED
    BY <1>2, <2>1, <2>3, <2>4 DEF SectionFilled
<1>3. CASE s.forms = <<>>
  <2> SUFFICES ASSUME QuotasApart(pool, s), ~s.drawAll
               PROVE  /\ Len(got) = s.drawCount
                      /\ \A t \in ToSet(s.strata) : Cardinality(OfTag(got, t.tag)) >= t.count
    BY <1>3 DEF SectionFilled
  <2>1. Fits(s)
    BY <1>3 DEF SectionSound
  <2>2. PICK x \in drawSection(pool, s, "random") : ToSet(d.list) = x.selected
    BY <1>3 DEF DealtTo
  <2>3. /\ Cardinality(x.selected) = s.drawCount
        /\ \A n \in 1 .. Len(s.strata) : Cardinality(Tagged(x.selected, s.strata[n].tag)) >= s.strata[n].count
    BY <1>1, <1>3, <2>1, FeasibleFills
  <2>4. Len(got) = s.drawCount
    <3>1. Cardinality(ToSet(got)) = Len(got)
      BY ListCounts
    <3> QED
      BY <2>2, <2>3, <3>1
  <2>5. ASSUME NEW t \in ToSet(s.strata) PROVE Cardinality(OfTag(got, t.tag)) >= t.count
    <3>1. s.strata \in Seq(Stratum)
      BY <1>1 DEF SectionType, Stratum
    <3>2. DOMAIN s.strata = 1 .. Len(s.strata)
      BY <3>1, StrataTyped
    <3>3. PICK n \in 1 .. Len(s.strata) : t = s.strata[n]
      BY <3>2 DEF ToSet
    <3>4. OfTag(got, t.tag) = Tagged(x.selected, t.tag)
      BY <2>2 DEF OfTag, Tagged
    <3> QED
      BY <2>3, <3>3, <3>4
  <2> QED
    BY <2>4, <2>5
<1> QED
  BY <1>2, <1>3

LEMMA CeilingHolds ==
  ASSUME NEW pool, NEW s, SectionSound(pool, s), NEW d, DealtTo(d, pool, s),
         s.forms = <<>>, QuotasApart(pool, s),
         NEW got, ToSet(got) \subseteq ToSet(d.list),
         NEW t \in ToSet(s.strata), t.mode = "exact"
  PROVE  Cardinality(OfTag(got, t.tag)) <= t.count
<1>1. s \in SectionType /\ Lawful(pool)
  BY DEF SectionSound
<1>2. PICK x \in drawSection(pool, s, "random") : ToSet(d.list) = x.selected
  BY DEF DealtTo
<1>3. s.strata \in Seq(Stratum)
  BY <1>1 DEF SectionType, Stratum
<1>4. DOMAIN s.strata = 1 .. Len(s.strata) /\ \A n \in 1 .. Len(s.strata) : s.strata[n].count \in Nat
  BY <1>3, StrataTyped
<1>5. PICK n \in 1 .. Len(s.strata) : t = s.strata[n]
  BY <1>4 DEF ToSet
<1> DEFINE T == Tagged(x.selected, t.tag)
<1>6. IsFiniteSet(T) /\ Cardinality(T) <= t.count
  BY <1>1, <1>5, ExactDraw
<1>7. OfTag(got, t.tag) \subseteq T
  BY <1>2 DEF OfTag, Tagged
<1>8. t.count \in Nat
  BY <1>4, <1>5
<1> HIDE DEF T
<1>9. Cardinality(OfTag(got, t.tag)) <= Cardinality(T) /\ Cardinality(OfTag(got, t.tag)) \in Nat /\ Cardinality(T) \in Nat
  BY <1>6, <1>7, FS_Subset, FS_CardinalityType
<1> QED
  BY <1>6, <1>8, <1>9

OrderKept(s, form, l) ==
  IF form = NoForm
  THEN \A j, k \in DOMAIN l : j < k /\ l[k].index # NoIndex => l[j].index \in 1 .. l[k].index
  ELSE \E f \in ToSet(s.forms) :
         /\ f.id = form
         /\ [j \in DOMAIN l |-> l[j].id] = Only(f.questions, IdsIn(ToSet(l)))

LEMMA KeepsOrder ==
  ASSUME NEW pool, NEW s, SectionSound(pool, s), NEW d, DealtTo(d, pool, s),
         NEW l \in orderSection(d, "fixed")
  PROVE  OrderKept(s, d.form, l)
<1>1. Lawful(pool) /\ Contribution(d, pool)
  BY DEF SectionSound, DealtTo
<1>2. /\ l \in Seq(pool)
      /\ IF d.preordered THEN l = d.list ELSE InIndexOrder(l)
  BY <1>1, SectionOrders
<1>3. CASE s.forms # <<>>
  <2>1. PICK f \in ToSet(s.forms) :
               /\ d.form = f.id /\ f.id # NoForm /\ f.questions \in Seq(Ids)
               /\ [j \in DOMAIN d.list |-> d.list[j].id] = Only(f.questions, IdsIn(pool))
    BY <1>3 DEF DealtTo
  <2>2. l = d.list
    BY <1>2, <1>3 DEF DealtTo
  <2> DEFINE u == f.questions
             I == IdsIn(pool)
             J == IdsIn(ToSet(l))
  <2>3. u \in Seq(Ids) /\ [j \in DOMAIN l |-> l[j].id] = Only(u, I)
    BY <2>1, <2>2
  <2>4. J = ToSet(Only(u, I))
    BY <1>2, <2>3, ListIds
  <2> HIDE DEF u, I, J
  <2>5. ToSet(Only(u, I)) = ToSet(u) \cap I
    BY <2>3, OnlyKeeps
  <2>6. Only(u, I) = Only(u, J)
    <3>1. ToSet(u) \cap I = ToSet(u) \cap J
      BY <2>4, <2>5
    <3> QED
      BY <2>3, <3>1, OnlySame
  <2>7. [j \in DOMAIN l |-> l[j].id] = Only(f.questions, IdsIn(ToSet(l)))
    BY <2>3, <2>6 DEF u, J
  <2> QED
    BY <2>1, <2>7 DEF OrderKept
<1>4. CASE s.forms = <<>>
  <2>1. d.form = NoForm /\ InIndexOrder(l)
    BY <1>2, <1>4 DEF DealtTo
  <2> SUFFICES ASSUME NEW j \in DOMAIN l, NEW k \in DOMAIN l, j < k, l[k].index # NoIndex
               PROVE  l[j].index \in 1 .. l[k].index
    BY <2>1 DEF OrderKept
  <2>2. l[j] \in pool /\ l[k] \in pool
    BY <1>2
  <2>3. l[j].index \in Nat /\ l[k].index \in Nat
    BY <1>1, <2>2 DEF Lawful
  <2>4. l[j].index # NoIndex /\ l[j].index <= l[k].index
    BY <2>1 DEF InIndexOrder
  <2> QED
    BY <2>3, <2>4 DEF NoIndex
<1> QED
  BY <1>3, <1>4

RowGood(a) ==
  /\ SourceGood(a.source)
  /\ FilledAsChecked(a) /\ ExactIsCeiling(a)
  /\ PoolsApart(a.source) => StreamOfSections(a) /\ FixedIsUnbroken(a) /\ FixedInOrder(a)
  /\ TopicsStayBlocks(a)

(* How the delivery of an attempt lies over its draws.                      *)
Laid(src, drawn, d, V) ==
  LET S == src.test.sections
      N == Len(S)
  IN  /\ N \in Nat /\ DOMAIN S = 1 .. N /\ DOMAIN drawn = 1 .. N
      /\ \A i \in 1 .. N : /\ S[i] \in ToSet(S) /\ SectionSound(src.pools[S[i].topic], S[i])
                           /\ DealtTo(drawn[i], src.pools[S[i].topic], S[i])
      /\ Assembled(d, drawn, N, src.test, V)
      /\ PoolsApart(src) => DrawnApart(drawn)

LEMMA AttemptLaid ==
  ASSUME NEW src, SourceGood(src), NEW drawn \in Draws(src), NEW d \in assembleDelivery(src.test, drawn)
  PROVE  \E V : Laid(src, drawn, d, V)
<1> DEFINE S == src.test.sections
           N == Len(S)
<1>1. /\ N \in Nat /\ DOMAIN S = 1 .. N
      /\ \A i \in 1 .. N : S[i] \in ToSet(S) /\ SectionSound(src.pools[S[i].topic], S[i])
  BY SourceSections
<1>2. Dealt(src, drawn)
  BY DrawsDealt
<1>3. PICK V : Contributions(drawn, V)
  BY <1>2, DealtFrom
<1>4. PoolsApart(src) => DrawnApart(drawn)
  BY <1>2, DealtFrom
<1>5. DOMAIN drawn = 1 .. N /\ \A i \in 1 .. N : DealtTo(drawn[i], src.pools[S[i].topic], S[i])
  BY <1>2 DEF Dealt
<1>6. Assembled(d, drawn, N, src.test, V)
  <2> DEFINE t == src.test
             n == N
  <2>1. n \in Nat /\ DOMAIN drawn = 1 .. n /\ d \in assembleDelivery(t, drawn)
    BY <1>1, <1>5
  <2> HIDE DEF t, n
  <2>2. Assembled(d, drawn, n, t, V)
    BY <1>3, <2>1, Delivered
  <2> QED
    BY <2>2 DEF t, n
<1> QED
  BY <1>1, <1>4, <1>5, <1>6 DEF Laid

(* The row of an attempt.                                                   *)
Stored(a, src, drawn, d) ==
  /\ a.source = src /\ a.stream = d.flat
  /\ DOMAIN a.sections = 1 .. Len(src.test.sections)
  /\ \A i \in 1 .. Len(src.test.sections) :
       /\ a.sections[i].topic = src.test.sections[i].topic
       /\ a.sections[i].form = drawn[i].form
       /\ a.sections[i].list = d.sections[i]

LEMMA AttemptStores ==
  ASSUME NEW src, NEW drawn, DOMAIN drawn = 1 .. Len(src.test.sections), NEW d
  PROVE  Stored(Attempt(src, drawn, d), src, drawn, d)
BY DEF Attempt, Stored

LEMMA RowFilled ==
  ASSUME NEW src, SourceGood(src), NEW drawn, NEW d, NEW V, Laid(src, drawn, d, V),
         NEW a, Stored(a, src, drawn, d)
  PROVE  FilledAsChecked(a) /\ ExactIsCeiling(a)
<1> DEFINE S == src.test.sections
           N == Len(S)
<1>1. ASSUME ~a.source.touched, NEW i \in DOMAIN a.sections
      PROVE  SectionFilled(Setting(a, i), PoolUnder(a, i), a.sections[i].form, a.sections[i].list)
  <2>1. i \in 1 .. N /\ a.source = src
    BY DEF Stored
  <2> DEFINE s == S[i]
             pool == src.pools[s.topic]
             got == d.sections[i]
  <2>2. ~src.touched
    BY <1>1, <2>1
  <2>3. PoolsApart(src) /\ AllFeasible(src.test, src.pools)
    BY <2>2 DEF SourceGood
  <2>4. s \in ToSet(S) /\ SectionSound(pool, s) /\ DealtTo(drawn[i], pool, s)
    BY <2>1 DEF Laid, Assembled
  <2>5. Feasible(pool, s)
    BY <2>3, <2>4 DEF AllFeasible
  <2>6. got \in Seq(V) /\ IsInjective(got) /\ ToSet(got) = ToSet(drawn[i].list)
    BY <2>1, <2>3 DEF Laid, Assembled
  <2>7. /\ Setting(a, i) = s /\ PoolUnder(a, i) = pool
        /\ a.sections[i].form = drawn[i].form /\ a.sections[i].list = got
    BY <2>1 DEF Stored, Setting, PoolUnder
  <2> HIDE DEF s, pool, got
  <2>8. SectionFilled(s, pool, drawn[i].form, got)
    BY <2>4, <2>5, <2>6, FillsSection
  <2> QED
    BY <2>7, <2>8
<1>2. ASSUME NEW i \in DOMAIN a.sections, Setting(a, i).forms = <<>>,
             QuotasApart(PoolUnder(a, i), Setting(a, i)),
             NEW t \in ToSet(Setting(a, i).strata), t.mode = "exact"
      PROVE  Cardinality(OfTag(a.sections[i].list, t.tag)) <= t.count
  <2>1. i \in 1 .. N /\ a.source = src
    BY DEF Stored
  <2> DEFINE s == S[i]
             pool == src.pools[s.topic]
             got == d.sections[i]
  <2>2. /\ Setting(a, i) = s /\ PoolUnder(a, i) = pool /\ a.sections[i].list = got
    BY <2>1 DEF Stored, Setting, PoolUnder
  <2>3. SectionSound(pool, s) /\ DealtTo(drawn[i], pool, s) /\ ToSet(got) \subseteq ToSet(drawn[i].list)
    BY <2>1 DEF Laid, Assembled
  <2> HIDE DEF s, pool, got
  <2>4. Cardinality(OfTag(got, t.tag)) <= t.count
    BY <1>2, <2>2, <2>3, CeilingHolds
  <2> QED
    BY <2>2, <2>4
<1> QED
  BY <1>1, <1>2 DEF FilledAsChecked, ExactIsCeiling, SectionFilled

LEMMA RowOrdered ==
  ASSUME NEW src, NEW drawn, NEW d, NEW V, Laid(src, drawn, d, V),
         NEW a, Stored(a, src, drawn, d), PoolsApart(src)
  PROVE  StreamOfSections(a) /\ FixedIsUnbroken(a) /\ FixedInOrder(a)
<1> DEFINE S == src.test.sections
           N == Len(S)
<1>1. DOMAIN a.sections = 1 .. N /\ a.source = src /\ a.stream = d.flat
  BY DEF Stored
<1>2. \A i \in 1 .. N : a.sections[i].list = d.sections[i] /\ a.sections[i].form = drawn[i].form
  BY DEF Stored
<1>3. /\ IsInjective(d.flat)
      /\ ToSet(d.flat) = UNION {ToSet(d.sections[i]) : i \in 1 .. N}
      /\ \A i \in 1 .. N :
           /\ Only(d.flat, ToSet(d.sections[i])) = d.sections[i]
           /\ effectiveSectionOrder(src.test.questionOrder, S[i].order) = "fixed" =>
                d.sections[i] \in orderSection(drawn[i], "fixed") /\ Neighbours(d.sections[i], d.flat)
  BY DEF Laid, Assembled
<1>4. StreamOfSections(a)
  <2>1. \A s : s \in ToSet(a.sections) <=> \E i \in 1 .. N : s = a.sections[i]
    BY <1>1 DEF ToSet
  <2>2. ToSet(a.stream) = UNION {ToSet(s.list) : s \in ToSet(a.sections)}
    BY <1>1, <1>2, <1>3, <2>1
  <2>3. \A s \in ToSet(a.sections) : Only(a.stream, ToSet(s.list)) = s.list
    BY <1>1, <1>2, <1>3, <2>1
  <2> QED
    BY <1>1, <1>3, <2>2, <2>3 DEF StreamOfSections
<1>5. FixedIsUnbroken(a)
  <2>1. \A i \in 1 .. N : FixedTopic(a, i) => Neighbours(a.sections[i].list, a.stream)
    BY <1>1, <1>2, <1>3 DEF FixedTopic, Setting
  <2> QED
    BY <1>1, <2>1 DEF FixedIsUnbroken, Neighbours
<1>6. FixedInOrder(a)
  <2>1. ASSUME NEW i \in 1 .. N, FixedTopic(a, i)
        PROVE  OrderKept(Setting(a, i), a.sections[i].form, a.sections[i].list)
    <3> DEFINE s == S[i]
               pool == src.pools[s.topic]
               l == d.sections[i]
    <3>1. SectionSound(pool, s) /\ DealtTo(drawn[i], pool, s)
      BY DEF Laid, Assembled
    <3>2. l \in orderSection(drawn[i], "fixed")
      BY <1>1, <1>3, <2>1 DEF FixedTopic, Setting
    <3>3. Setting(a, i) = s /\ a.sections[i].form = drawn[i].form /\ a.sections[i].list = l
      BY <1>1, <1>2 DEF Setting
    <3> HIDE DEF s, pool, l
    <3>4. OrderKept(s, drawn[i].form, l)
      BY <3>1, <3>2, KeepsOrder
    <3> QED
      BY <3>3, <3>4
  <2> QED
    BY <1>1, <2>1 DEF FixedInOrder, OrderKept
<1> QED
  BY <1>4, <1>5, <1>6

LEMMA RowBlocks ==
  ASSUME NEW src, NEW drawn, NEW d, NEW V, Laid(src, drawn, d, V), NEW a, Stored(a, src, drawn, d)
  PROVE  TopicsStayBlocks(a)
<1> DEFINE N == Len(src.test.sections)
           lists == [i \in DOMAIN a.sections |-> a.sections[i].list]
<1>1. DOMAIN a.sections = 1 .. N /\ a.source = src /\ a.stream = d.flat
  BY DEF Stored
<1>2. lists = d.sections
  <2>1. d.sections \in [1 .. N -> Seq(V)]
    BY DEF Laid, Assembled
  <2>2. d.sections = [i \in 1 .. N |-> d.sections[i]]
    BY <2>1
  <2>3. lists = [i \in 1 .. N |-> a.sections[i].list]
    BY <1>1
  <2>4. \A i \in 1 .. N : a.sections[i].list = d.sections[i]
    BY DEF Stored
  <2> HIDE DEF lists, N
  <2> QED
    BY <2>2, <2>3, <2>4
<1>3. ~mixAcrossTopics(src.test) => d.flat = FlattenSeq(d.sections)
  BY DEF Laid, Assembled
<1> QED
  BY <1>1, <1>2, <1>3 DEF TopicsStayBlocks, mixAcrossTopics, isFlatFlow

LEMMA AttemptGood ==
  ASSUME NEW src, SourceGood(src), NEW drawn \in Draws(src), NEW d \in assembleDelivery(src.test, drawn)
  PROVE  RowGood(Attempt(src, drawn, d))
<1> DEFINE a == Attempt(src, drawn, d)
<1>1. PICK V : Laid(src, drawn, d, V)
  BY AttemptLaid
<1>2. Stored(a, src, drawn, d)
  BY <1>1, AttemptStores DEF Laid, Assembled
<1>3. a.source = src
  BY <1>2 DEF Stored
<1> HIDE DEF a
<1>4. FilledAsChecked(a) /\ ExactIsCeiling(a)
  BY <1>1, <1>2, RowFilled
<1>5. PoolsApart(src) => StreamOfSections(a) /\ FixedIsUnbroken(a) /\ FixedInOrder(a)
  BY <1>1, <1>2, RowOrdered
<1>6. TopicsStayBlocks(a)
  BY <1>1, <1>2, RowBlocks
<1> QED
  BY <1>3, <1>4, <1>5, <1>6 DEF RowGood, a

-----------------------------------------------------------------------------
(* The learner's rows, the source of each and the bank together.            *)

(* Each question of a bank is in the pool of one topic.                     *)
LEMMA TopicsApart ==
  ASSUME NEW b, NEW t, NEW u, t # u
  PROVE  IdsIn(PoolOf(b, t)) \cap IdsIn(PoolOf(b, u)) = {}
<1>1. ASSUME NEW topic, NEW x \in IdsIn(PoolOf(b, topic)) PROVE b[x].topic = topic
  <2>1. PICK i \in {j \in Ids : b[j].topic = topic} : x = Entry(b, i).id
    BY PoolEntries DEF IdsIn
  <2> QED
    BY <2>1 DEF Entry
<1> QED
  BY <1>1

LEMMA BankApart ==
  ASSUME NEW src, NEW t \in Tests, src.test.sections = t.sections, NEW b,
         \A s \in ToSet(src.test.sections) : src.pools[s.topic] = PoolOf(b, s.topic)
  PROVE  PoolsApart(src)
<1> DEFINE S == src.test.sections
<1> SUFFICES ASSUME NEW i \in DOMAIN S, NEW j \in DOMAIN S, i # j
             PROVE  IdsIn(src.pools[S[i].topic]) \cap IdsIn(src.pools[S[j].topic]) = {}
  BY DEF PoolsApart
<1>1. S[i].topic # S[j].topic
  <2>1. IsInjective(TopicsOf(t))
    BY EditorAssumption
  <2>2. DOMAIN TopicsOf(t) = DOMAIN S /\ TopicsOf(t)[i] = S[i].topic /\ TopicsOf(t)[j] = S[j].topic
    BY DEF TopicsOf
  <2> QED
    BY <2>1, <2>2 DEF IsInjective
<1>2. S[i] \in ToSet(S) /\ S[j] \in ToSet(S)
  BY DEF ToSet
<1> QED
  BY <1>1, <1>2, TopicsApart

(* sourceForStart: the live bank, of which only the types are known ...     *)
LEMMA LiveGood ==
  ASSUME bank \in [Ids -> Row], test \in Tests
  PROVE  SourceGood([id |-> Live, test |-> test, touched |-> TRUE, pools |-> LivePools])
<1> DEFINE src == [id |-> Live, test |-> test, touched |-> TRUE, pools |-> LivePools]
<1>1. \A s \in ToSet(test.sections) : LivePools[s.topic] \in Reads
  BY TestsTyped, SectionsTyped, PoolRead DEF LivePools
<1>2. src.test = test /\ src.touched = TRUE /\ src.pools = LivePools
  OBVIOUS
<1> HIDE DEF src
<1>3. SourceGood(src)
  BY <1>1, <1>2 DEF SourceGood
<1> QED
  BY <1>3 DEF src

(* ... and the latest snapshot.                                             *)
FrozenInv == \A src \in {frozen} : src # NoSnapshot => SourceGood(src)

LEMMA InsertedGood ==
  ASSUME Inv, NEW r \in Slots, InsertSnapshot(r), CheckedSnapshot'
  PROVE  SourceGood(frozen')
<1> DEFINE t == req[r].test
           old == req[r].pools
           pools == [topic \in ToSet(TopicsOf(t)) |-> old[CHOOSE i \in DOMAIN old : TopicsOf(t)[i] = topic]]
           src == frozen'
<1>1. /\ Good(req[r]) /\ Shape(req[r]) /\ req[r] \in Request /\ req[r].pc = "insert"
  BY DEF InsertSnapshot, Inv, Good, Shape
<1>2. /\ src = [id |-> frozen.id + 1, test |-> t, touched |-> req[r].touched, pools |-> pools]
      /\ frozen.id \in Nat
  BY Bounds DEF InsertSnapshot, Inv, TypeInv
<1>3. src.test = t /\ src.touched = req[r].touched /\ src.pools = pools /\ src # NoSnapshot
  <2>1. src.id = frozen.id + 1 /\ src.test = t /\ src.touched = req[r].touched /\ src.pools = pools
    BY <1>2
  <2>2. src.id # 0
    BY <1>2, <2>1
  <2> QED
    BY <2>1, <2>2 DEF NoSnapshot
<1>4. PICK t0 \in Tests : t.sections = t0.sections
  BY <1>1 DEF Shape, Saved
<1>5. t \in TestType /\ old \in Seq(Reads) /\ Len(old) = Len(t.sections)
  BY <1>1 DEF Request, Shape
<1>6. ASSUME NEW s \in ToSet(t.sections)
      PROVE  \E i \in 1 .. Len(old) : pools[s.topic] = old[i] /\ t.sections[i].topic = s.topic
  BY <1>5, PoolsInserted
<1>7. \A i \in 1 .. Len(old) : old[i] \in Reads
  BY <1>5
<1>8. ~req[r].touched => \A i \in 1 .. Len(old) : old[i] = PoolOf(bank, t.sections[i].topic)
  BY <1>1 DEF Good, Fresh
<1> HIDE DEF pools, old, t
<1>9. \A s \in ToSet(t.sections) : pools[s.topic] \in Reads
  BY <1>6, <1>7
<1>10. ~req[r].touched => \A s \in ToSet(t.sections) : pools[s.topic] = PoolOf(bank, s.topic)
  BY <1>6, <1>8
<1>11. ~src.touched => AllFeasible(src.test, src.pools)
  BY <1>3 DEF CheckedSnapshot
<1> HIDE DEF src
<1>12. ~src.touched => PoolsApart(src)
  BY <1>3, <1>4, <1>10, BankApart
<1>13. SourceGood(src)
  BY <1>3, <1>4, <1>9, <1>11, <1>12 DEF SourceGood
<1> QED
  BY <1>13 DEF src

LEMMA FrozenStep ==
  ASSUME Inv, FrozenInv, [Author]_bankVars
  PROVE  FrozenInv'
<1>1. ASSUME NEW r \in Slots, InsertSnapshot(r) PROVE FrozenInv'
  <2>1. CheckedSnapshot'
    BY InvNext, <1>1 DEF Author, Inv
  <2>2. SourceGood(frozen')
    BY <1>1, <2>1, InsertedGood
  <2> QED
    BY <2>2 DEF FrozenInv
<1>2. CASE frozen' = frozen
  BY <1>2 DEF FrozenInv
<1>3. (\E r \in Slots : InsertSnapshot(r)) \/ frozen' = frozen
  BY DEF Author, bankVars, Assess, Decide, Write, BeginPublish, CheckSection, PatchStatus, BuildSections,
         BuildPool, PublishFails, EditUnguarded, SaveTest, Withdraw
<1> QED
  BY <1>1, <1>2, <1>3

-----------------------------------------------------------------------------
(* The rows.                                                                *)

RowsInv == \A a \in Range(runs) : RowGood(a)

LEMMA RowSame ==
  ASSUME NEW a, RowGood(a), NEW c, c.source = a.source, c.sections = a.sections, c.stream = a.stream
  PROVE  RowGood(c)
<1>1. \A i : /\ Setting(c, i) = Setting(a, i) /\ PoolUnder(c, i) = PoolUnder(a, i)
             /\ FixedTopic(c, i) <=> FixedTopic(a, i)
  BY DEF Setting, PoolUnder, FixedTopic
<1>2. FilledAsChecked(c)
  BY <1>1 DEF RowGood, FilledAsChecked
<1>3. ExactIsCeiling(c)
  BY <1>1 DEF RowGood, ExactIsCeiling
<1>4. PoolsApart(a.source) => StreamOfSections(c) /\ FixedIsUnbroken(c)
  BY <1>1 DEF RowGood, StreamOfSections, FixedIsUnbroken
<1>5. PoolsApart(a.source) => FixedInOrder(c)
  BY <1>1 DEF RowGood, FixedInOrder
<1>6. TopicsStayBlocks(c)
  BY DEF RowGood, TopicsStayBlocks
<1> QED
  BY <1>2, <1>3, <1>4, <1>5, <1>6 DEF RowGood

LEMMA RowsStart ==
  ASSUME Inv, FrozenInv, RowsInv, Start
  PROVE  RowsInv'
<1> DEFINE src == sourceForStart
<1>1. SourceGood(src)
  BY LiveGood DEF sourceForStart, FrozenInv, Inv, TypeInv
<1>2. PICK a : /\ \/ a \in carryOverVariant(src)
                  \/ \E drawn \in Draws(src) : \E d \in assembleDelivery(src.test, drawn) :
                       a = Attempt(src, drawn, d)
               /\ runs' = [n \in Finished \cup {starts + 1} |-> IF n \in Finished THEN runs[n] ELSE a]
  BY DEF Start
<1> HIDE DEF src
<1>3. RowGood(a)
  <2>1. CASE a \in carryOverVariant(src)
    BY <2>1 DEF carryOverVariant, RowsInv, Open, Range
  <2>2. CASE \E drawn \in Draws(src) : \E d \in assembleDelivery(src.test, drawn) : a = Attempt(src, drawn, d)
    <3>1. PICK drawn \in Draws(src) : \E d \in assembleDelivery(src.test, drawn) : a = Attempt(src, drawn, d)
      BY <2>2
    <3>2. PICK d \in assembleDelivery(src.test, drawn) : a = Attempt(src, drawn, d)
      BY <3>1
    <3> QED
      BY <1>1, <3>2, AttemptGood
  <2> QED
    BY <1>2, <2>1, <2>2
<1>4. \A n \in Finished : RowGood(runs[n])
  BY DEF Finished, RowsInv, Range
<1>5. \A n \in DOMAIN runs' : RowGood(runs'[n])
  BY <1>2, <1>3, <1>4
<1> QED
  BY <1>5 DEF RowsInv, Range

LEMMA RowsFinish ==
  ASSUME RotationInv, RowsInv, Finish
  PROVE  RowsInv'
<1>1. PICK n \in Open : runs' = [runs EXCEPT ![n].finished = TRUE]
  BY DEF Finish
<1>2. n \in DOMAIN runs /\ DOMAIN runs[n] = AttemptFields
  BY DEF Open, RotationInv
<1>3. /\ DOMAIN runs' = DOMAIN runs
      /\ \A m \in DOMAIN runs : /\ runs'[m].source = runs[m].source /\ runs'[m].sections = runs[m].sections
                                /\ runs'[m].stream = runs[m].stream
  BY <1>1, <1>2 DEF AttemptFields
<1>4. \A m \in DOMAIN runs : RowGood(runs[m])
  BY DEF RowsInv, Range
<1>5. \A m \in DOMAIN runs' : RowGood(runs'[m])
  BY <1>3, <1>4, RowSame
<1> QED
  BY <1>5 DEF RowsInv, Range

LearnerInv == Inv /\ RotationInv /\ FrozenInv /\ RowsInv

LEMMA LearnerInit == Init => LearnerInv
<1> SUFFICES ASSUME Init PROVE LearnerInv
  OBVIOUS
<1>1. BankInit /\ DOMAIN runs = {} /\ starts = 0 /\ frozen = NoSnapshot
  BY DEF Init, BankInit
<1>2. RotationInv
  BY <1>1 DEF RotationInv, Open
<1>3. FrozenInv /\ RowsInv
  BY <1>1 DEF FrozenInv, RowsInv, Range
<1> QED
  BY <1>1, <1>2, <1>3, InvInit DEF LearnerInv

LEMMA LearnerNext == LearnerInv /\ [Next]_vars => LearnerInv'
<1> SUFFICES ASSUME LearnerInv, [Next]_vars PROVE LearnerInv'
  OBVIOUS
<1>1. Inv /\ RotationInv /\ FrozenInv /\ RowsInv
  BY DEF LearnerInv
<1>2. [Author]_bankVars
  BY DEF Next, Start, Finish, vars
<1>3. Inv' /\ FrozenInv'
  BY <1>1, <1>2, InvNext, FrozenStep
<1>4. CASE UNCHANGED <<runs, starts>>
  BY <1>1, <1>3, <1>4 DEF LearnerInv, RotationInv, RowsInv, Open
<1>5. CASE Start
  BY <1>1, <1>3, <1>5, RotationStart, RowsStart DEF LearnerInv
<1>6. CASE Finish
  BY <1>1, <1>3, <1>6, RotationFinish, RowsFinish DEF LearnerInv
<1> QED
  BY <1>4, <1>5, <1>6 DEF Next, vars

(* The bank, the learner's rows and the sources of the rows, together.      *)
THEOREM LearnerInvHolds == Spec => []LearnerInv
BY LearnerInit, LearnerNext, PTL DEF Spec

(* drawSection, selectForm and feasibility.ts: an attempt on a snapshot     *)
(* whose publication nobody disturbed gets every variant whole and every    *)
(* section at its number with its quotas met, and no attempt more of an     *)
(* exact tag than asked, for any bank, tests and shuffle, and whatever was  *)
(* edited, published or carried over since.                                 *)
THEOREM DrawsAsAsked == Spec => []DrawnAsAsked
<1>1. LearnerInv => DrawnAsAsked
  BY DEF LearnerInv, RowsInv, RowGood, DrawnAsAsked
<1> QED
  BY <1>1, LearnerInvHolds, PTL

(* assemble-delivery.ts: the stream of an attempt holds the questions of    *)
(* its sections once each, a topic in fixed order travels unbroken and in   *)
(* the author's order, and topics that are not mixed stay blocks, for any   *)
(* settings and any shuffle of a content that holds a question once; an     *)
(* undisturbed snapshot is such a content.                                  *)
THEOREM OrdersAsAuthored == Spec => []OrderAsAuthored
<1>1. LearnerInv => OrderAsAuthored
  BY DEF LearnerInv, RowsInv, RowGood, SourceGood, OrderAsAuthored, HeldOnce
<1> QED
  BY <1>1, LearnerInvHolds, PTL

=============================================================================
