------------------------------ MODULE BankGuard ------------------------------
(***************************************************************************)
(* The question bank under a test, the check that guards every change to   *)
(* it (server/services/draw-feasibility.ts called from routes/questions.ts *)
(* and routes/tests.ts) and the publication that freezes what the learners *)
(* get (services/test-snapshot.ts).                                        *)
(*                                                                         *)
(* A handler reads, decides and writes in separate calls to the database;  *)
(* another author's request may run between any two of them.  `touched` is *)
(* a history variable of a request: another write came between its first   *)
(* read and now.                                                           *)
(***************************************************************************)
EXTENDS Draw

CONSTANTS
  Topics,      \* the topics of the bank
  Ids,         \* ids of the questions, ordered as the bank breaks ties
  TagSets,     \* the sets of tags a question may carry
  Tests,       \* what an author may save: [sections, questionOrder, flow]
  Banks,       \* the banks it starts with
  Slots,       \* author requests running at the same time
  MaxWrites,   \* bound: writes to the bank and to the test
  MaxFreezes   \* bound: snapshots

Gone == "gone"     \* the question is deleted
Keep == {"keep"}   \* the request leaves the tags alone

Row == [topic : Topics \cup {Gone}, tags : TagSets, index : 0 .. 1]

SectionType ==
  [topic : Topics, drawAll : BOOLEAN, drawCount : Nat,
   strata : Seq([tag : STRING, count : Nat, mode : {"exact", "min"}]),
   forms : Seq([id : Nat \ {NoForm}, questions : Seq(Ids)]),
   order : {"fixed", "random", "inherit"}]

TestType ==
  [sections : Seq(SectionType), questionOrder : {"fixed", "random", "shuffle_all"},
   flow : {"linear_flat", "linear_by_topics", "router_by_topics"}]

(* sectionBodySchema: the quotas never exceed the section's number, unless  *)
(* the topic is drawn whole.                                                *)
ASSUME BankGuardAssumption ==
  /\ Ids \subseteq Nat /\ IsFiniteSet(Ids)
  /\ MaxWrites \in Nat /\ MaxFreezes \in Nat
  /\ Gone \notin Topics
  /\ Tests \subseteq TestType
  /\ Banks \subseteq [Ids -> Row]
  /\ \A t \in Tests : \A s \in ToSet(t.sections) :
       s.forms = <<>> /\ ~s.drawAll => Quotas(s.strata) <= s.drawCount

VARIABLES
  bank,     \* questions: [Ids -> [topic, tags, index]]
  test,     \* tests and test_sections: a member of Tests
  status,   \* tests.status
  frozen,   \* the latest row of test_snapshots, or NoSnapshot
  writes,   \* number of writes so far
  req       \* local state of every author request

bankVars == <<bank, test, status, frozen, writes, req>>

NoSnapshot == [id |-> 0]

(* getQuestionsByTopic. *)
PoolOf(b, topic) ==
  {[id |-> i, tags |-> b[i].tags, index |-> b[i].index] : i \in {j \in Ids : b[j].topic = topic}}

TopicsOf(t) == [i \in DOMAIN t.sections |-> t.sections[i].topic]

(* The editor offers a topic to a test only once (topics-structure-         *)
(* section.tsx) and a question to a variant only once (variants-editor.tsx);*)
(* the routes take what they are sent.                                      *)
ASSUME EditorAssumption ==
  \A t \in Tests :
    /\ IsInjective(TopicsOf(t))
    /\ \A s \in ToSet(t.sections) : \A f \in ToSet(s.forms) : IsInjective(f.questions)

(* Every section can be drawn from its topic's pool.                        *)
AllFeasible(t, pools) == \A s \in ToSet(t.sections) : Feasible(pools[s.topic], s)

LivePools == [topic \in Topics |-> PoolOf(bank, topic)]

-----------------------------------------------------------------------------
(* Requests that change the bank.                                           *)

Steps == {"idle", "decide", "write", "check", "patch", "sections", "pools", "insert"}

(* A change of questions: the ids, where they go and their tags after it.   *)
Changes == [ids : SUBSET Ids, to : Topics \cup {Gone, "stay"}, tags : TagSets \cup {Keep}]

NoChange == [ids |-> {}, to |-> "stay", tags |-> Keep]

Idle == [pc |-> "idle", change |-> NoChange, from |-> Gone, pool |-> {}, force |-> FALSE,
         test |-> [sections |-> <<>>, questionOrder |-> "random", flow |-> "linear_flat"],
         checked |-> 0, pools |-> <<>>, touched |-> FALSE]

applied(b, c) ==
  [i \in Ids |-> IF i \notin c.ids THEN b[i]
                 ELSE [b[i] EXCEPT !.topic = IF c.to = "stay" THEN @ ELSE c.to,
                                   !.tags = IF c.tags = Keep THEN @ ELSE c.tags]]

(* A write comes between the steps of every other request in flight.        *)
Touch(others) ==
  [q \in Slots |-> [req[q] EXCEPT !.touched = @ \/ (q \in others /\ req[q].pc # "idle")]]

(* DELETE /questions/:id, /bulk-delete, and PUT /questions/:id with other   *)
(* tags or another topic: assessQuestionsRemoval and assessQuestionChange   *)
(* read the pool of the topic the questions are in, as it would be after.   *)
(* The model sends the tags and the move of a PUT in two requests, and a    *)
(* bulk removal one topic at a time.                                        *)
Assess(r, c, from, force) ==
  /\ req[r].pc = "idle"
  /\ writes < MaxWrites
  /\ c.ids # {} /\ \A i \in c.ids : bank[i].topic = from
  /\ \/ c.to = Gone /\ c.tags = Keep
     \/ c.to \in Topics \ {from} /\ c.tags = Keep /\ Cardinality(c.ids) = 1
     \/ c.to = "stay" /\ c.tags # Keep /\ \E i \in Ids : c.ids = {i} /\ bank[i].tags # c.tags
  /\ req' = [req EXCEPT ![r] = [Idle EXCEPT !.pc = "decide", !.change = c, !.from = from,
                                            !.force = force,
                                            !.pool = PoolOf(applied(bank, c), from)]]
  /\ UNCHANGED <<bank, test, status, frozen, writes>>

(* Mutant: the verdict is computed and not looked at. *)
DecideNothing(r) ==
  /\ req[r].pc = "decide"
  /\ req' = [req EXCEPT ![r].pc = "write", ![r].pool = {}]
  /\ UNCHANGED <<bank, test, status, frozen, writes>>

(* Mutant: the pool is counted, and the quotas are forgotten.               *)
DecideByNumber(r) ==
  /\ req[r].pc = "decide"
  /\ LET blocked == /\ status = "published"
                    /\ \E s \in ToSet(test.sections) :
                         s.topic = req[r].from /\ Cardinality(req[r].pool) < s.drawCount
     IN  req' = IF blocked /\ ~req[r].force THEN [req EXCEPT ![r] = Idle]
                ELSE [req EXCEPT ![r].pc = "write", ![r].pool = {}]
  /\ UNCHANGED <<bank, test, status, frozen, writes>>

(* buildRequirements, checkDrawFeasibility, applyPolicy, respondIfBlocked:  *)
(* only a published test that cannot be drawn any more blocks, and only     *)
(* without an administrator's force.                                        *)
Decide(r) ==
  /\ req[r].pc = "decide"
  /\ LET blocked == /\ status = "published"
                    /\ \E s \in ToSet(test.sections) :
                         s.topic = req[r].from /\ ~Feasible(req[r].pool, s)
     IN  req' = IF blocked /\ ~req[r].force THEN [req EXCEPT ![r] = Idle]
                ELSE [req EXCEPT ![r].pc = "write", ![r].pool = {}]
  /\ UNCHANGED <<bank, test, status, frozen, writes>>

(* deleteQuestion, deleteQuestionsBulk, updateQuestion.  A row that went in *)
(* the meantime stays gone.                                                 *)
Write(r) ==
  /\ req[r].pc = "write"
  /\ writes < MaxWrites
  /\ LET c == req[r].change
     IN  bank' = applied(bank, [c EXCEPT !.ids = {i \in @ : bank[i].topic # Gone}])
  /\ writes' = writes + 1
  /\ req' = [Touch(Slots) EXCEPT ![r] = Idle]
  /\ UNCHANGED <<test, status, frozen>>

(* POST /questions, and a PUT that only moves the question inside the       *)
(* author's order: neither is assessed.                                     *)
EditUnguarded(i, topic, tags, index) ==
  /\ \/ bank[i].topic = Gone
     \/ bank[i].topic = topic /\ bank[i].tags = tags /\ bank[i].index # index
  /\ writes < MaxWrites
  /\ bank' = [bank EXCEPT ![i] = [topic |-> topic, tags |-> tags, index |-> index]]
  /\ writes' = writes + 1
  /\ req' = Touch(Slots)
  /\ UNCHANGED <<test, status, frozen>>

(* PUT /tests/:id: one transaction rewrites the test, the status the editor  *)
(* sends along and the sections; the new requirement is not held against    *)
(* the pools (the editor only reads the verdict afterwards), and no         *)
(* snapshot comes with the status.                                          *)
SaveTest(t, s) ==
  /\ t # test \/ s # status
  /\ writes < MaxWrites
  /\ test' = t /\ status' = s
  /\ writes' = writes + 1
  /\ req' = Touch(Slots)
  /\ UNCHANGED <<bank, frozen>>

-----------------------------------------------------------------------------
(* Publication: PATCH /tests/:id/status with published.                     *)

(* assessTestPublish reads the test and its sections.                       *)
BeginPublish(r) ==
  /\ req[r].pc = "idle"
  /\ frozen.id < MaxFreezes
  /\ req' = [req EXCEPT ![r] = [Idle EXCEPT !.pc = IF test.sections = <<>> THEN "patch" ELSE "check",
                                            !.test = test]]
  /\ UNCHANGED <<bank, test, status, frozen, writes>>

(* Mutant: the first section decides. *)
CheckFirstSection(r) ==
  LET s == req[r].test.sections[1]
  IN  /\ req[r].pc = "check"
      /\ req' = IF Feasible(PoolOf(bank, s.topic), s) THEN [req EXCEPT ![r].pc = "patch"]
                                                     ELSE [req EXCEPT ![r] = Idle]
      /\ UNCHANGED <<bank, test, status, frozen, writes>>

(* ... and the pool of each section in turn; a finding refuses.             *)
CheckSection(r) ==
  LET n == req[r].checked + 1
      s == req[r].test.sections[n]
  IN  /\ req[r].pc = "check"
      /\ req' = IF Feasible(PoolOf(bank, s.topic), s)
                THEN [req EXCEPT ![r].checked = n,
                                 ![r].pc = IF n = Len(req[r].test.sections) THEN "patch" ELSE @]
                ELSE [req EXCEPT ![r] = Idle]
      /\ UNCHANGED <<bank, test, status, frozen, writes>>

(* patchTestStatus, then buildSnapshotContent reads the test row.           *)
PatchStatus(r) ==
  /\ req[r].pc = "patch"
  /\ status' = "published"
  /\ req' = [Touch(Slots \ {r}) EXCEPT ![r].pc = "sections", ![r].test = test, ![r].checked = 0]
  /\ UNCHANGED <<bank, test, frozen, writes>>

(* buildSnapshotContent: the sections ...                                   *)
BuildSections(r) ==
  /\ req[r].pc = "sections"
  /\ req' = [req EXCEPT ![r].test.sections = test.sections,
                        ![r].pc = IF test.sections = <<>> THEN "insert" ELSE "pools"]
  /\ UNCHANGED <<bank, test, status, frozen, writes>>

(* ... and the questions of each topic, one query after the other.          *)
BuildPool(r) ==
  LET n == Len(req[r].pools) + 1
  IN  /\ req[r].pc = "pools"
      /\ req' = [req EXCEPT ![r].pools = Append(@, PoolOf(bank, req[r].test.sections[n].topic)),
                            ![r].pc = IF n = Len(req[r].test.sections) THEN "insert" ELSE @]
      /\ UNCHANGED <<bank, test, status, frozen, writes>>

(* createTestSnapshot: the row that is read from now on.  Both pools of a   *)
(* topic that two sections name would be the same read.                     *)
InsertSnapshot(r) ==
  /\ req[r].pc = "insert"
  /\ frozen.id < MaxFreezes
  /\ frozen' = [id |-> frozen.id + 1, test |-> req[r].test, touched |-> req[r].touched,
                pools |-> [topic \in ToSet(TopicsOf(req[r].test)) |->
                             req[r].pools[CHOOSE i \in DOMAIN req[r].pools :
                                            TopicsOf(req[r].test)[i] = topic]]]
  /\ req' = [req EXCEPT ![r] = Idle]
  /\ UNCHANGED <<bank, test, status, writes>>

(* The database or the process fails between the status and the snapshot:   *)
(* the request answers 500 and nothing is undone.                           *)
PublishFails(r) ==
  /\ req[r].pc \in {"sections", "pools", "insert"}
  /\ req' = [req EXCEPT ![r] = Idle]
  /\ UNCHANGED <<bank, test, status, frozen, writes>>

(* PATCH /tests/:id/status with draft.                                      *)
Withdraw ==
  /\ status = "published"
  /\ status' = "draft"
  /\ req' = Touch(Slots)
  /\ UNCHANGED <<bank, test, frozen, writes>>

-----------------------------------------------------------------------------

BankInit ==
  /\ bank \in Banks
  /\ test \in Tests
  /\ status = "draft"
  /\ frozen = NoSnapshot
  /\ writes = 0
  /\ req = [r \in Slots |-> Idle]

Author ==
  \/ \E r \in Slots :
       \/ \E c \in Changes, from \in Topics, force \in BOOLEAN : Assess(r, c, from, force)
       \/ Decide(r)
       \/ Write(r)
       \/ BeginPublish(r)
       \/ CheckSection(r)
       \/ PatchStatus(r)
       \/ BuildSections(r)
       \/ BuildPool(r)
       \/ InsertSnapshot(r)
       \/ PublishFails(r)
  \/ \E i \in Ids, topic \in Topics, tags \in TagSets, index \in 0 .. 1 :
       EditUnguarded(i, topic, tags, index)
  \/ \E t \in Tests, s \in {"draft", "published"} : SaveTest(t, s)
  \/ Withdraw

BankSpec == BankInit /\ [][Author]_bankVars

-----------------------------------------------------------------------------
(* Properties.                                                              *)

(* Types: the sections of a snapshot are those of one save. *)
BankTypeOK ==
  /\ bank \in [Ids -> Row]
  /\ test \in Tests /\ status \in {"draft", "published"}
  /\ frozen # NoSnapshot => /\ frozen.id \in 1 .. MaxFreezes
                           /\ \E t \in Tests : frozen.test.sections = t.sections
  /\ writes \in 0 .. MaxWrites
  /\ \A r \in Slots : req[r].pc \in Steps

(* assessTestPublish: what the learners of a published test draw from can   *)
(* be drawn, unless another write came between the check and the snapshot.  *)
CheckedSnapshot ==
  frozen # NoSnapshot /\ ~frozen.touched => AllFeasible(frozen.test, frozen.pools)

Undisturbed(r) == ~req[r].force /\ ~req[r].touched

(* PRD-15: a removal, a move or new tags that an author did not force, and  *)
(* nobody disturbed, leave every section of the topic drawable in a         *)
(* published test.                                                          *)
TopicStaysDrawable ==
  [][\A r \in Slots :
       Write(r) /\ Undisturbed(r) /\ status = "published" =>
         \A s \in ToSet(test.sections) : s.topic = req[r].from => Feasible(LivePools[s.topic]', s)]_bankVars

(* ... and the whole test with it, if it was: a question that moves does no *)
(* harm to the topic it comes to, though nothing looks at that one.         *)
GuardHolds ==
  [][\A r \in Slots :
       (Write(r) /\ Undisturbed(r) /\ status = "published" /\ AllFeasible(test, LivePools))
       => AllFeasible(test, LivePools)']_bankVars

=============================================================================
