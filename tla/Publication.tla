----------------------------- MODULE Publication -----------------------------
(***************************************************************************)
(* Publication of one test: its status, the live question bank, the frozen *)
(* snapshots and the requests that create and prune them                   *)
(* (server/routes/tests.ts over server/services/test-snapshot.ts).         *)
(*                                                                         *)
(* Every await of a handler is a boundary between two steps: the process   *)
(* is single-threaded, but another request may run between any two calls   *)
(* to the database, and no handler holds a lock or a transaction.          *)
(*                                                                         *)
(* The content of a test is one number, the edition of the bank it was     *)
(* read from; torn reads inside buildSnapshotContent are not represented.  *)
(* The attempts live in another module, which hands the ids they pin to    *)
(* ReadReferenced.                                                         *)
(***************************************************************************)
EXTENDS Integers, FiniteSets

CONSTANTS
  Publishers,     \* slots of author requests running at the same time
  MaxEdition,     \* bound: editions of the bank
  MaxSnapshots    \* bound: snapshots ever created

ASSUME PublicationAssumption ==
  /\ MaxEdition \in Nat \ {0}
  /\ MaxSnapshots \in Nat

VARIABLES
  status,     \* tests.status, or "deleted" once the row is gone
  bank,       \* edition of the live content
  snapshots,  \* rows of test_snapshots
  minted,     \* number of snapshot ids handed out (randomUUID never repeats)
  pub         \* local state of every author request

pubVars == <<status, bank, snapshots, minted, pub>>

None == 0   \* snapshotId NULL

SnapshotIds == 1 .. MaxSnapshots
Editions    == 1 .. MaxEdition

Snapshot == [id : SnapshotIds, version : Nat \ {0}, content : Editions]

Statuses == {"draft", "published", "archived", "deleted"}

PublisherSteps ==
  {"idle", "patch", "annul", "build", "version", "insert", "prune", "delete"}

Publisher ==
  [pc         : PublisherSteps,
   force      : BOOLEAN,                            \* republish-force
   content    : Editions \cup {0},                  \* buildSnapshotContent
   version    : Nat,                                \* latest + 1
   keep       : SnapshotIds \cup {None},            \* keepId
   all        : SUBSET SnapshotIds,                 \* getSnapshotsForTest
   referenced : SUBSET SnapshotIds,                 \* getReferencedSnapshotIds
   pending    : SUBSET {"all", "referenced"}]       \* reads of Promise.all still out

IdlePublisher ==
  [pc |-> "idle", force |-> FALSE, content |-> 0, version |-> 0, keep |-> None,
   all |-> {}, referenced |-> {}, pending |-> {}]

PublicationTypeOK ==
  /\ status \in Statuses
  /\ bank \in Editions
  /\ snapshots \subseteq Snapshot
  /\ minted \in 0 .. MaxSnapshots
  /\ pub \in [Publishers -> Publisher]

PublicationInit ==
  /\ status = "draft"
  /\ bank = 1
  /\ snapshots = {}
  /\ minted = 0
  /\ pub = [p \in Publishers |-> IdlePublisher]

IdsOf(rows) == {s.id : s \in rows}

(* getLatestSnapshot: order by version desc limit 1; the pair (test,        *)
(* version) is unique.                                                      *)
HasSnapshot == snapshots # {}
LatestSnapshot == CHOOSE s \in snapshots : \A t \in snapshots : t.version <= s.version

(* getSnapshot: at most one row has the id.                                 *)
SnapshotsOf(id) == {s \in snapshots : s.id = id}

(* dataSourceForAttempt: every getter reads the pinned snapshot if it is    *)
(* still there, the live content otherwise.                                 *)
dataSourceForAttempt(id) ==
  IF SnapshotsOf(id) = {} THEN bank ELSE (CHOOSE s \in SnapshotsOf(id) : TRUE).content

-----------------------------------------------------------------------------

(* The bound on snapshots: a publication may begin while an id is left for  *)
(* it, counting those that have begun and not yet inserted.                 *)
IdLeft ==
  minted + Cardinality({p \in Publishers : pub[p].pc \notin {"idle", "prune", "delete"}})
    < MaxSnapshots

(* Any edit of the bank or of the working draft.                            *)
EditBank ==
  /\ bank < MaxEdition
  /\ bank' = bank + 1
  /\ UNCHANGED <<status, snapshots, minted, pub>>

(* PATCH /tests/:id/status with draft or archived, and POST /restore: the   *)
(* status moves, no snapshot is made.                                       *)
Withdraw(to) ==
  /\ status \notin {"deleted", to}
  /\ to \in {"draft", "archived"}
  /\ status' = to
  /\ UNCHANGED <<bank, snapshots, minted, pub>>

(* PATCH /tests/:id/status with published: the row exists and the draw is   *)
(* feasible (a refusal changes nothing and is not a step).                  *)
BeginPublish(p) ==
  /\ pub[p].pc = "idle"
  /\ IdLeft
  /\ status # "deleted"
  /\ pub' = [pub EXCEPT ![p].pc = "patch"]
  /\ UNCHANGED <<status, bank, snapshots, minted>>

(* patchTestStatus: 404 when the row went in the meantime.                  *)
PatchStatus(p) ==
  /\ pub[p].pc = "patch"
  /\ IF status = "deleted"
     THEN /\ pub' = [pub EXCEPT ![p] = IdlePublisher]
          /\ UNCHANGED status
     ELSE /\ pub' = [pub EXCEPT ![p].pc = "build"]
          /\ status' = "published"
  /\ UNCHANGED <<bank, snapshots, minted>>

(* POST /tests/:id/republish-force: only a published test.                  *)
BeginRepublishForce(p) ==
  /\ pub[p].pc = "idle"
  /\ IdLeft
  /\ status = "published"
  /\ pub' = [pub EXCEPT ![p].pc = "annul", ![p].force = TRUE]
  /\ UNCHANGED <<status, bank, snapshots, minted>>

(* The publisher's half of annulInProgressAttempts(testId); the rows are    *)
(* deleted by the module that owns them, in the same step.                  *)
AnnulDone(p) ==
  /\ pub[p].pc = "annul"
  /\ pub' = [pub EXCEPT ![p].pc = "build"]
  /\ UNCHANGED <<status, bank, snapshots, minted>>

(* createTestSnapshot: freeze the live content; nothing when the test went. *)
BuildContent(p) ==
  /\ pub[p].pc = "build"
  /\ pub' = IF status = "deleted"
            THEN [pub EXCEPT ![p] = IdlePublisher]
            ELSE [pub EXCEPT ![p].pc = "version", ![p].content = bank]
  /\ UNCHANGED <<status, bank, snapshots, minted>>

(* createTestSnapshot: version = (latest?.version ?? 0) + 1                 *)
ReadVersion(p) ==
  /\ pub[p].pc = "version"
  /\ pub' = [pub EXCEPT ![p].pc = "insert",
                        ![p].version = IF HasSnapshot THEN LatestSnapshot.version + 1 ELSE 1]
  /\ UNCHANGED <<status, bank, snapshots, minted>>

(* createTestSnapshot: the insert fails on the unique (test, version) index *)
(* when another publication took the version, and the request answers 500   *)
(* with the status already changed.                                         *)
InsertSnapshot(p) ==
  LET id == minted + 1
  IN  /\ pub[p].pc = "insert"
      /\ minted < MaxSnapshots
      /\ IF \E s \in snapshots : s.version = pub[p].version
         THEN /\ pub' = [pub EXCEPT ![p] = IdlePublisher]
              /\ UNCHANGED <<snapshots, minted>>
         ELSE /\ snapshots' = snapshots \cup
                   {[id |-> id, version |-> pub[p].version, content |-> pub[p].content]}
              /\ minted' = id
              /\ pub' = [pub EXCEPT ![p].pc = "prune", ![p].keep = id,
                                    ![p].pending = {"all", "referenced"}]
      /\ UNCHANGED <<status, bank>>

(* pruneSnapshots: the two reads of Promise.all run in either order.        *)
ReadAll(p) ==
  /\ pub[p].pc = "prune"
  /\ "all" \in pub[p].pending
  /\ pub' = [pub EXCEPT ![p].all = IdsOf(snapshots),
                        ![p].pending = @ \ {"all"},
                        ![p].pc = IF pub[p].pending = {"all"} THEN "delete" ELSE @]
  /\ UNCHANGED <<status, bank, snapshots, minted>>

ReadReferenced(p, pinned) ==
  /\ pub[p].pc = "prune"
  /\ "referenced" \in pub[p].pending
  /\ pub' = [pub EXCEPT ![p].referenced = pinned \cap SnapshotIds,
                        ![p].pending = @ \ {"referenced"},
                        ![p].pc = IF pub[p].pending = {"referenced"} THEN "delete" ELSE @]
  /\ UNCHANGED <<status, bank, snapshots, minted>>

(* Mutant: only what attempts refer to is kept. *)
DoomedUnreferenced(q) == q.all \ q.referenced

Doomed(q) == q.all \ ({q.keep} \cup q.referenced)

(* pruneSnapshots: one deleteSnapshotById per doomed row, then done.        *)
DeleteDoomed(p) ==
  /\ pub[p].pc = "delete"
  /\ \/ /\ Doomed(pub[p]) = {}
        /\ pub' = [pub EXCEPT ![p] = IdlePublisher]
        /\ UNCHANGED snapshots
     \/ \E id \in Doomed(pub[p]) :
          /\ snapshots' = {s \in snapshots : s.id # id}
          /\ pub' = [pub EXCEPT ![p].all = @ \ {id}]
  /\ UNCHANGED <<status, bank, minted>>

(* deleteTest: one transaction removes the test and its snapshots.          *)
DeleteTest ==
  /\ status # "deleted"
  /\ status' = "deleted"
  /\ snapshots' = {}
  /\ UNCHANGED <<bank, minted, pub>>

=============================================================================
