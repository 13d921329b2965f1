----------------------------- MODULE TestEditing -----------------------------
(***************************************************************************)
(* Several authors edit one test: the editor of the web client             *)
(* (features/tests/editor) over a query cache that is never refetched by   *)
(* itself, PUT /tests/:id with its expectedVersion check                   *)
(* (services/test-settings.ts) and GET /tests/:id, which reads the row of  *)
(* the test before everything that hangs on it.                            *)
(*                                                                         *)
(* What authors write are edits, in two parts: what the transaction of the *)
(* PUT carries, and the result variables, scales and measurements, which   *)
(* the client sends after it in requests that know no version.  One item   *)
(* stands for all of these; what an override says and the content pages    *)
(* are not represented.  Every browser has a cache of its own.             *)
(***************************************************************************)
EXTENDS Naturals

CONSTANTS
  Authors,
  MaxEdits,     \* bound: edits made
  MaxVersion    \* bound: tests.version

ASSUME TestEditingAssumption == MaxEdits \in Nat /\ MaxVersion \in Nat \ {0}

VARIABLES
  row,      \* the test: its version, and what is stored with it and beside it
  cache,    \* ["/api/tests", id] in each browser, with its isInvalidated
  get,      \* the fetch of that query in flight
  editor,   \* the drawer: draft, snapshot, conflict, ...
  put,      \* saveAll in flight
  edits,    \* edits made so far
  own       \* history: the newest version a save of this author came back with

vars == <<row, cache, get, editor, put, edits, own>>

(* A copy of the test; version 0: there is none. *)
Copy == [version : 0 .. MaxVersion, content : SUBSET (1 .. MaxEdits), extras : SUBSET (1 .. MaxEdits)]
NoCopy == [version |-> 0, content |-> {}, extras |-> {}]

NoFetch == [pc |-> "none", version |-> 0]
Fetch   == [pc |-> "row",  version |-> 0]

(* `over`: the scoring overrides of the draft differ; `forced`: the draft's *)
(* version was taken from the conflict.                                     *)
Closed ==
  [open |-> FALSE, draft |-> NoCopy, snapshot |-> NoCopy, over |-> FALSE,
   design |-> FALSE, conflict |-> 0, forced |-> FALSE]

(* `todo`: what is still to be written after the PUT.                       *)
NoSave == [pc |-> "none", sent |-> NoCopy, forced |-> FALSE, todo |-> {}, all |-> FALSE, version |-> 0]

Set(f, a, e) == [f EXCEPT ![a] = e]

(* setDraft and setSnapshot with what the server, or the cache, has. *)
Loaded(e, copy) ==
  [e EXCEPT !.draft = copy, !.snapshot = copy, !.over = FALSE, !.forced = FALSE, !.conflict = 0]

Idle(a) == editor[a].open /\ editor[a].draft # NoCopy /\ put[a].pc = "none"

-----------------------------------------------------------------------------
(* The editor.                                                              *)

(* The drawer opens: the draft is built at once from whatever is cached; a  *)
(* missing or invalidated entry is fetched.                                 *)
Open(a) ==
  /\ ~editor[a].open /\ put[a].pc = "none"
  /\ editor' = Set(editor, a, Loaded([Closed EXCEPT !.open = TRUE], cache[a].copy))
  /\ get' = IF (cache[a].copy = NoCopy \/ cache[a].stale) /\ get[a].pc = "none"
            THEN Set(get, a, Fetch) ELSE get
  /\ UNCHANGED <<row, cache, put, edits, own>>

(* updateModel; the fields stay editable while a save is in flight.         *)
Edit(a) ==
  /\ editor[a].open /\ editor[a].draft # NoCopy
  /\ edits < MaxEdits
  /\ edits' = edits + 1
  /\ \/ editor' = Set(editor, a, [editor[a] EXCEPT !.draft.content = @ \cup {edits + 1}])
     \/ editor' = Set(editor, a, [editor[a] EXCEPT !.draft.extras = @ \cup {edits + 1}])
  /\ UNCHANGED <<row, cache, get, put, own>>

EditBeside(a) ==
  /\ Idle(a)
  /\ \/ editor' = Set(editor, a, [editor[a] EXCEPT !.over = TRUE])
     \/ editor' = Set(editor, a, [editor[a] EXCEPT !.design = TRUE])
  /\ UNCHANGED <<row, cache, get, put, edits, own>>

Dirty(a) == editor[a].draft # editor[a].snapshot \/ editor[a].over

(* What the draft has that the PUT does not carry.                          *)
Todo(e) ==
  {part \in {"extras", "overrides"} :
     CASE part = "extras"    -> e.draft.extras # e.snapshot.extras
       [] part = "overrides" -> e.over}

Sent(e, all) ==
  [NoSave EXCEPT !.pc = "check", !.sent = e.draft, !.forced = e.forced, !.todo = Todo(e), !.all = all]

(* saveAll: the test first, when its draft is dirty, then the design.       *)
Save(a) ==
  /\ Idle(a) /\ editor[a].conflict = 0
  /\ Dirty(a) \/ editor[a].design
  /\ put' = Set(put, a, IF Dirty(a) THEN Sent(editor[a], TRUE) ELSE [NoSave EXCEPT !.pc = "design", !.all = TRUE])
  /\ UNCHANGED <<row, cache, get, editor, edits, own>>

(* resolveConflictOverwrite: the same draft under the server's version.     *)
Overwrite(a) ==
  /\ Idle(a) /\ editor[a].conflict # 0
  /\ LET v == editor[a].conflict
         e == [editor[a] EXCEPT !.conflict = 0, !.forced = TRUE,
                                !.draft = [@ EXCEPT !.version = v], !.snapshot = [@ EXCEPT !.version = v]]
     IN  /\ editor' = Set(editor, a, e)
         /\ put' = Set(put, a, Sent(e, FALSE))
  /\ UNCHANGED <<row, cache, get, edits, own>>

(* resolveConflictReload: the draft is dropped, the effect builds it again  *)
(* from the cached copy, and the query is fetched anew.                     *)
Reload(a) ==
  /\ Idle(a) /\ editor[a].conflict # 0
  /\ editor' = Set(editor, a, Loaded(editor[a], cache[a].copy))
  /\ cache' = Set(cache, a, [cache[a] EXCEPT !.stale = TRUE])
  /\ get' = Set(get, a, Fetch)
  /\ UNCHANGED <<row, put, edits, own>>

(* dismissConflict. *)
Dismiss(a) ==
  /\ Idle(a) /\ editor[a].conflict # 0
  /\ editor' = Set(editor, a, [editor[a] EXCEPT !.conflict = 0])
  /\ UNCHANGED <<row, cache, get, put, edits, own>>

(* handleExitWithoutSave. *)
Exit(a) ==
  /\ editor[a].open /\ put[a].pc = "none" /\ editor[a].conflict = 0
  /\ editor' = Set(editor, a, Closed)
  /\ UNCHANGED <<row, cache, get, put, edits, own>>

-----------------------------------------------------------------------------
(* The query.  A fetch that is started again drops the one in flight.       *)

(* loadFullTest: getTest ...                                                *)
GetRow(a) ==
  /\ get[a].pc = "row"
  /\ get' = Set(get, a, [pc |-> "rest", version |-> row.version])
  /\ UNCHANGED <<row, cache, editor, put, edits, own>>

(* ... then the sections, the scales and the rest; the answer fills the     *)
(* cache, and the draft only when there is none.                            *)
GetRest(a) ==
  LET read == [version |-> get[a].version, content |-> row.content, extras |-> row.extras]
  IN  /\ get[a].pc = "rest"
      /\ cache' = Set(cache, a, [copy |-> read, stale |-> FALSE])
      /\ get' = Set(get, a, NoFetch)
      /\ editor' = IF editor[a].open /\ editor[a].draft = NoCopy
                   THEN Set(editor, a, Loaded(editor[a], read)) ELSE editor
      /\ UNCHANGED <<row, put, edits, own>>

GetFails(a) ==
  /\ get[a].pc # "none"
  /\ get' = Set(get, a, NoFetch)
  /\ UNCHANGED <<row, cache, editor, put, edits, own>>

-----------------------------------------------------------------------------
(* The save on the server.                                                  *)

(* SELECT version inside the transaction; a mismatch is answered 409.       *)
PutCheck(a) ==
  /\ put[a].pc = "check"
  /\ IF row.version = put[a].sent.version
     THEN put' = Set(put, a, [put[a] EXCEPT !.pc = "update"]) /\ UNCHANGED editor
     ELSE /\ put' = Set(put, a, NoSave)
          /\ editor' = Set(editor, a, [editor[a] EXCEPT !.conflict = row.version])
  /\ UNCHANGED <<row, cache, get, edits, own>>

(* Mutant: the update does not raise the version. *)
PutUpdateInPlace(a) ==
  /\ put[a].pc = "update"
  /\ row' = [row EXCEPT !.content = put[a].sent.content]
  /\ put' = Set(put, a, [put[a] EXCEPT !.pc = "row"])
  /\ UNCHANGED <<cache, get, editor, edits, own>>

(* UPDATE ... SET version = version + 1, without the version in its WHERE,  *)
(* and the sections in the same transaction.                                *)
PutUpdate(a) ==
  /\ put[a].pc = "update"
  /\ row.version < MaxVersion
  /\ row' = [row EXCEPT !.version = @ + 1, !.content = put[a].sent.content]
  /\ put' = Set(put, a, [put[a] EXCEPT !.pc = "row"])
  /\ UNCHANGED <<cache, get, editor, edits, own>>

(* The answer is loadFullTest again: the row ...                            *)
PutRow(a) ==
  /\ put[a].pc = "row"
  /\ put' = Set(put, a, [put[a] EXCEPT !.pc = "rest", !.version = row.version])
  /\ UNCHANGED <<row, cache, get, editor, edits, own>>

(* What the client takes for the test: the answer of the PUT with the       *)
(* draft's own variables, scales and measurements, or, when anything was    *)
(* written after the PUT, the test as fetchTest reads it.                   *)
Answer(a) ==
  [version |-> put[a].version, content |-> row.content,
   extras  |-> IF put[a].sent = NoCopy THEN row.extras ELSE put[a].sent.extras]

(* Mutant: the answer goes into the cache beside a fetch in flight. *)
PutRestBesideFetch(a) ==
  LET read == Answer(a)
  IN  /\ put[a].pc = "rest" /\ put[a].todo = {}
      /\ editor' = Set(editor, a, Loaded(editor[a], read))
      /\ cache' = Set(cache, a, [copy |-> read, stale |-> FALSE])
      /\ own' = Set(own, a, read.version)
      /\ put' = Set(put, a, NoSave)
      /\ UNCHANGED <<row, get, edits>>

(* The request the client goes on with.                                     *)
Left(todo) ==
  CASE "extras" \in todo    -> "extras"
    [] todo = {"overrides"} -> "override"
    [] OTHER                -> "row"

(* A request after the PUT is answered: in the end the test is read anew.   *)
Onward(p, todo) == [p EXCEPT !.pc = Left(todo), !.todo = todo, !.sent = NoCopy, !.forced = FALSE]

(* ... and the rest of it.  The client goes on to what the PUT did not      *)
(* carry; when nothing is left, onSuccess takes the answer as draft,        *)
(* snapshot and cached copy, and invalidates the query, which is on screen. *)
PutRest(a) ==
  LET read == Answer(a)
  IN  /\ put[a].pc = "rest"
      /\ IF put[a].todo # {}
         THEN /\ put' = Set(put, a, [put[a] EXCEPT !.pc = Left(put[a].todo)])
              /\ UNCHANGED <<cache, get, editor, own>>
         ELSE /\ editor' = Set(editor, a, Loaded(editor[a], read))
              /\ cache' = Set(cache, a, [copy |-> read, stale |-> TRUE])
              /\ get' = Set(get, a, Fetch)
              /\ own' = Set(own, a, read.version)
              /\ put' = IF put[a].all
                        THEN Set(put, a, [NoSave EXCEPT !.pc = IF editor[a].design THEN "design" ELSE "pages", !.all = TRUE])
                        ELSE Set(put, a, NoSave)
      /\ UNCHANGED <<row, edits>>

(* saveResultVariables, saveScales, saveMeasurements: what changed in them  *)
(* replaces what is stored, under no version, and raises none.              *)
PutExtras(a) ==
  /\ put[a].pc = "extras"
  /\ row' = [row EXCEPT !.extras = put[a].sent.extras]
  /\ put' = Set(put, a, Onward(put[a], put[a].todo \ {"extras"}))
  /\ UNCHANGED <<cache, get, editor, edits, own>>

(* saveQuestionOverrides: PUT /tests/:id/question-scoring raises the        *)
(* version, then fetchTest reads the test again.                            *)
PutOverride(a) ==
  /\ put[a].pc = "override"
  /\ row.version < MaxVersion
  /\ row' = [row EXCEPT !.version = @ + 1]
  /\ put' = Set(put, a, Onward(put[a], {}))
  /\ UNCHANGED <<cache, get, editor, edits, own>>

(* PUT /tests/:id/design: unconditional, and it raises the version too.     *)
PutDesign(a) ==
  /\ put[a].pc = "design"
  /\ row.version < MaxVersion
  /\ row' = [row EXCEPT !.version = @ + 1]
  /\ editor' = Set(editor, a, [editor[a] EXCEPT !.design = FALSE])
  /\ put' = Set(put, a, [put[a] EXCEPT !.pc = "pages"])
  /\ UNCHANGED <<cache, get, edits, own>>

(* contentPages.commit went well, or had nothing to do: saveAll invalidates *)
(* the query and the drawer closes.                                         *)
SaveEnds(a) ==
  /\ put[a].pc = "pages"
  /\ put' = Set(put, a, NoSave)
  /\ cache' = Set(cache, a, [cache[a] EXCEPT !.stale = TRUE])
  /\ get' = Set(get, a, Fetch)
  /\ editor' = Set(editor, a, Closed)
  /\ UNCHANGED <<row, edits, own>>

(* Any request of the save fails or its answer is lost: the drawer stays as *)
(* it is, and nothing that was written is undone.                           *)
SaveFails(a) ==
  /\ put[a].pc # "none"
  /\ put' = Set(put, a, NoSave)
  /\ UNCHANGED <<row, cache, get, editor, edits, own>>

-----------------------------------------------------------------------------

Init ==
  /\ row = [version |-> 1, content |-> {}, extras |-> {}]
  /\ cache = [a \in Authors |-> [copy |-> NoCopy, stale |-> FALSE]]
  /\ get = [a \in Authors |-> NoFetch]
  /\ editor = [a \in Authors |-> Closed]
  /\ put = [a \in Authors |-> NoSave]
  /\ edits = 0
  /\ own = [a \in Authors |-> 0]

Step(a) ==
  \/ Open(a) \/ Edit(a) \/ EditBeside(a) \/ Save(a)
  \/ Overwrite(a) \/ Reload(a) \/ Dismiss(a) \/ Exit(a)
  \/ GetRow(a) \/ GetRest(a) \/ GetFails(a)
  \/ PutCheck(a) \/ PutUpdate(a) \/ PutRow(a) \/ PutRest(a)
  \/ PutExtras(a) \/ PutOverride(a) \/ PutDesign(a) \/ SaveEnds(a) \/ SaveFails(a)

Next == \E a \in Authors : Step(a)

Spec == Init /\ [][Next]_vars

-----------------------------------------------------------------------------
(* Properties.                                                              *)

(* Types. *)
TypeOK ==
  /\ row \in Copy /\ row.version > 0
  /\ cache \in [Authors -> [copy : Copy, stale : BOOLEAN]]
  /\ get \in [Authors -> [pc : {"none", "row", "rest"}, version : 0 .. MaxVersion]]
  /\ editor \in [Authors -> [open : BOOLEAN, draft : Copy, snapshot : Copy, over : BOOLEAN,
                             design : BOOLEAN, conflict : 0 .. MaxVersion, forced : BOOLEAN]]
  /\ put \in [Authors -> [pc : {"none", "check", "update", "row", "rest", "extras", "override", "design", "pages"},
                          sent : Copy, forced : BOOLEAN, todo : SUBSET {"extras", "overrides"}, all : BOOLEAN,
                          version : 0 .. MaxVersion]]
  /\ edits \in 0 .. MaxEdits
  /\ own \in [Authors -> 0 .. MaxVersion]

(* expectedVersion, for what the transaction of the PUT carries: a save     *)
(* whose version is the row's when it is checked, and again when it writes, *)
(* replaces at that moment nothing its author had not seen, unless the      *)
(* author chose to; a copy torn between two saves is so always noticed.     *)
(* All it can replace unseen was stored between its check and its UPDATE.   *)
(* Of variables, scales and measurements no such thing holds.               *)
NothingLostUnseen ==
  [][\A a \in Authors :
       (PutCheck(a) \/ PutUpdate(a)) /\ put[a].sent.version = row.version /\ ~put[a].forced
         => row.content \subseteq put[a].sent.content]_vars

(* onSuccess: a cached copy that is not marked stale is never older than    *)
(* what a save of this author has come back with, whatever fetch was in     *)
(* flight meanwhile.                                                        *)
CacheKnowsOwnSaves ==
  \A a \in Authors : ~cache[a].stale => cache[a].copy.version >= own[a]

=============================================================================
