-------------------------- MODULE TestEditingProofs --------------------------
(***************************************************************************)
(* TestEditing for any authors, edits and versions: its types, that a save *)
(* under the current version loses nothing unseen of what its PUT carries, *)
(* and that a cached copy in force knows the author's own saves.           *)
(*                                                                         *)
(* The strengthening says of every copy anywhere in a browser what a copy  *)
(* under the row's present version must hold: all of the row's content.    *)
(* It says nothing of the extras, which change under no version.           *)
(***************************************************************************)
EXTENDS TestEditing, TLAPS

Pcs == {"none", "check", "update", "row", "rest", "extras", "override", "design", "pages"}

CacheType  == [copy : Copy, stale : BOOLEAN]
GetType    == [pc : {"none", "row", "rest"}, version : 0 .. MaxVersion]
EditorType == [open : BOOLEAN, draft : Copy, snapshot : Copy, over : BOOLEAN,
               design : BOOLEAN, conflict : 0 .. MaxVersion, forced : BOOLEAN]
PutType    == [pc : Pcs, sent : Copy, forced : BOOLEAN, todo : SUBSET {"extras", "overrides"}, all : BOOLEAN,
               version : 0 .. MaxVersion]

LEMMA Constants ==
  /\ NoCopy \in Copy /\ NoFetch \in GetType /\ Fetch \in GetType
  /\ Closed \in EditorType /\ NoSave \in PutType
BY TestEditingAssumption
DEF NoCopy, Copy, NoFetch, Fetch, GetType, Closed, EditorType, NoSave, PutType, Pcs

LEMMA TypeDef ==
  TypeOK <=> /\ row \in Copy /\ row.version > 0
             /\ cache \in [Authors -> CacheType]
             /\ get \in [Authors -> GetType]
             /\ editor \in [Authors -> EditorType]
             /\ put \in [Authors -> PutType]
             /\ edits \in 0 .. MaxEdits
             /\ own \in [Authors -> 0 .. MaxVersion]
BY DEF TypeOK, CacheType, GetType, EditorType, PutType, Pcs

(* A version, a content and extras are a copy. *)
LEMMA CopyShape ==
  ASSUME NEW v \in 0 .. MaxVersion, NEW c \in SUBSET (1 .. MaxEdits), NEW x \in SUBSET (1 .. MaxEdits)
  PROVE  [version |-> v, content |-> c, extras |-> x] \in Copy
BY DEF Copy

(* What is sent, and where a save goes on to. *)
LEMMA SentShape ==
  ASSUME NEW e \in EditorType, NEW all \in BOOLEAN
  PROVE  Sent(e, all) \in PutType
<1>1. Todo(e) \in SUBSET {"extras", "overrides"}
  BY DEF Todo
<1>2. e.draft \in Copy /\ e.forced \in BOOLEAN
  BY DEF EditorType
<1> QED
  BY <1>1, <1>2, Constants DEF Sent, NoSave, PutType, Pcs

LEMMA LeftShape ==
  ASSUME NEW todo
  PROVE  Left(todo) \in Pcs
BY DEF Left, Pcs

(* A loaded editor is one. *)
LEMMA LoadedShape ==
  ASSUME NEW e \in EditorType, NEW c \in Copy
  PROVE  Loaded(e, c) \in EditorType
<1> DEFINE e1 == [e EXCEPT !.draft = c, !.snapshot = c]
           e2 == [e1 EXCEPT !.over = FALSE, !.forced = FALSE]
           e3 == [e2 EXCEPT !.conflict = 0]
<1>1. e1 \in EditorType
  BY DEF EditorType
<1>2. e2 \in EditorType
  <2> HIDE DEF e1
  <2> QED
    BY <1>1 DEF EditorType
<1>3. e3 \in EditorType
  <2> HIDE DEF e2
  <2> QED
    BY <1>2, TestEditingAssumption DEF EditorType
<1>4. Loaded(e, c) = e3
  BY DEF Loaded, EditorType
<1> QED
  BY <1>3, <1>4

-----------------------------------------------------------------------------
(* Types.                                                                   *)

LEMMA TypeInit == Init => TypeOK
<1> SUFFICES ASSUME Init PROVE TypeOK
  OBVIOUS
<1>1. row \in Copy /\ row.version > 0
  BY TestEditingAssumption, CopyShape DEF Init, Copy
<1>2. cache \in [Authors -> CacheType]
  BY Constants DEF Init, CacheType
<1>3. edits \in 0 .. MaxEdits /\ own \in [Authors -> 0 .. MaxVersion]
  BY TestEditingAssumption DEF Init
<1>4. /\ get \in [Authors -> GetType] /\ editor \in [Authors -> EditorType]
      /\ put \in [Authors -> PutType]
  BY Constants DEF Init
<1> QED
  BY <1>1, <1>2, <1>3, <1>4, TypeDef

(* A step of an author changes nothing of another's.                        *)
Own(a) ==
  /\ cache' = [cache EXCEPT ![a] = cache'[a]]
  /\ get' = [get EXCEPT ![a] = get'[a]]
  /\ editor' = [editor EXCEPT ![a] = editor'[a]]
  /\ put' = [put EXCEPT ![a] = put'[a]]
  /\ own' = [own EXCEPT ![a] = own'[a]]

LEMMA OwnStep ==
  ASSUME TypeOK, NEW a \in Authors, Step(a)
  PROVE  Own(a)
<1>0. /\ cache \in [Authors -> CacheType] /\ get \in [Authors -> GetType]
      /\ editor \in [Authors -> EditorType] /\ put \in [Authors -> PutType]
      /\ own \in [Authors -> 0 .. MaxVersion]
  BY TypeDef
<1>1. \E e : cache' = Set(cache, a, e) \/ cache' = cache
  BY DEF Step, Open, Edit, EditBeside, Save, Overwrite, Reload, Dismiss, Exit, GetRow, GetRest, GetFails,
         PutCheck, PutUpdate, PutRow, PutRest, PutExtras, PutOverride, PutDesign, SaveEnds, SaveFails
<1>2. \E e : get' = Set(get, a, e) \/ get' = get
  BY DEF Step, Open, Edit, EditBeside, Save, Overwrite, Reload, Dismiss, Exit, GetRow, GetRest, GetFails,
         PutCheck, PutUpdate, PutRow, PutRest, PutExtras, PutOverride, PutDesign, SaveEnds, SaveFails
<1>3. \E e : editor' = Set(editor, a, e) \/ editor' = editor
  BY DEF Step, Open, Edit, EditBeside, Save, Overwrite, Reload, Dismiss, Exit, GetRow, GetRest, GetFails,
         PutCheck, PutUpdate, PutRow, PutRest, PutExtras, PutOverride, PutDesign, SaveEnds, SaveFails
<1>4. \E e : put' = Set(put, a, e) \/ put' = put
  BY DEF Step, Open, Edit, EditBeside, Save, Overwrite, Reload, Dismiss, Exit, GetRow, GetRest, GetFails,
         PutCheck, PutUpdate, PutRow, PutRest, PutExtras, PutOverride, PutDesign, SaveEnds, SaveFails
<1>5. \E e : own' = Set(own, a, e) \/ own' = own
  BY DEF Step, Open, Edit, EditBeside, Save, Overwrite, Reload, Dismiss, Exit, GetRow, GetRest, GetFails,
         PutCheck, PutUpdate, PutRow, PutRest, PutExtras, PutOverride, PutDesign, SaveEnds, SaveFails
<1>6. cache' = [cache EXCEPT ![a] = cache'[a]]
  BY <1>0, <1>1 DEF Set
<1>7. get' = [get EXCEPT ![a] = get'[a]]
  BY <1>0, <1>2 DEF Set
<1>8. editor' = [editor EXCEPT ![a] = editor'[a]]
  BY <1>0, <1>3 DEF Set
<1>9. put' = [put EXCEPT ![a] = put'[a]]
  BY <1>0, <1>4 DEF Set
<1>10. own' = [own EXCEPT ![a] = own'[a]]
  BY <1>0, <1>5 DEF Set
<1> QED
  BY <1>6, <1>7, <1>8, <1>9, <1>10 DEF Own

(* What a step leaves behind at its author.                                 *)
TypeAt(a) ==
  /\ row' \in Copy /\ row'.version > 0
  /\ cache'[a] \in CacheType /\ get'[a] \in GetType
  /\ editor'[a] \in EditorType /\ put'[a] \in PutType
  /\ edits' \in 0 .. MaxEdits /\ own'[a] \in 0 .. MaxVersion

(* The author's own actions. *)
LEMMA TypeAuthor ==
  ASSUME TypeOK, NEW a \in Authors,
         Open(a) \/ Edit(a) \/ EditBeside(a) \/ Save(a) \/ Overwrite(a) \/ Reload(a) \/ Dismiss(a) \/ Exit(a)
  PROVE  TypeAt(a)
<1> USE Constants, TestEditingAssumption
<1>0. /\ row \in Copy /\ row.version > 0
      /\ cache \in [Authors -> CacheType] /\ get \in [Authors -> GetType]
      /\ editor \in [Authors -> EditorType] /\ put \in [Authors -> PutType]
      /\ edits \in 0 .. MaxEdits /\ own \in [Authors -> 0 .. MaxVersion]
      /\ cache[a] \in CacheType /\ get[a] \in GetType /\ editor[a] \in EditorType
      /\ put[a] \in PutType /\ own[a] \in 0 .. MaxVersion
  BY TypeDef
<1>1. CASE Open(a)
  <2>1. [Closed EXCEPT !.open = TRUE] \in EditorType /\ cache[a].copy \in Copy
    BY <1>0 DEF EditorType, CacheType
  <2>2. Loaded([Closed EXCEPT !.open = TRUE], cache[a].copy) \in EditorType
    BY <2>1, LoadedShape
  <2> QED
    BY <1>0, <1>1, <2>2 DEF Open, Set, TypeAt
<1>2. CASE Edit(a)
  <2>1. edits + 1 \in 1 .. MaxEdits /\ edits' \in 0 .. MaxEdits
    BY <1>0, <1>2 DEF Edit
  <2>2. /\ editor[a].draft.content \cup {edits + 1} \in SUBSET (1 .. MaxEdits)
        /\ editor[a].draft.extras \cup {edits + 1} \in SUBSET (1 .. MaxEdits)
    BY <1>0, <2>1 DEF EditorType, Copy
  <2>3. [editor[a] EXCEPT !.draft.content = @ \cup {edits + 1}] \in EditorType
    BY <1>0, <2>2 DEF EditorType, Copy
  <2>4. [editor[a] EXCEPT !.draft.extras = @ \cup {edits + 1}] \in EditorType
    BY <1>0, <2>2 DEF EditorType, Copy
  <2>5. editor'[a] \in EditorType
    BY <1>0, <1>2, <2>3, <2>4 DEF Edit, Set
  <2> QED
    BY <1>0, <1>2, <2>1, <2>5 DEF Edit, TypeAt
<1>3. CASE EditBeside(a)
  <2>1. [editor[a] EXCEPT !.over = TRUE] \in EditorType /\ [editor[a] EXCEPT !.design = TRUE] \in EditorType
    BY <1>0 DEF EditorType
  <2>2. editor'[a] \in EditorType
    BY <1>0, <1>3, <2>1 DEF EditBeside, Set
  <2> QED
    BY <1>0, <1>3, <2>2 DEF EditBeside, TypeAt
<1>4. CASE Save(a)
  <2>1. Sent(editor[a], TRUE) \in PutType /\ [NoSave EXCEPT !.pc = "design", !.all = TRUE] \in PutType
    BY <1>0, SentShape DEF PutType, Pcs
  <2> QED
    BY <1>0, <1>4, <2>1 DEF Save, Set, TypeAt
<1>5. CASE Overwrite(a)
  <2> DEFINE v == editor[a].conflict
             e == [editor[a] EXCEPT !.conflict = 0, !.forced = TRUE,
                                    !.draft = [@ EXCEPT !.version = v], !.snapshot = [@ EXCEPT !.version = v]]
  <2>1. e \in EditorType
    <3> DEFINE d == [editor[a].draft EXCEPT !.version = v]
               t == [editor[a].snapshot EXCEPT !.version = v]
               e1 == [editor[a] EXCEPT !.draft = d, !.snapshot = t]
               e2 == [e1 EXCEPT !.conflict = 0]
               e3 == [e2 EXCEPT !.forced = TRUE]
    <3>1. d \in Copy /\ t \in Copy
      BY <1>0 DEF EditorType, Copy
    <3>2. e1 \in EditorType
      <4> HIDE DEF d, t
      <4> QED
        BY <1>0, <3>1 DEF EditorType
    <3>3. e2 \in EditorType
      <4> HIDE DEF e1
      <4> QED
        BY <3>2 DEF EditorType
    <3>4. e3 \in EditorType
      <4> HIDE DEF e2
      <4> QED
        BY <3>3 DEF EditorType
    <3>5. e = e3
      BY <1>0 DEF EditorType
    <3> QED
      BY <3>4, <3>5
  <2>2. Sent(e, FALSE) \in PutType
    <3> HIDE DEF e
    <3> QED
      BY <2>1, SentShape
  <2> QED
    BY <1>0, <1>5, <2>1, <2>2 DEF Overwrite, Set, TypeAt
<1>6. CASE Reload(a)
  <2>1. cache[a].copy \in Copy
    BY <1>0 DEF CacheType
  <2>2. Loaded(editor[a], cache[a].copy) \in EditorType
    BY <1>0, <2>1, LoadedShape
  <2>3. [cache[a] EXCEPT !.stale = TRUE] \in CacheType
    BY <1>0 DEF CacheType
  <2> QED
    BY <1>0, <1>6, <2>2, <2>3 DEF Reload, Set, TypeAt
<1>7. CASE Dismiss(a)
  BY <1>0, <1>7 DEF Dismiss, Set, TypeAt, EditorType
<1>8. CASE Exit(a)
  BY <1>0, <1>8 DEF Exit, Set, TypeAt
<1> QED
  BY <1>1, <1>2, <1>3, <1>4, <1>5, <1>6, <1>7, <1>8

(* A save after a request that followed its PUT. *)
LEMMA OnwardShape ==
  ASSUME NEW p \in PutType, NEW todo \in SUBSET {"extras", "overrides"}
  PROVE  /\ Onward(p, todo) \in PutType
         /\ Onward(p, todo).sent.version = 0 /\ Onward(p, todo).version = p.version
<1> DEFINE p1 == [p EXCEPT !.pc = Left(todo), !.todo = todo]
           p2 == [p1 EXCEPT !.sent = NoCopy, !.forced = FALSE]
<1>1. p1 \in PutType /\ p1.version = p.version
  BY LeftShape DEF PutType
<1>2. p2 \in PutType /\ p2.version = p1.version /\ p2.sent = NoCopy
  <2> HIDE DEF p1
  <2> QED
    BY <1>1, Constants DEF PutType
<1>3. Onward(p, todo) = p2
  BY DEF Onward, PutType
<1> HIDE DEF p1, p2
<1> QED
  BY <1>1, <1>2, <1>3 DEF NoCopy

(* The requests in flight. *)
LEMMA TypeRequest ==
  ASSUME TypeOK, NEW a \in Authors,
         \/ GetRow(a) \/ GetRest(a) \/ GetFails(a) \/ PutCheck(a) \/ PutUpdate(a) \/ PutRow(a)
         \/ PutRest(a) \/ PutExtras(a) \/ PutOverride(a) \/ PutDesign(a) \/ SaveEnds(a) \/ SaveFails(a)
  PROVE  TypeAt(a)
<1> USE Constants, TestEditingAssumption
<1>0. /\ row \in Copy /\ row.version > 0
      /\ cache \in [Authors -> CacheType] /\ get \in [Authors -> GetType]
      /\ editor \in [Authors -> EditorType] /\ put \in [Authors -> PutType]
      /\ edits \in 0 .. MaxEdits /\ own \in [Authors -> 0 .. MaxVersion]
      /\ cache[a] \in CacheType /\ get[a] \in GetType /\ editor[a] \in EditorType
      /\ put[a] \in PutType /\ own[a] \in 0 .. MaxVersion
  BY TypeDef
<1>1. CASE GetRow(a)
  BY <1>0, <1>1 DEF GetRow, Set, TypeAt, GetType, Copy
<1>2. CASE GetRest(a)
  <2> DEFINE read == [version |-> get[a].version, content |-> row.content, extras |-> row.extras]
  <2>1. read \in Copy
    BY <1>0 DEF GetType, Copy
  <2>2. [copy |-> read, stale |-> FALSE] \in CacheType
    BY <2>1 DEF CacheType
  <2>3. Loaded(editor[a], read) \in EditorType
    BY <1>0, <2>1, LoadedShape
  <2> HIDE DEF read
  <2> QED
    BY <1>0, <1>2, <2>2, <2>3 DEF GetRest, Set, TypeAt, read
<1>3. CASE GetFails(a)
  BY <1>0, <1>3 DEF GetFails, Set, TypeAt
<1>4. CASE PutCheck(a)
  <2>1. [put[a] EXCEPT !.pc = "update"] \in PutType
    BY <1>0 DEF PutType, Pcs
  <2>2. [editor[a] EXCEPT !.conflict = row.version] \in EditorType
    BY <1>0 DEF EditorType, Copy
  <2> QED
    BY <1>0, <1>4, <2>1, <2>2 DEF PutCheck, Set, TypeAt
<1>5. CASE PutUpdate(a)
  <2>1. row' \in Copy /\ row'.version > 0
    <3> DEFINE v == row.version + 1
               c == put[a].sent.content
    <3>1. v \in 0 .. MaxVersion /\ v > 0 /\ c \in SUBSET (1 .. MaxEdits)
      BY <1>0, <1>5 DEF PutUpdate, PutType, Copy
    <3>2. row' = [row EXCEPT !.version = v, !.content = c]
      BY <1>5 DEF PutUpdate
    <3> HIDE DEF v, c
    <3> QED
      BY <1>0, <3>1, <3>2 DEF Copy
  <2>2. [put[a] EXCEPT !.pc = "row"] \in PutType
    BY <1>0 DEF PutType, Pcs
  <2> QED
    BY <1>0, <1>5, <2>1, <2>2 DEF PutUpdate, Set, TypeAt
<1>6. CASE PutRow(a)
  BY <1>0, <1>6 DEF PutRow, Set, TypeAt, PutType, Pcs, Copy
<1>7. CASE PutRest(a)
  <2> DEFINE read == Answer(a)
  <2>1. read \in Copy /\ read.version \in 0 .. MaxVersion
    BY <1>0 DEF Answer, PutType, Copy
  <2>2. [copy |-> read, stale |-> TRUE] \in CacheType
    BY <2>1 DEF CacheType
  <2>3. Loaded(editor[a], read) \in EditorType
    BY <1>0, <2>1, LoadedShape
  <2>4. put'[a] \in PutType
    <3>1. [put[a] EXCEPT !.pc = Left(put[a].todo)] \in PutType
      BY <1>0, LeftShape DEF PutType
    <3>2. /\ [NoSave EXCEPT !.pc = "design", !.all = TRUE] \in PutType
          /\ [NoSave EXCEPT !.pc = "pages", !.all = TRUE] \in PutType
      BY DEF PutType, Pcs
    <3>3. put'[a] \in {[put[a] EXCEPT !.pc = Left(put[a].todo)], NoSave,
                      [NoSave EXCEPT !.pc = "design", !.all = TRUE],
                      [NoSave EXCEPT !.pc = "pages", !.all = TRUE]}
      BY <1>0, <1>7 DEF PutRest, Set
    <3> QED
      BY <3>1, <3>2, <3>3
  <2>5. CASE put[a].todo # {}
    BY <1>0, <1>7, <2>4, <2>5 DEF PutRest, TypeAt
  <2>6. CASE put[a].todo = {}
    <3>1. /\ editor'[a] = Loaded(editor[a], read)
          /\ cache'[a] = [copy |-> read, stale |-> TRUE] /\ get'[a] = Fetch /\ own'[a] = read.version
          /\ UNCHANGED <<row, edits>>
      BY <1>0, <1>7, <2>6 DEF PutRest, Set
    <3> HIDE DEF read
    <3> QED
      BY <1>0, <2>1, <2>2, <2>3, <2>4, <3>1 DEF TypeAt
  <2> QED
    BY <2>5, <2>6
<1>8. CASE PutOverride(a)
  <2>1. row' \in Copy /\ row'.version > 0
    BY <1>0, <1>8 DEF PutOverride, Copy
  <2>2. Onward(put[a], {}) \in PutType
    BY <1>0, OnwardShape
  <2> QED
    BY <1>0, <1>8, <2>1, <2>2 DEF PutOverride, Set, TypeAt
<1>9. CASE PutDesign(a)
  <2>1. row' \in Copy /\ row'.version > 0
    BY <1>0, <1>9 DEF PutDesign, Copy
  <2>2. [put[a] EXCEPT !.pc = "pages"] \in PutType /\ [editor[a] EXCEPT !.design = FALSE] \in EditorType
    BY <1>0 DEF PutType, Pcs, EditorType
  <2> QED
    BY <1>0, <1>9, <2>1, <2>2 DEF PutDesign, Set, TypeAt
<1>10. CASE SaveEnds(a)
  BY <1>0, <1>10 DEF SaveEnds, Set, TypeAt, CacheType
<1>11. CASE SaveFails(a)
  BY <1>0, <1>11 DEF SaveFails, Set, TypeAt
<1>12. CASE PutExtras(a)
  <2> DEFINE left == put[a].todo \ {"extras"}
  <2>1. row' \in Copy /\ row'.version > 0
    BY <1>0, <1>12 DEF PutExtras, PutType, Copy
  <2>2. left \in SUBSET {"extras", "overrides"}
    BY <1>0 DEF PutType
  <2>3. put'[a] = Onward(put[a], left)
    BY <1>0, <1>12 DEF PutExtras, Set
  <2> HIDE DEF left
  <2>4. put'[a] \in PutType
    BY <1>0, <2>2, <2>3, OnwardShape
  <2> QED
    BY <1>0, <1>12, <2>1, <2>4 DEF PutExtras, TypeAt
<1> QED
  BY <1>1, <1>2, <1>3, <1>4, <1>5, <1>6, <1>7, <1>8, <1>9, <1>10, <1>11, <1>12

LEMMA TypeNext == TypeOK /\ [Next]_vars => TypeOK'
<1> SUFFICES ASSUME TypeOK, [Next]_vars PROVE TypeOK'
  OBVIOUS
<1>1. CASE UNCHANGED vars
  BY <1>1 DEF vars, TypeOK
<1>2. ASSUME NEW a \in Authors, Step(a) PROVE TypeOK'
  <2>1. TypeAt(a) /\ Own(a)
    BY <1>2, OwnStep, TypeAuthor, TypeRequest DEF Step
  <2>2. /\ cache' \in [Authors -> CacheType] /\ get' \in [Authors -> GetType]
        /\ editor' \in [Authors -> EditorType] /\ put' \in [Authors -> PutType]
        /\ own' \in [Authors -> 0 .. MaxVersion]
    BY <2>1, TypeDef DEF TypeAt, Own
  <2> QED
    BY <2>1, <2>2 DEF TypeAt, TypeOK, CacheType, GetType, EditorType, PutType, Pcs
<1> QED
  BY <1>1, <1>2 DEF Next

-----------------------------------------------------------------------------
(* What a copy in a browser must hold.                                      *)

(* No copy is newer than the row, and one of the same version lacks nothing. *)
Known(c) == c.version <= row.version /\ (c.version = row.version => row.content \subseteq c.content)

Holds(a) ==
  /\ Known(cache[a].copy)
  /\ ~editor[a].forced => Known(editor[a].draft)
  /\ ~put[a].forced => Known(put[a].sent)
  /\ get[a].version <= row.version
  /\ put[a].version <= row.version
  /\ own[a] <= row.version
  /\ ~cache[a].stale => own[a] <= cache[a].copy.version
  /\ get[a].pc = "rest" => own[a] <= get[a].version

Inv == TypeOK /\ \A a \in Authors : Holds(a)

LEMMA HoldsInit == Init => Inv
<1> SUFFICES ASSUME Init PROVE Inv
  OBVIOUS
<1>1. ASSUME NEW a \in Authors PROVE Holds(a)
  BY TestEditingAssumption
  DEF Init, Holds, Known, NoCopy, NoFetch, Closed, NoSave
<1> QED
  BY <1>1, TypeInit DEF Inv

(* The pieces of state at an author, typed. *)
LEMMA Shape ==
  ASSUME TypeOK, NEW a \in Authors
  PROVE  /\ row.version \in Nat /\ row.version > 0
         /\ cache[a].copy \in Copy /\ cache[a].copy.version \in Nat /\ cache[a] \in CacheType
         /\ editor[a].draft \in Copy /\ editor[a].draft.version \in Nat /\ editor[a] \in EditorType
         /\ put[a].sent.version \in Nat /\ put[a].version \in Nat /\ put[a] \in PutType
         /\ get[a].version \in Nat /\ own[a] \in Nat
<1>1. /\ row \in Copy /\ row.version > 0
      /\ cache[a] \in CacheType /\ get[a] \in GetType /\ editor[a] \in EditorType
      /\ put[a] \in PutType /\ own[a] \in 0 .. MaxVersion
  BY TypeDef
<1> QED
  BY <1>1, TestEditingAssumption DEF Copy, CacheType, GetType, EditorType, PutType

(* What a step of one author does to another's copies: what is stored under *)
(* the version has either stayed as it was, whatever became of the extras,  *)
(* or moved on to a version none of them has.                               *)
SameOrNext ==
  \/ row'.version = row.version /\ row'.content = row.content
  \/ row'.version = row.version + 1

LEMMA OthersHold ==
  ASSUME Inv, NEW a \in Authors, Own(a), NEW b \in Authors, b # a,
         SameOrNext
  PROVE  Holds(b)'
<1>1. /\ cache'[b] = cache[b] /\ get'[b] = get[b] /\ editor'[b] = editor[b]
      /\ put'[b] = put[b] /\ own'[b] = own[b]
  BY TypeDef DEF Own, Inv
<1>2. Holds(b)
  BY DEF Inv
<1>3. CASE row'.version = row.version /\ row'.content = row.content
  BY <1>1, <1>2, <1>3 DEF Holds, Known
<1>4. CASE row'.version = row.version + 1
  BY <1>1, <1>2, <1>4, Shape DEF Holds, Known, Inv
<1> QED
  BY <1>3, <1>4 DEF SameOrNext

LEMMA HoldsAuthor ==
  ASSUME Inv, NEW a \in Authors,
         Open(a) \/ Edit(a) \/ EditBeside(a) \/ Save(a) \/ Overwrite(a) \/ Reload(a) \/ Dismiss(a) \/ Exit(a)
  PROVE  row' = row /\ Holds(a)'
<1> USE Constants
<1>0. /\ cache \in [Authors -> CacheType] /\ get \in [Authors -> GetType]
      /\ editor \in [Authors -> EditorType] /\ put \in [Authors -> PutType]
      /\ Holds(a)
  BY TypeDef DEF Inv
<1>a. TypeOK
  BY DEF Inv
<1>b. Known(NoCopy)
  BY <1>a, Shape DEF Known, NoCopy
<1>1. CASE Open(a)
  <2>1. row' = row /\ cache' = cache /\ put' = put /\ own' = own
    BY <1>1 DEF Open
  <2>2. editor'[a] = Loaded([Closed EXCEPT !.open = TRUE], cache[a].copy) /\ get'[a] \in {get[a], Fetch}
    BY <1>0, <1>1 DEF Open, Set
  <2>3. editor'[a].draft = cache[a].copy
    BY <2>2 DEF Loaded, Closed
  <2>4. Fetch.version = 0 /\ Fetch.pc # "rest"
    BY DEF Fetch
  <2>5. get'[a].version <= row.version /\ (get'[a].pc = "rest" => own[a] <= get'[a].version)
    BY <1>0, <1>a, Shape, <2>2, <2>4 DEF Holds
  <2>6. Known(editor'[a].draft)
    BY <1>0, <2>3 DEF Holds
  <2> QED
    BY <1>0, <2>1, <2>5, <2>6 DEF Holds, Known
<1>2. CASE Edit(a)
  <2>1. /\ row' = row /\ cache' = cache /\ put' = put /\ own' = own /\ get' = get
        /\ editor'[a].forced = editor[a].forced
        /\ editor'[a].draft.version = editor[a].draft.version
        /\ editor[a].draft.content \subseteq editor'[a].draft.content
    BY <1>0, <1>2, <1>a, Shape DEF Edit, Set, EditorType, Copy
  <2> QED
    BY <1>0, <2>1 DEF Holds, Known
<1>3. CASE EditBeside(a)
  <2>1. /\ row' = row /\ cache' = cache /\ put' = put /\ own' = own /\ get' = get
        /\ editor'[a].forced = editor[a].forced /\ editor'[a].draft = editor[a].draft
    BY <1>0, <1>3, <1>a, Shape DEF EditBeside, Set, EditorType
  <2> QED
    BY <1>0, <2>1 DEF Holds, Known
<1>4. CASE Save(a)
  <2>1. /\ row' = row /\ cache' = cache /\ editor' = editor /\ own' = own /\ get' = get
        /\ put'[a] \in {Sent(editor[a], TRUE), [NoSave EXCEPT !.pc = "design", !.all = TRUE]}
    BY <1>0, <1>4 DEF Save, Set
  <2>2. CASE put'[a] = Sent(editor[a], TRUE)
    <3>1. put'[a].sent = editor[a].draft /\ put'[a].forced = editor[a].forced /\ put'[a].version = 0
      BY <2>2 DEF Sent, NoSave
    <3> QED
      BY <1>0, <1>a, Shape, <2>1, <3>1 DEF Holds, Known
  <2>3. CASE put'[a] = [NoSave EXCEPT !.pc = "design", !.all = TRUE]
    <3>1. put'[a].sent = NoCopy /\ put'[a].version = 0
      BY <2>3 DEF NoSave
    <3> QED
      BY <1>0, <1>a, <1>b, Shape, <2>1, <3>1 DEF Holds, Known
  <2> QED
    BY <2>1, <2>2, <2>3
<1>5. CASE Overwrite(a)
  <2> DEFINE v == editor[a].conflict
             e == [editor[a] EXCEPT !.conflict = 0, !.forced = TRUE,
                                    !.draft = [@ EXCEPT !.version = v], !.snapshot = [@ EXCEPT !.version = v]]
             p == Sent(e, FALSE)
  <2>2. e.forced = TRUE
    BY <1>a, Shape DEF EditorType
  <2>3. p.forced = TRUE /\ p.version = 0
    <3> HIDE DEF e
    <3> QED
      BY <2>2 DEF Sent, NoSave
  <2>4. /\ row' = row /\ cache' = cache /\ own' = own /\ get' = get
        /\ editor'[a] = e /\ put'[a] = p
    BY <1>0, <1>5 DEF Overwrite, Set
  <2>1. /\ row' = row /\ cache' = cache /\ own' = own /\ get' = get
        /\ editor'[a].forced = TRUE /\ put'[a].forced = TRUE /\ put'[a].version = 0
    BY <2>2, <2>3, <2>4
  <2> QED
    BY <1>0, <1>a, Shape, <2>1 DEF Holds, Known
<1>6. CASE Reload(a)
  <2>1. /\ row' = row /\ own' = own /\ put' = put /\ get'[a] = Fetch
        /\ cache'[a].copy = cache[a].copy /\ cache'[a].stale = TRUE
        /\ editor'[a] = Loaded(editor[a], cache[a].copy)
    BY <1>0, <1>6, <1>a, Shape DEF Reload, Set, CacheType
  <2>2. editor'[a].draft = cache[a].copy
    BY <2>1, <1>a, Shape DEF Loaded, EditorType
  <2> QED
    BY <1>0, <1>a, Shape, <2>1, <2>2 DEF Holds, Known, Fetch
<1>7. CASE Dismiss(a)
  <2>1. /\ row' = row /\ cache' = cache /\ put' = put /\ own' = own /\ get' = get
        /\ editor'[a].forced = editor[a].forced /\ editor'[a].draft = editor[a].draft
    BY <1>0, <1>7, <1>a, Shape DEF Dismiss, Set, EditorType
  <2> QED
    BY <1>0, <2>1 DEF Holds, Known
<1>8. CASE Exit(a)
  <2>1. /\ row' = row /\ cache' = cache /\ put' = put /\ own' = own /\ get' = get
        /\ editor'[a].draft = NoCopy
    BY <1>0, <1>8 DEF Exit, Set, Closed
  <2> QED
    BY <1>0, <1>b, <2>1 DEF Holds, Known
<1> QED
  BY <1>1, <1>2, <1>3, <1>4, <1>5, <1>6, <1>7, <1>8

(* A copy just read is known, and the row moving on leaves no copy behind. *)
LEMMA Fresh ==
  ASSUME NEW v, v <= row.version, NEW x
  PROVE  Known([version |-> v, content |-> row.content, extras |-> x])
BY DEF Known

LEMMA HoldsRequest ==
  ASSUME Inv, NEW a \in Authors,
         \/ GetRow(a) \/ GetRest(a) \/ GetFails(a) \/ PutCheck(a) \/ PutUpdate(a) \/ PutRow(a)
         \/ PutRest(a) \/ PutExtras(a) \/ PutOverride(a) \/ PutDesign(a) \/ SaveEnds(a) \/ SaveFails(a)
  PROVE  SameOrNext /\ Holds(a)'
<1> USE Constants DEF SameOrNext
<1>0. /\ cache \in [Authors -> CacheType] /\ get \in [Authors -> GetType]
      /\ editor \in [Authors -> EditorType] /\ put \in [Authors -> PutType]
      /\ own \in [Authors -> 0 .. MaxVersion]
      /\ Holds(a)
  BY TypeDef DEF Inv
<1>a. TypeOK
  BY DEF Inv
<1>b. Known(NoCopy)
  BY <1>a, Shape DEF Known, NoCopy
<1>1. CASE GetRow(a)
  <2>1. /\ row' = row /\ cache' = cache /\ editor' = editor /\ put' = put /\ own' = own
        /\ get'[a].version = row.version
    BY <1>0, <1>1 DEF GetRow, Set
  <2> QED
    BY <1>0, <1>a, Shape, <2>1 DEF Holds, Known
<1>2. CASE GetRest(a)
  <2> DEFINE read == [version |-> get[a].version, content |-> row.content, extras |-> row.extras]
  <2>1. /\ row' = row /\ put' = put /\ own' = own /\ get'[a] = NoFetch
        /\ cache'[a] = [copy |-> read, stale |-> FALSE]
        /\ editor'[a] \in {editor[a], Loaded(editor[a], read)}
    BY <1>0, <1>2 DEF GetRest, Set
  <2>2. Known(read) /\ own[a] <= read.version
    BY <1>0, <1>2, Fresh DEF Holds, GetRest
  <2>3. Known(cache'[a].copy) /\ own[a] <= cache'[a].copy.version
    BY <2>1, <2>2
  <2>4. CASE editor'[a] = editor[a]
    BY <1>0, <1>a, Shape, <2>1, <2>3, <2>4 DEF Holds, Known, NoFetch
  <2>5. CASE editor'[a] = Loaded(editor[a], read)
    <3>1. editor'[a].draft = read
      BY <2>5, <1>a, Shape DEF Loaded, EditorType
    <3> HIDE DEF read
    <3> QED
      BY <1>0, <1>a, Shape, <2>1, <2>2, <2>3, <3>1 DEF Holds, Known, NoFetch
  <2> QED
    BY <2>1, <2>4, <2>5
<1>3. CASE GetFails(a)
  <2>1. /\ row' = row /\ cache' = cache /\ editor' = editor /\ put' = put /\ own' = own
        /\ get'[a] = NoFetch
    BY <1>0, <1>3 DEF GetFails, Set
  <2> QED
    BY <1>0, <1>a, Shape, <2>1 DEF Holds, Known, NoFetch
<1>4. CASE PutCheck(a)
  <2>1. /\ row' = row /\ cache' = cache /\ get' = get /\ own' = own
        /\ editor'[a].draft = editor[a].draft /\ editor'[a].forced = editor[a].forced
    BY <1>0, <1>4, <1>a, Shape DEF PutCheck, Set, EditorType
  <2>2. \/ put'[a] = NoSave
        \/ put'[a] = [put[a] EXCEPT !.pc = "update"]
    BY <1>0, <1>4 DEF PutCheck, Set
  <2>3. CASE put'[a] = NoSave
    <3>1. put'[a].sent = NoCopy /\ put'[a].version = 0
      BY <2>3 DEF NoSave
    <3> QED
      BY <1>0, <1>a, <1>b, Shape, <2>1, <3>1 DEF Holds, Known
  <2>4. CASE put'[a] = [put[a] EXCEPT !.pc = "update"]
    <3>1. put'[a].sent = put[a].sent /\ put'[a].forced = put[a].forced /\ put'[a].version = put[a].version
      BY <2>4, <1>a, Shape DEF PutType
    <3> QED
      BY <1>0, <2>1, <3>1 DEF Holds, Known
  <2> QED
    BY <2>1, <2>2, <2>3, <2>4
<1>5. CASE PutUpdate(a)
  <2>1. /\ row'.version = row.version + 1 /\ cache' = cache /\ get' = get /\ own' = own /\ editor' = editor
        /\ put'[a] = [put[a] EXCEPT !.pc = "row"]
    BY <1>0, <1>5, <1>a, TypeDef DEF PutUpdate, Set, Copy
  <2>2. /\ put'[a].sent = put[a].sent /\ put'[a].forced = put[a].forced
        /\ put'[a].version = put[a].version
    BY <2>1, <1>a, Shape DEF PutType
  <2> QED
    BY <1>0, <1>a, Shape, <2>1, <2>2 DEF Holds, Known
<1>6. CASE PutRow(a)
  <2>1. /\ row' = row /\ cache' = cache /\ editor' = editor /\ get' = get /\ own' = own
        /\ put'[a].version = row.version /\ put'[a].sent = put[a].sent /\ put'[a].forced = put[a].forced
    BY <1>0, <1>6, <1>a, Shape DEF PutRow, Set, PutType
  <2> QED
    BY <1>0, <1>a, Shape, <2>1 DEF Holds, Known
<1>7. CASE PutRest(a)
  <2> DEFINE read == Answer(a)
  <2>a. \/ put'[a].sent = NoCopy /\ put'[a].version = 0
        \/ put'[a].sent = put[a].sent /\ put'[a].forced = put[a].forced /\ put'[a].version = put[a].version
    <3>1. put'[a] \in {[put[a] EXCEPT !.pc = Left(put[a].todo)], NoSave,
                      [NoSave EXCEPT !.pc = "design", !.all = TRUE],
                      [NoSave EXCEPT !.pc = "pages", !.all = TRUE]}
      BY <1>0, <1>7 DEF PutRest, Set
    <3>2. put[a] \in PutType
      BY <1>a, Shape
    <3>3. CASE put'[a] = [put[a] EXCEPT !.pc = Left(put[a].todo)]
      BY <3>2, <3>3 DEF PutType
    <3>4. CASE put'[a] # [put[a] EXCEPT !.pc = Left(put[a].todo)]
      <4>1. \/ put'[a] = NoSave
            \/ put'[a] = [NoSave EXCEPT !.pc = "design", !.all = TRUE]
            \/ put'[a] = [NoSave EXCEPT !.pc = "pages", !.all = TRUE]
        BY <3>1, <3>4
      <4>2. put'[a].sent = NoSave.sent /\ put'[a].version = NoSave.version
        BY <4>1, Constants DEF PutType
      <4> QED
        BY <4>2 DEF NoSave
    <3> QED
      BY <3>3, <3>4
  <2>b. /\ ~put'[a].forced => put'[a].sent = NoCopy \/ (put'[a].sent = put[a].sent /\ ~put[a].forced)
        /\ put'[a].version \in {0, put[a].version}
    BY <2>a
  <2>1. CASE put[a].todo # {}
    <3>1. row' = row /\ cache' = cache /\ editor' = editor /\ get' = get /\ own' = own
      BY <1>7, <2>1 DEF PutRest
    <3> QED
      BY <1>0, <1>a, <1>b, Shape, <2>b, <3>1 DEF Holds, Known
  <2>2. CASE put[a].todo = {}
    <3>1. /\ row' = row /\ get'[a] = Fetch /\ own'[a] = read.version
          /\ cache'[a] = [copy |-> read, stale |-> TRUE]
          /\ editor'[a] = Loaded(editor[a], read)
      BY <1>0, <1>7, <2>2 DEF PutRest, Set
    <3>2. Known(read) /\ read.version <= row.version
      BY <1>0, Fresh DEF Holds, Answer
    <3>3. editor'[a].draft = read
      BY <3>1, <1>a, Shape DEF Loaded, EditorType
    <3>4. cache'[a].copy = read /\ cache'[a].stale
      BY <3>1
    <3> HIDE DEF read
    <3> QED
      BY <1>0, <1>a, <1>b, Shape, <2>b, <3>1, <3>2, <3>3, <3>4 DEF Holds, Known, Fetch
  <2> QED
    BY <2>1, <2>2
<1>8. CASE PutOverride(a)
  <2>1. /\ row'.version = row.version + 1 /\ cache' = cache /\ get' = get /\ own' = own /\ editor' = editor
        /\ put'[a] = Onward(put[a], {})
    BY <1>0, <1>8, <1>a, TypeDef DEF PutOverride, Set, Copy
  <2>2. put'[a].sent.version = 0 /\ put'[a].version = put[a].version
    <3>1. put[a] \in PutType
      BY <1>a, Shape
    <3>2. Onward(put[a], {}).sent.version = 0 /\ Onward(put[a], {}).version = put[a].version
      BY <3>1, OnwardShape
    <3> QED
      BY <2>1, <3>2
  <2> QED
    BY <1>0, <1>a, Shape, <2>1, <2>2 DEF Holds, Known
<1>9. CASE PutDesign(a)
  <2>1. /\ row'.version = row.version + 1 /\ cache' = cache /\ get' = get /\ own' = own
        /\ put'[a].sent = put[a].sent /\ put'[a].version = put[a].version
        /\ editor'[a].draft = editor[a].draft
    BY <1>0, <1>9, <1>a, Shape, TypeDef DEF PutDesign, Set, PutType, EditorType, Copy
  <2>2. put'[a].forced = put[a].forced /\ editor'[a].forced = editor[a].forced
    BY <1>0, <1>9, <1>a, Shape DEF PutDesign, Set, PutType, EditorType
  <2> QED
    BY <1>0, <1>a, Shape, <2>1, <2>2 DEF Holds, Known
<1>10. CASE SaveEnds(a)
  <2>1. /\ row' = row /\ own' = own /\ get'[a] = Fetch /\ put'[a] = NoSave /\ editor'[a] = Closed
        /\ cache'[a].copy = cache[a].copy /\ cache'[a].stale = TRUE
    BY <1>0, <1>10, <1>a, Shape DEF SaveEnds, Set, CacheType
  <2>2. put'[a].sent = NoCopy /\ put'[a].version = 0 /\ editor'[a].draft = NoCopy
    BY <2>1 DEF NoSave, Closed
  <2> QED
    BY <1>0, <1>a, <1>b, Shape, <2>1, <2>2 DEF Holds, Known, Fetch
<1>11. CASE SaveFails(a)
  <2>1. /\ row' = row /\ cache' = cache /\ editor' = editor /\ get' = get /\ own' = own /\ put'[a] = NoSave
    BY <1>0, <1>11 DEF SaveFails, Set
  <2>2. put'[a].sent = NoCopy /\ put'[a].version = 0
    BY <2>1 DEF NoSave
  <2> QED
    BY <1>0, <1>a, <1>b, Shape, <2>1, <2>2 DEF Holds, Known
<1>12. CASE PutExtras(a)
  <2> DEFINE left == put[a].todo \ {"extras"}
  <2>1. /\ row'.version = row.version /\ row'.content = row.content
        /\ cache' = cache /\ get' = get /\ own' = own /\ editor' = editor
    BY <1>12, <1>a, TypeDef DEF PutExtras, Copy
  <2>2. put'[a] = Onward(put[a], left)
    BY <1>0, <1>12 DEF PutExtras, Set
  <2>3. left \in SUBSET {"extras", "overrides"}
    BY <1>a, Shape DEF PutType
  <2> HIDE DEF left
  <2>4. put'[a].sent.version = 0 /\ put'[a].version = put[a].version
    <3>1. put[a] \in PutType
      BY <1>a, Shape
    <3>2. Onward(put[a], left).sent.version = 0 /\ Onward(put[a], left).version = put[a].version
      BY <2>3, <3>1, OnwardShape
    <3> QED
      BY <2>2, <3>2
  <2> QED
    BY <1>0, <1>a, Shape, <2>1, <2>4 DEF Holds, Known
<1> QED
  BY <1>1, <1>2, <1>3, <1>4, <1>5, <1>6, <1>7, <1>8, <1>9, <1>10, <1>11, <1>12

LEMMA HoldsNext == Inv /\ [Next]_vars => Inv'
<1> SUFFICES ASSUME Inv, [Next]_vars PROVE Inv'
  OBVIOUS
<1>1. TypeOK'
  BY TypeNext DEF Inv
<1>2. CASE UNCHANGED vars
  BY <1>1, <1>2 DEF vars, Inv, Holds, Known
<1>3. ASSUME NEW a \in Authors, Step(a) PROVE \A b \in Authors : Holds(b)'
  <2>1. Own(a)
    BY <1>3, OwnStep DEF Inv
  <2>2. SameOrNext /\ Holds(a)'
    BY <1>3, HoldsAuthor, HoldsRequest DEF Step, SameOrNext
  <2> QED
    BY <2>1, <2>2, OthersHold
<1> QED
  BY <1>1, <1>2, <1>3 DEF Next, Inv

LEMMA InvHolds == Spec => []Inv
BY HoldsInit, HoldsNext, PTL DEF Spec

-----------------------------------------------------------------------------
(* The theorems.                                                            *)

(* TypeOK: the types, whatever the authors and the bounds. *)
THEOREM TypeCorrect == Spec => []TypeOK
BY TypeInit, TypeNext, PTL DEF Spec

(* NothingLostUnseen: of what the transaction of the PUT carries, whatever  *)
(* an ordinary save finds stored under its own version, at its check and at *)
(* its UPDATE, its author had read.  The variables, scales and measurements *)
(* are outside: they are written later and under no version.                *)
THEOREM SavesLoseNothingUnseen == Spec => NothingLostUnseen
<1> DEFINE Kept == \A a \in Authors :
                     (PutCheck(a) \/ PutUpdate(a)) /\ put[a].sent.version = row.version /\ ~put[a].forced
                       => row.content \subseteq put[a].sent.content
<1>1. Inv => Kept
  BY DEF Inv, Holds, Known
<1>2. Spec => [][Kept]_vars
  BY <1>1, InvHolds, PTL
<1> QED
  BY <1>2 DEF NothingLostUnseen

(* CacheKnowsOwnSaves: no fetch in flight brings an author's cache back     *)
(* behind the author's own saves.                                           *)
THEOREM CacheIsNotBehind == Spec => []CacheKnowsOwnSaves
<1>1. Inv => CacheKnowsOwnSaves
  <2> SUFFICES ASSUME Inv, NEW a \in Authors, ~cache[a].stale
               PROVE  cache[a].copy.version >= own[a]
    BY DEF CacheKnowsOwnSaves
  <2> QED
    BY Shape DEF Inv, Holds
<1> QED
  BY <1>1, InvHolds, PTL

=============================================================================
