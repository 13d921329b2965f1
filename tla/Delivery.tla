------------------------------ MODULE Delivery -------------------------------
(***************************************************************************)
(* What one learner gets from a test while its authors work on it: the     *)
(* start of a standard attempt on the server (routes/attempts.ts) draws    *)
(* from the frozen snapshot or from the live bank, rotates the variants    *)
(* over the finished attempts and carries an abandoned set over.           *)
(*                                                                         *)
(* The steps inside a start and the attempt limits are AttemptLifecycle's  *)
(* subject; here a start is one step, and the pools of a start from the    *)
(* live bank are of one moment.                                            *)
(***************************************************************************)
EXTENDS BankGuard

CONSTANT MaxStarts   \* bound: attempts started

VARIABLES
  runs,     \* the learner's rows of attempts, by the number of their start
  starts    \* number of starts so far

vars == <<bankVars, runs, starts>>

Live == 0   \* attempts.snapshot_id NULL

(* sourceForStart: a published test is delivered from its latest snapshot,  *)
(* any other, and a published one that has none yet, from the live rows.    *)
sourceForStart ==
  IF status = "published" /\ frozen # NoSnapshot THEN frozen
  ELSE [id |-> Live, test |-> test, touched |-> TRUE, pools |-> LivePools]

Open     == {n \in DOMAIN runs : ~runs[n].finished}
Finished == DOMAIN runs \ Open

FormsOf(a, topic) == {s.form : s \in {t \in ToSet(a.sections) : t.topic = topic}}

(* The variants of a topic that these attempts were dealt.                  *)
FormsIn(rows, topic) == (UNION {FormsOf(a, topic) : a \in rows}) \ {NoForm}

previousFormIdsForTopic(topic) == FormsIn({runs[n] : n \in Finished}, topic)

(* One way to draw every section of the source's test.  drawAll is not read *)
(* on the server.                                                           *)
Draws(src) ==
  OneOfEach([i \in DOMAIN src.test.sections |->
             LET s == src.test.sections[i]
             IN  drawTopic(src.pools[s.topic], s, previousFormIdsForTopic(s.topic))])

(* The set of the newest abandoned attempt, when it came from the same      *)
(* content and holds a question.                                            *)
carryOverVariant(src) ==
  {a \in {runs[n] : n \in {m \in Open : \A k \in Open : k <= m}} :
     a.source.id = src.id /\ a.stream # <<>>}

(* The stored order: a mixed test keeps its stream, any other is played in  *)
(* the order of its sections.                                               *)
Attempt(src, drawn, delivery) ==
  [source   |-> src,
   sections |-> [i \in DOMAIN drawn |-> [topic |-> src.test.sections[i].topic, form |-> drawn[i].form,
                                         list |-> delivery.sections[i]]],
   stream   |-> delivery.flat,
   finished |-> FALSE]

(* POST /tests/:id/attempts/start, annulInProgressAttempts included.        *)
Start ==
  LET src == sourceForStart
  IN  /\ starts < MaxStarts
      /\ \E a \in IF carryOverVariant(src) # {} THEN carryOverVariant(src)
                  ELSE UNION {{Attempt(src, drawn, d) : d \in assembleDelivery(src.test, drawn)} :
                                drawn \in Draws(src)} :
           runs' = [n \in Finished \cup {starts + 1} |-> IF n \in Finished THEN runs[n] ELSE a]
      /\ starts' = starts + 1
      /\ UNCHANGED bankVars

(* POST /attempts/:id/finish.                                               *)
Finish ==
  /\ \E n \in Open : runs' = [runs EXCEPT ![n].finished = TRUE]
  /\ UNCHANGED <<bankVars, starts>>

-----------------------------------------------------------------------------

Init == BankInit /\ runs = <<>> /\ starts = 0

Next == (Author /\ UNCHANGED <<runs, starts>>) \/ Start \/ Finish

Spec == Init /\ [][Next]_vars

-----------------------------------------------------------------------------
(* Properties.                                                              *)

PoolUnder(a, i) == a.source.pools[a.sections[i].topic]
Setting(a, i) == a.source.test.sections[i]

(* No question of the pool counts towards two quotas of the section.        *)
QuotasApart(pool, section) ==
  \A q \in pool : Cardinality({i \in DOMAIN section.strata : section.strata[i].tag \in q.tags}) <= 1

OfTag(list, tag) == {q \in ToSet(list) : tag \in q.tags}

(* assessTestPublish promises a draw that succeeds: an attempt on a         *)
(* snapshot whose publication nobody disturbed gets every variant whole and *)
(* every section at its full number with its quotas met, provided no        *)
(* question serves two quotas.                                              *)
FilledAsChecked(a) ==
  ~a.source.touched =>
    \A i \in DOMAIN a.sections :
      LET s == Setting(a, i)
          got == a.sections[i].list
      IN  IF s.forms # <<>>
          THEN \E f \in ToSet(s.forms) : f.id = a.sections[i].form /\ IdsIn(ToSet(got)) = ToSet(f.questions)
          ELSE QuotasApart(PoolUnder(a, i), s) /\ ~s.drawAll =>
                 /\ Len(got) = s.drawCount
                 /\ \A t \in ToSet(s.strata) : Cardinality(OfTag(got, t.tag)) >= t.count

(* drawSection: an exact quota is a ceiling too: the remainder never brings *)
(* a further question of that tag, whatever the bank became.                *)
ExactIsCeiling(a) ==
  \A i \in DOMAIN a.sections :
    LET s == Setting(a, i)
    IN  s.forms = <<>> /\ QuotasApart(PoolUnder(a, i), s) =>
          \A t \in ToSet(s.strata) :
            t.mode = "exact" => Cardinality(OfTag(a.sections[i].list, t.tag)) <= t.count

(* A draw gives what the author asked for: no less, no more.                 *)
DrawnAsAsked == \A a \in Range(runs) : FilledAsChecked(a) /\ ExactIsCeiling(a)

(* No question is in the pools of two sections.  A question that moves      *)
(* while a publication reads the pools one after the other may be in both.  *)
PoolsApart(src) ==
  \A i, j \in DOMAIN src.test.sections :
    i # j => IdsIn(src.pools[src.test.sections[i].topic])
               \cap IdsIn(src.pools[src.test.sections[j].topic]) = {}

(* A snapshot whose publication nobody disturbed holds a question once.     *)
HeldOnce(a) == ~a.source.touched => PoolsApart(a.source)

(* The stream the learner walks is the sections' lists and nothing else: no *)
(* question twice, and the questions of a section in the order of its list. *)
StreamOfSections(a) ==
  /\ IsInjective(a.stream)
  /\ ToSet(a.stream) = UNION {ToSet(s.list) : s \in ToSet(a.sections)}
  /\ \A s \in ToSet(a.sections) : Only(a.stream, ToSet(s.list)) = s.list

FixedTopic(a, i) ==
  effectiveSectionOrder(a.source.test.questionOrder, Setting(a, i).order) = "fixed"

(* PRD-30 FR-20: a topic in fixed order travels as one unbroken block in    *)
(* every mode, full shuffle included.                                       *)
FixedIsUnbroken(a) ==
  \A i \in DOMAIN a.sections :
    FixedTopic(a, i) =>
      \E k \in 0 .. Len(a.stream) - Len(a.sections[i].list) :
        a.sections[i].list = SubSeq(a.stream, k + 1, k + Len(a.sections[i].list))

(* ... and in the author's order: by index, unnumbered questions last, or   *)
(* the variant's own list.                                                  *)
FixedInOrder(a) ==
  \A i \in DOMAIN a.sections :
    LET l == a.sections[i].list
    IN  FixedTopic(a, i) =>
          IF a.sections[i].form = NoForm
          THEN \A j, k \in DOMAIN l : j < k /\ l[k].index # NoIndex =>
                 l[j].index \in 1 .. l[k].index
          ELSE \E f \in ToSet(Setting(a, i).forms) :
                 /\ f.id = a.sections[i].form
                 /\ [j \in DOMAIN l |-> l[j].id] = Only(f.questions, IdsIn(ToSet(l)))

(* A test that does not mix plays its topics one after the other, in the    *)
(* order of its sections.                                                   *)
TopicsStayBlocks(a) ==
  \/ a.source.test.flow \in {"linear_by_topics", "router_by_topics"}
  \/ a.source.test.questionOrder # "shuffle_all"
  => a.stream = FlattenSeq([i \in DOMAIN a.sections |-> a.sections[i].list])

(* The order the learner walks is the author's in all it fixes.              *)
OrderAsAuthored ==
  \A a \in Range(runs) :
    /\ HeldOnce(a)
    /\ PoolsApart(a.source) => StreamOfSections(a) /\ FixedIsUnbroken(a) /\ FixedInOrder(a)
    /\ TopicsStayBlocks(a)

(* PRD-17: a learner meets a variant of a section a second time only after  *)
(* finishing an attempt with every variant the section has.                 *)
RotationHolds ==
  \A n \in DOMAIN runs : \A i \in DOMAIN runs[n].sections :
    LET earlier == {runs[k] : k \in {m \in DOMAIN runs : m < n}}
        before  == FormsIn(earlier, runs[n].sections[i].topic)
    IN  runs[n].sections[i].form \in before => \A f \in ToSet(Setting(runs[n], i).forms) : f.id \in before

=============================================================================
