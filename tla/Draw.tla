--------------------------------- MODULE Draw ---------------------------------
(***************************************************************************)
(* What a test hands out: the questions a topic contributes (shared/draw/  *)
(* blueprint.ts, forms.ts), the order they are played in (order-           *)
(* questions.ts, assemble-delivery.ts) and the check that the contribution *)
(* is possible at all (feasibility.ts).                                    *)
(*                                                                         *)
(* The injected shuffle is a choice: an operator returns the SET of all    *)
(* results the code can produce.  A pool is the set of rows getQuestionsBy- *)
(* Topic returns, Precedes the order in which it returns them.             *)
(***************************************************************************)
EXTENDS Integers, SequencesExt

NoIndex == 0   \* questions.order_index NULL
NoForm  == 0   \* the section is not in variants mode

(* A question: [id, tags, index].  A section of the test:                   *)
(* [topic, drawAll, drawCount, strata, forms, order], with strata a         *)
(* sequence of [tag, count, mode] and forms a sequence of [id, questions].  *)

IdsIn(questions) == {q.id : q \in questions}

Least(a, b) == IF a <= b THEN a ELSE b

(* The quotas of a blueprint together.                                      *)
Quotas(strata) ==
  LET sum[n \in 0 .. Len(strata)] == IF n = 0 THEN 0 ELSE sum[n - 1] + strata[n].count
  IN  sum[Len(strata)]

(* filter: the members of S, in the order of s.                             *)
Only(s, S) ==
  LET kept[n \in 0 .. Len(s)] ==
        IF n = 0 THEN <<>>
        ELSE IF s[n] \in S THEN Append(kept[n - 1], s[n]) ELSE kept[n - 1]
  IN  kept[Len(s)]

(* getQuestionsByTopic: order_index ascending, nulls last, then id.         *)
Precedes(p, q) ==
  \/ p.index # NoIndex /\ q.index = NoIndex
  \/ p.index = q.index /\ p.id < q.id
  \/ p.index # NoIndex /\ q.index # NoIndex /\ p.index < q.index

-----------------------------------------------------------------------------
(* Selection.                                                               *)

(* shuffle(S).slice(0, n): any n of them; under feasibility.ts's             *)
(* identityShuffle, the first n of the bank's order.                        *)
Pick(shuffle, n, S) ==
  {F \in kSubset(Least(n, Cardinality(S)), S) :
     shuffle = "identity" => \A p \in F, q \in S \ F : Precedes(p, q)}

exactKeys(section) == {s.tag : s \in {t \in ToSet(section.strata) : t.mode = "exact"}}

(* What the first n strata left, when each took take[i].                    *)
Unused(pool, take, n) == pool \ UNION {take[i] : i \in 1 .. n}

(* drawSection, step 1: each stratum in turn takes its quota, or what there *)
(* is, from the questions of its tag that are not used.                     *)
Takes(pool, strata, shuffle) ==
  {take \in [DOMAIN strata -> SUBSET pool] :
     \A n \in DOMAIN strata :
       take[n] \in Pick(shuffle, strata[n].count,
                       {q \in Unused(pool, take, n - 1) : strata[n].tag \in q.tags})}

(* drawSection, step 2: the remainder, from the unused questions without an *)
(* exact tag.                                                               *)
Fill(section, unused, n, shuffle) ==
  IF section.drawCount > n
  THEN Pick(shuffle, section.drawCount - n, {q \in unused : q.tags \cap exactKeys(section) = {}})
  ELSE {{}}

(* drawSection, the closing slice: the first drawCount.  Only the quotas of *)
(* a topic drawn whole may exceed it, and such a topic is never checked.    *)
Sliced(section, take, chosen) ==
  {kept \in kSubset(Least(section.drawCount, Cardinality(chosen)), chosen) :
     \A m, n \in DOMAIN take : m < n /\ take[n] \cap kept # {} => take[m] \subseteq kept}

(* Without a blueprint there are no strata and no exact tags: the uniform   *)
(* draw.                                                                    *)
drawSection(pool, section, shuffle) ==
  LET strata == section.strata
      short(take) == {strata[n].tag : n \in {m \in DOMAIN strata : Cardinality(take[m]) < strata[m].count}}
      draws(take) ==
        LET unused == Unused(pool, take, Len(strata))
        IN  UNION {{[selected |-> kept, warnings |-> short(take)] :
                      kept \in Sliced(section, take, (pool \ unused) \cup more)} :
                   more \in Fill(section, unused, Cardinality(pool \ unused), shuffle)}
  IN  UNION {draws(take) : take \in Takes(pool, strata, shuffle)}

(* Mutant: the variants seen are not excluded. *)
candidatesAll(forms, previousFormIds) == ToSet(forms)

(* selectForm: variants not seen in a finished attempt; all again once      *)
(* every one has been seen.                                                 *)
candidates(forms, previousFormIds) ==
  LET fresh == {f \in ToSet(forms) : f.id \notin previousFormIds}
  IN  IF fresh = {} THEN ToSet(forms) ELSE fresh

(* The chosen variant whole, less the questions that left the bank.         *)
present(form, pool) == Only(form.questions, IdsIn(pool))

-----------------------------------------------------------------------------
(* The check.                                                               *)

variantQuestionIds(section) == UNION {ToSet(f.questions) : f \in ToSet(section.forms)}

(* Mutant: the quotas are not looked at. *)
checkPoolOnly(pool, section) ==
  section.drawAll \/ Cardinality(pool) >= section.drawCount

(* checkDrawFeasibility of one section, hard issues only: a variant that    *)
(* lost a question, or the draw simulated in the bank's order falls short.  *)
(* A section that draws the whole topic has none.                           *)
Feasible(pool, section) ==
  IF section.forms # <<>>
  THEN variantQuestionIds(section) \subseteq IdsIn(pool)
  ELSE \/ section.drawAll
       \/ \A d \in drawSection(pool, section, "identity") :
            d.warnings = {} /\ Cardinality(d.selected) >= section.drawCount

-----------------------------------------------------------------------------
(* Order.                                                                   *)

effectiveSectionOrder(testOrder, sectionOrder) ==
  IF sectionOrder \in {"fixed", "random"} THEN sectionOrder
  ELSE IF testOrder = "fixed" THEN "fixed" ELSE "random"

(* Ascending index, those without one last.                                 *)
InIndexOrder(s) ==
  \A i, j \in DOMAIN s :
    i < j => /\ s[i].index = NoIndex => s[j].index = NoIndex
             /\ s[j].index # NoIndex => s[i].index <= s[j].index

(* orderQuestions: groups of equal index are shuffled inside.               *)
orderQuestions(questions, mode) ==
  {s \in SetToSeqs(questions) : mode = "fixed" => InIndexOrder(s)}

(* What one topic contributes: [form, list, preordered]; the list of a draw *)
(* has no order yet.                                                        *)
drawTopic(pool, section, previousFormIds) ==
  LET one(id) == CHOOSE q \in pool : q.id = id
  IN  IF section.forms # <<>>
      THEN {[form |-> f.id, preordered |-> TRUE,
             list |-> [i \in DOMAIN present(f, pool) |-> one(present(f, pool)[i])]] :
              f \in candidates(section.forms, previousFormIds)}
      ELSE {[form |-> NoForm, preordered |-> FALSE,
             list |-> SetToSeq(d.selected)] :
              d \in drawSection(pool, section, "random")}

(* orderSection, with the shuffle selectForm applies to a variant that is   *)
(* not played in the author's order.                                        *)
orderSection(drawn, mode) ==
  IF drawn.preordered /\ mode = "fixed" THEN {drawn.list}
  ELSE orderQuestions(ToSet(drawn.list), IF drawn.preordered THEN "random" ELSE mode)

(* The single questions of a section, each a unit of the stream.            *)
Singles(drawn, i) == {[from |-> i, block |-> <<q>>] : q \in ToSet(drawn[i].list)}

(* Mutant: a topic in fixed order is cut up like any other. *)
UnitsCutUp(drawn, modes) == {UNION {Singles(drawn, i) : i \in DOMAIN drawn}}

(* One of each.                                                             *)
OneOfEach(sets) ==
  {f \in [DOMAIN sets -> UNION {sets[i] : i \in DOMAIN sets}] : \A i \in DOMAIN sets : f[i] \in sets[i]}

(* The units of the one shuffle: a block per topic in fixed order, single   *)
(* questions of the others.                                                 *)
Units(drawn, modes) ==
  LET units(i) == IF modes[i] = "fixed"
                  THEN {{[from |-> i, block |-> b]} : b \in orderSection(drawn[i], "fixed")}
                  ELSE {Singles(drawn, i)}
  IN  {UNION {u[i] : i \in DOMAIN drawn} : u \in OneOfEach([i \in DOMAIN drawn |-> units(i)])}

(* shuffle(units).flat().                                                   *)
Streams(units) == {FlattenSeq([k \in DOMAIN s |-> s[k].block]) : s \in SetToSeqs(units)}

isFlatFlow(flow) == flow \notin {"linear_by_topics", "router_by_topics"}

mixAcrossTopics(test) == test.questionOrder = "shuffle_all" /\ isFlatFlow(test.flow)

(* A section's list is its part of the stream.                              *)
projected(flat, list) == Only(flat, ToSet(list))

(* assembleDelivery: [sections, flat, mixed].                               *)
assembleDelivery(test, drawn) ==
  LET modes == [i \in DOMAIN drawn |->
                  effectiveSectionOrder(test.questionOrder, test.sections[i].order)]
      blocks == OneOfEach([i \in DOMAIN drawn |-> orderSection(drawn[i], modes[i])])
      flats == UNION {Streams(units) : units \in Units(drawn, modes)}
  IN  IF mixAcrossTopics(test)
      THEN {[sections |-> [i \in DOMAIN drawn |-> projected(flat, drawn[i].list)], flat |-> flat, mixed |-> TRUE] :
              flat \in flats}
      ELSE {[sections |-> b, flat |-> FlattenSeq(b), mixed |-> FALSE] : b \in blocks}

=============================================================================
