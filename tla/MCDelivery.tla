----------------------------- MODULE MCDelivery ------------------------------
(* Two topics, four questions, two tests an author switches between.       *)
EXTENDS Delivery

CONSTANT author1

Q(topic, tags, index) == [topic |-> topic, tags |-> tags, index |-> index]

StartBanks ==
  {<<Q("t1", {}, 0), Q("t1", {"a"}, 1), Q("t2", {}, 0), Q("t1", {}, 1)>>}

Section(topic, n, strata, order) ==
  [topic |-> topic, drawAll |-> FALSE, drawCount |-> n, strata |-> strata, forms |-> <<>>, order |-> order]

Variants(topic, forms, order) ==
  [Section(topic, 0, <<>>, order) EXCEPT !.forms = forms]

Quota(tag, n, mode) == [tag |-> tag, count |-> n, mode |-> mode]

WithQuota ==
  [sections |-> <<Section("t1", 2, <<Quota("a", 1, "exact")>>, "fixed"), Section("t2", 1, <<>>, "inherit")>>,
   questionOrder |-> "shuffle_all", flow |-> "linear_flat"]

WithVariants ==
  [sections |-> <<Section("t2", 1, <<>>, "inherit"),
                  Variants("t1", <<[id |-> 1, questions |-> <<4, 2>>], [id |-> 2, questions |-> <<1>>]>>, "fixed")>>,
   questionOrder |-> "shuffle_all", flow |-> "linear_by_topics"]

AuthorsTests == {WithQuota, WithVariants}

=============================================================================
