--------------------------- MODULE AttemptHistory ---------------------------
(***************************************************************************)
(* AttemptLifecycle observed by a history variable: what each learner has  *)
(* been dealt since the learner last finished an attempt, or the author or *)
(* the administrator last intervened.                                      *)
(***************************************************************************)
EXTENDS AttemptLifecycle

VARIABLE dealt

historyVars == <<vars, dealt>>

NewRows(l) ==
  {i \in RowIds : attempts[i] = Null /\ attempts'[i] # Null /\ attempts'[i].owner = l}

(* A row graded in this step, or removed by a step that is not a request.   *)
Intervened(l) ==
  \/ pubVars' # pubVars
  \/ \E i \in RowsOf(l) :
       IF attempts'[i] = Null THEN req' = req ELSE attempts'[i].result # attempts[i].result

HistoryInit == Init /\ dealt = [l \in Learners |-> {}]

HistoryNext ==
  /\ Next
  /\ dealt' = [l \in Learners |->
                 IF Intervened(l) THEN {}
                 ELSE dealt[l] \cup
                        {<<attempts'[i].snapshot, attempts'[i].drawn>> : i \in NewRows(l)}]

HistorySpec == HistoryInit /\ [][HistoryNext]_historyVars

-----------------------------------------------------------------------------

(* carryOverVariant: restarting deals no second set of questions from the    *)
(* same source: as long as the author and the administrator do nothing, a   *)
(* learner has to finish an attempt to see other questions.                 *)
OneDrawUntilFinished ==
  \A l \in Learners : \A x, y \in dealt[l] : x[1] = y[1] => x = y

=============================================================================
