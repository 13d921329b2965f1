--------------------------- MODULE AdaptivePromise ---------------------------
(***************************************************************************)
(* What an adaptive attempt promises, without questions, requests or the   *)
(* stored variant: levels get verdicts one at a time, outwards from the    *)
(* middle level and never twice; topics close in order; a topic that is    *)
(* closed by its answers is settled; the result reads the verdicts off and *)
(* is the last thing that happens.                                         *)
(***************************************************************************)
EXTENDS Integers

CONSTANTS
  Topics,   \* number of adaptive topics
  Levels,   \* Levels[t]: number of levels of topic t
  Null

VARIABLES
  verdict,  \* verdict[t][l]: "none", "passed" or "failed"
  closed,   \* number of topics closed
  report    \* the result of the attempt, Null while it runs

vars == <<verdict, closed, report>>

Middle(t) == Levels[t] \div 2 + 1

Init ==
  /\ verdict = [t \in 1 .. Topics |-> [l \in 1 .. Levels[t] |-> "none"]]
  /\ closed = 0
  /\ report = Null

With(w, v) == {l \in DOMAIN w : w[l] = v}

Top(levels) == IF levels = {} THEN 0 ELSE CHOOSE l \in levels : \A m \in levels : m <= l

Report(verdicts) ==
  [t \in 1 .. Topics |->
     [achieved  |-> Top(With(verdicts[t], "passed")),
      attempted |-> With(verdicts[t], "passed") \cup With(verdicts[t], "failed")]]

(* The level that may be judged next, given the verdicts w of topic t: the  *)
(* middle one, the one above a passed level or the one below a failed one.  *)
MayJudge(t, w, l) ==
  /\ w[l] = "none"
  /\ \/ l = Middle(t) /\ With(w, "none") = DOMAIN w
     \/ l > 1 /\ w[l - 1] = "passed"
     \/ l < Levels[t] /\ w[l + 1] = "failed"

(* Nothing is left to ask: the achieved level is known.                     *)
Settled(t, w) ==
  \/ w[1] = "failed"
  \/ w[Levels[t]] = "passed"
  \/ \E l \in 1 .. Levels[t] - 1 : w[l] = "passed" /\ w[l + 1] = "failed"

(* The attempt goes on, or ends with the topic that was closed last.        *)
Publish == report' = IF closed' = Topics THEN Report(verdict') ELSE Null

Open == report = Null /\ closed < Topics

(* A verdict in the open topic, which closes exactly when it is settled.    *)
Judge ==
  LET t == closed + 1
  IN  /\ Open
      /\ \E l \in 1 .. Levels[t], v \in {"passed", "failed"} :
           /\ MayJudge(t, verdict[t], l)
           /\ verdict' = [verdict EXCEPT ![t][l] = v]
           /\ closed' = IF Settled(t, verdict'[t]) THEN t ELSE closed
      /\ Publish

(* The topic's own timer closes it with the verdicts it has.                *)
Expire ==
  /\ Open
  /\ closed' = closed + 1
  /\ UNCHANGED verdict
  /\ Publish

(* The timer of the whole test ends the attempt where it stands.            *)
Buzzer ==
  /\ Open
  /\ report' = Report(verdict)
  /\ UNCHANGED <<verdict, closed>>

Next == Judge \/ Expire \/ Buzzer

Spec == Init /\ [][Next]_vars

(* ... and the result comes, as long as the learner goes on.                *)
KeptSpec == Spec /\ <>(report # Null)

=============================================================================
