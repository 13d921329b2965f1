----------------------------- MODULE RetakeGate -----------------------------
(***************************************************************************)
(* The access decision taken before an attempt is opened:                  *)
(* server/services/retake-gate.ts over the shared arithmetic of            *)
(* shared/eligibility/engine.ts.                                           *)
(*                                                                         *)
(* Time is a natural number of hours; a calendar day is HoursPerDay of     *)
(* them, so that barrier A (whole calendar days) and barrier B (hours) are *)
(* measured on the two scales the code uses.  An attempt fact is           *)
(*   [assignment, finishedAt, passed]                                      *)
(* with finishedAt = Null for an attempt still open and passed one of      *)
(* "yes", "no", "unknown".  Dates and instants that do not parse are not   *)
(* represented: both come from the database.                               *)
(***************************************************************************)
EXTENDS Integers, FiniteSets

CONSTANTS
  Null,          \* the absent value of every optional field (not a number)
  HoursPerDay    \* length of a calendar day on the hour scale

ASSUME HoursAssumption == HoursPerDay \in Nat \ {0}

Larger(a, b) == IF a >= b THEN a ELSE b

Outcome == {"yes", "no", "unknown"}

(* RetakePolicy: barrier A (enabled, days ...) and barrier B (interval).    *)
(* interval = Null stands for attemptInterval absent or not enabled.        *)
RetakePolicy(N) ==
  [enabled     : BOOLEAN,
   days        : N \cup {Null},
   byOutcome   : BOOLEAN,
   daysPassed  : N \cup {Null},
   daysFailed  : N \cup {Null},
   interval    : N \cup {Null}]

DayOf(hour) == hour \div HoursPerDay

(***************************************************************************)
(* shared/eligibility/engine.ts                                            *)
(***************************************************************************)

(* resolveCooldownDays: the period that applies given the outcome of the    *)
(* anchoring attempt; an unknown outcome takes the larger configured one.   *)
resolveCooldownDays(policy, passed) ==
  LET p == policy.daysPassed
      f == policy.daysFailed
  IN  CASE ~policy.byOutcome  -> policy.days
        [] policy.byOutcome /\ p = Null -> f
        [] policy.byOutcome /\ p # Null /\ f = Null -> p
        [] OTHER -> CASE passed = "yes" -> p
                      [] passed = "no"  -> f
                      [] OTHER          -> Larger(p, f)

(* Mutant: the countdown starts from the reported clock.                    *)
cooldownFromReported(last, reportedToday, period) ==
  [allowed        |-> Larger(reportedToday, last) - last >= period,
   availableDate  |-> last + period,
   effectiveToday |-> reportedToday]

(* cooldownDecision: a "today" before the last attempt is not believed and  *)
(* is moved forward to it.                                                  *)
cooldownDecision(last, reportedToday, period) ==
  LET today == Larger(reportedToday, last)
  IN  [allowed        |-> today - last >= period,
       availableDate  |-> last + period,
       effectiveToday |-> today]

(* attemptIntervalDecision: the same rule in hours, between instants.       *)
attemptIntervalDecision(last, reportedNow, hours) ==
  LET now == Larger(reportedNow, last)
  IN  [allowed |-> now - last >= hours, availableAt |-> last + hours]

(* daysUntilDate *)
daysUntilDate(target, today) ==
  IF target > today THEN target - today ELSE Null

(***************************************************************************)
(* server/services/retake-gate.ts                                          *)
(***************************************************************************)

Finished(facts) == {f \in facts : f.finishedAt # Null}

countAttemptsInAssignment(facts, current) ==
  Cardinality({f \in Finished(facts) : f.assignment = current})

(* lastCompletedAttempt / lastFinishedInstant: the newest of a non-empty    *)
(* set of finished facts.                                                   *)
lastCompletedAttempt(facts) ==
  CHOOSE f \in facts : \A g \in facts : g.finishedAt <= f.finishedAt

Granted == [allowed |-> TRUE, blockedBy |-> Null, available |-> Null, daysUntil |-> Null]

(* decideRetake: barrier B inside the current assignment, barrier A on its  *)
(* first attempt, never both.                                               *)
decideRetake(policy, current, facts, now) ==
  LET inside     == {f \in Finished(facts) : f.assignment = current}
      outside    == {f \in Finished(facts) : f.assignment # current}
      configured == policy.enabled /\ (policy.days # Null \/ policy.byOutcome)
      insideDecision ==
        attemptIntervalDecision(lastCompletedAttempt(inside).finishedAt, now, policy.interval)
      anchor   == lastCompletedAttempt(outside)
      period   == resolveCooldownDays(policy, anchor.passed)
      decision == cooldownDecision(DayOf(anchor.finishedAt), DayOf(now), period)
  IN  IF inside # {}
      THEN IF policy.interval = Null \/ insideDecision.allowed
           THEN Granted
           ELSE [allowed |-> FALSE, blockedBy |-> "attemptInterval",
                 available |-> insideDecision.availableAt, daysUntil |-> Null]
      ELSE IF ~configured \/ outside = {} \/ period = Null \/ decision.allowed
           THEN Granted
           ELSE [allowed |-> FALSE, blockedBy |-> "cooldown",
                 available |-> decision.availableDate,
                 daysUntil |-> daysUntilDate(decision.availableDate, decision.effectiveToday)]

=============================================================================
