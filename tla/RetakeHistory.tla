---------------------------- MODULE RetakeHistory ---------------------------
(***************************************************************************)
(* The retake gate asked over every history a learner can build up in a    *)
(* few hours: attempts are finished with each outcome, assignments are     *)
(* replaced, the clock moves on or is set back.                            *)
(***************************************************************************)
EXTENDS RetakeGate

CONSTANTS
  MaxHour,         \* bound of the clock
  MaxAssignment,   \* bound of the number of assignments
  MaxFacts,        \* bound of the number of finished attempts
  Periods          \* configured cooldowns (days) and intervals (hours)

ASSUME HistoryAssumption ==
  /\ MaxHour \in Nat /\ MaxAssignment \in Nat
  /\ Periods \subseteq Nat
  /\ Null \notin Nat \cup {"attemptInterval", "cooldown"}

VARIABLES policy, facts, current, now

retakeVars == <<policy, facts, current, now>>

Hours == 0 .. MaxHour

RetakeInit ==
  /\ policy \in RetakePolicy(Periods)
  /\ facts = {}
  /\ current = 0
  /\ now = 0

Finish ==
  /\ Cardinality(facts) < MaxFacts
  /\ \A f \in facts : f.finishedAt # now
  /\ \E out \in Outcome :
       facts' = facts \cup {[assignment |-> current, finishedAt |-> now, passed |-> out]}
  /\ UNCHANGED <<policy, current, now>>

ReplaceAssignment ==
  /\ current < MaxAssignment
  /\ current' = current + 1
  /\ UNCHANGED <<policy, facts, now>>

HourPasses ==
  /\ now < MaxHour
  /\ now' = now + 1
  /\ UNCHANGED <<policy, facts, current>>

SetClockBack ==
  /\ now' \in 0 .. now - 1
  /\ UNCHANGED <<policy, facts, current>>

RetakeNext == Finish \/ ReplaceAssignment \/ HourPasses \/ SetClockBack

RetakeSpec == RetakeInit /\ [][RetakeNext]_retakeVars

-----------------------------------------------------------------------------

(* The longest wait the author configured. *)
Longest ==
  LET days == {policy.days, policy.daysPassed, policy.daysFailed} \ {Null}
  IN  CHOOSE d \in days : \A e \in days : e <= d

Decision(t) == decideRetake(policy, current, facts, t)

(* The 403 body names the moment access opens: the gate opens at that hour  *)
(* (barrier B) or on that day (barrier A), neither earlier nor later.       *)
AvailableIsExact ==
  ~Decision(now).allowed =>
    \A t \in Hours :
      Decision(t).allowed <=>
        IF Decision(now).blockedBy = "cooldown"
        THEN DayOf(t) >= Decision(now).available
        ELSE t >= Decision(now).available

(* CooldownDecision.effectiveToday: the countdown agrees with the refusal.   *)
(* A refused learner is told a positive number of days, never more than the *)
(* author configured even by a clock set back; by a clock that moves on the *)
(* gate opens after exactly that many.                                      *)
CountdownAgrees ==
  Decision(now).blockedBy = "cooldown" =>
    /\ Decision(now).daysUntil \in 1 .. Longest
    /\ (\A f \in facts : f.finishedAt <= now) =>
         \A t \in Hours : t >= now =>
           (Decision(t).allowed <=> DayOf(t) - DayOf(now) >= Decision(now).daysUntil)

(* What a refusal tells the learner is what the gate then does.             *)
RefusalIsExact == AvailableIsExact /\ CountdownAgrees

=============================================================================
