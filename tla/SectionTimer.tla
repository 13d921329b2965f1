---------------------------- MODULE SectionTimer ----------------------------
(***************************************************************************)
(* The time budget of each section of an attempt, kept on the attempt row  *)
(* and advanced by the pings of the learner's browser:                     *)
(* server/services/section-timer.ts over shared/flow/section-budget.ts,    *)
(* behind POST /attempts/:attemptId/section-timer.                         *)
(*                                                                         *)
(* A ping reads the limit from the live sections, which an author may edit *)
(* while the attempt runs, then the row; it computes the next state from   *)
(* the server clock in the same turn, and writes it back in a later one:   *)
(* two pings in flight may read the same state.  Time is counted in ticks  *)
(* of the server clock, which may be set back.                             *)
(***************************************************************************)
EXTENDS Integers, FiniteSets

CONSTANTS
  Sections,   \* topic ids of the test
  Limits,     \* what an author may set: timeLimitMinutes of each section in ticks, 0 for none
  Grace,      \* GRACE_MS
  Pings,      \* slots of pings in flight at the same time
  Nowhere,    \* topicId null: the learner is outside every section
  Null,       \* runningSince null, lastSeenAt 0
  MaxClock,   \* bound of the server clock
  MaxActive   \* bound: no ping is sent once this much active time is counted

VARIABLES
  timer,      \* attempts.sectionTimerJson
  limit,      \* test_sections.timeLimitMinutes
  granted,    \* history: the budget each section was opened with, or Null
  finished,   \* attempts.finishedAt is set
  clock,      \* Date.now()
  ping        \* local state of every ping in flight

vars == <<timer, limit, granted, finished, clock, ping>>

Clock == 0 .. MaxClock

(* A section that has been entered has a budget; the others have none.      *)
Budget == [remaining : Nat, since : Nat \cup {Null}]

ASSUME TimerAssumption ==
  /\ IsFiniteSet(Sections)
  /\ Limits \subseteq [Sections -> Nat]
  /\ Grace \in Nat \ {0}
  /\ Nowhere \notin Sections
  /\ Null \notin Nat /\ Null \notin Budget
  /\ MaxClock \in Nat
  /\ MaxActive \in Nat

Timer ==
  [budgets  : [Sections -> Budget \cup {Null}],
   lastSeen : Clock \cup {Null},
   active   : Nat]

EmptyTimer == [budgets |-> [s \in Sections |-> Null], lastSeen |-> Null, active |-> 0]

IdlePing == [pc |-> "idle", section |-> Nowhere, limit |-> 0, next |-> EmptyTimer]

Ping ==
  [pc : {"idle", "read", "write"}, section : Sections \cup {Nowhere}, limit : Nat, next : Timer]

TypeOK ==
  /\ timer \in Timer
  /\ limit \in Limits
  /\ granted \in [Sections -> Nat \cup {Null}]
  /\ finished \in BOOLEAN
  /\ clock \in Clock
  /\ ping \in [Pings -> Ping]

-----------------------------------------------------------------------------
(* shared/flow/section-budget.ts                                            *)

AtLeastZero(n) == IF n >= 0 THEN n ELSE 0

(* remainingMs of a budget: a running one keeps draining.                   *)
remainingMs(b, active) ==
  AtLeastZero(b.remaining - (IF b.since = Null THEN 0 ELSE AtLeastZero(active - b.since)))

isSpent(budgets, s, active) ==
  budgets[s] # Null /\ remainingMs(budgets[s], active) = 0

spentTopics(budgets, active) == {s \in Sections : isSpent(budgets, s, active)}

(* Mutant: what is left is recorded, the countdown goes on from its start.  *)
pauseKeepsRunning(budgets, active) ==
  [s \in Sections |->
     IF budgets[s] = Null THEN Null
     ELSE [budgets[s] EXCEPT !.remaining = remainingMs(budgets[s], active)]]

(* pauseAll: freeze what is left of every running budget.                   *)
pauseAll(budgets, active) ==
  [s \in Sections |->
     IF budgets[s] = Null THEN Null
     ELSE [remaining |-> remainingMs(budgets[s], active), since |-> Null]]

(* Mutant: every entry opens the budget anew. *)
enterResets(budgets, s, cap, active) ==
  LET paused == pauseAll(budgets, active)
  IN  IF cap = 0 THEN paused
      ELSE [paused EXCEPT ![s] = [remaining |-> cap, since |-> active]]

(* enterSection: pause the others, resume this one; the limit opens a       *)
(* budget on the first entry only.                                          *)
enterSection(budgets, s, cap, active) ==
  LET paused == pauseAll(budgets, active)
  IN  IF paused[s] = Null /\ cap = 0
      THEN paused
      ELSE [paused EXCEPT ![s] =
              [remaining |-> IF paused[s] = Null THEN cap ELSE paused[s].remaining,
               since     |-> active]]

-----------------------------------------------------------------------------
(* server/services/section-timer.ts                                         *)

(* Mutant: a silent interval is credited in full. *)
advanceWithoutGrace(t, now) ==
  IF t.lastSeen = Null
  THEN [t EXCEPT !.lastSeen = now]
  ELSE [t EXCEPT !.lastSeen = now, !.active = @ + AtLeastZero(now - t.lastSeen)]

(* advance: credit the gap since the last ping, never more than the grace.  *)
advance(t, now) ==
  LET elapsed == AtLeastZero(now - t.lastSeen)
  IN  IF t.lastSeen = Null
      THEN [t EXCEPT !.lastSeen = now]
      ELSE [t EXCEPT !.lastSeen = now,
                     !.active = @ + (IF elapsed <= Grace THEN elapsed ELSE Grace)]

(* applyPing: the learner is in section s, or Nowhere.                      *)
applyPing(t, s, cap, now) ==
  LET advanced == advance(t, now)
  IN  [advanced EXCEPT !.budgets =
         IF s = Nowhere THEN pauseAll(advanced.budgets, advanced.active)
         ELSE enterSection(advanced.budgets, s, cap, advanced.active)]

Init ==
  /\ timer = EmptyTimer
  /\ limit \in Limits
  /\ granted = [s \in Sections |-> Null]
  /\ finished = FALSE
  /\ clock = 0
  /\ ping = [p \in Pings |-> IdlePing]

(* POST /attempts/:attemptId/section-timer: a finished attempt is refused;  *)
(* the limit comes from the live sections.                                  *)
PingLimit(p) ==
  /\ ping[p].pc = "idle"
  /\ ~finished
  /\ timer.active < MaxActive
  /\ \E s \in Sections \cup {Nowhere} :
       ping' = [ping EXCEPT ![p] = [pc |-> "read", section |-> s, next |-> EmptyTimer,
                                    limit |-> IF s = Nowhere THEN 0 ELSE limit[s]]]
  /\ UNCHANGED <<timer, limit, granted, finished, clock>>

(* pingSection: getAttempt, then applyPing in the same turn.  An attempt    *)
(* finished meanwhile is refused and nothing is written.                    *)
PingRead(p) ==
  LET next == applyPing(timer, ping[p].section, ping[p].limit, clock)
  IN  /\ ping[p].pc = "read"
      /\ ping' = [ping EXCEPT ![p] = IF finished THEN IdlePing
                                     ELSE [IdlePing EXCEPT !.pc = "write", !.next = next]]
      /\ UNCHANGED <<timer, limit, granted, finished, clock>>

(* pingSection: updateAttempt {sectionTimerJson}, whatever happened since.  *)
PingWrite(p) ==
  LET next == ping[p].next
  IN  /\ ping[p].pc = "write"
      /\ timer' = next
      /\ granted' = [s \in Sections |-> IF timer.budgets[s] = Null /\ next.budgets[s] # Null
                                        THEN next.budgets[s].remaining ELSE granted[s]]
      /\ ping' = [ping EXCEPT ![p] = IdlePing]
      /\ UNCHANGED <<limit, finished, clock>>

(* PUT /tests/:id: an author changes the limits under a running attempt.    *)
EditLimits ==
  /\ limit' \in Limits \ {limit}
  /\ UNCHANGED <<timer, granted, finished, clock, ping>>

(* POST /finish: from here on pings are refused.                            *)
Finish ==
  /\ ~finished
  /\ finished' = TRUE
  /\ UNCHANGED <<timer, limit, granted, clock, ping>>

(* Time passes, or the machine's clock is stepped back.                     *)
ClockMoves ==
  /\ clock' \in Clock \ {clock}
  /\ UNCHANGED <<timer, limit, granted, finished, ping>>

Next ==
  \/ \E p \in Pings : PingLimit(p) \/ PingRead(p) \/ PingWrite(p)
  \/ EditLimits
  \/ Finish
  \/ ClockMoves

Spec == Init /\ [][Next]_vars

-----------------------------------------------------------------------------
(* Milliseconds left in a section that has been entered.                    *)
Left(t, s) == remainingMs(t.budgets[s], t.active)

(* Rule 1: the countdown runs in one section at a time.                     *)
OneRunning ==
  \A s1, s2 \in Sections :
    (/\ timer.budgets[s1] # Null /\ timer.budgets[s1].since # Null
     /\ timer.budgets[s2] # Null /\ timer.budgets[s2].since # Null) => s1 = s2

(* Rule 2: leaving, returning, closing the tab, a clock set back or a limit  *)
(* edited meanwhile never gives time back: what is left only shrinks.       *)
NoTimeBack ==
  [][\A s \in Sections :
       timer.budgets[s] # Null =>
         /\ timer'.budgets[s] # Null
         /\ Left(timer', s) <= Left(timer, s)]_vars

(* Rule 3: a section whose budget is spent stays locked.                     *)
SpentStaysSpent ==
  [][spentTopics(timer.budgets, timer.active)
       \subseteq spentTopics(timer'.budgets, timer'.active)]_vars

(* GRACE_MS: one silent interval costs at most the grace, and only the       *)
(* section the learner was last seen in.                                    *)
SilenceCostsGrace ==
  [][\A s \in Sections :
       timer.budgets[s] # Null =>
         Left(timer, s) - Left(timer', s) <=
           IF timer.budgets[s].since = Null THEN 0 ELSE Grace]_vars

(* No active moment is charged to two sections: what the sections have lost  *)
(* together is no more than the active time of the attempt.                 *)
Charged(t) ==
  LET used[S \in SUBSET Sections] ==
        IF S = {} THEN 0
        ELSE LET s == CHOOSE x \in S : TRUE
             IN  used[S \ {s}] + (IF t.budgets[s] = Null THEN 0 ELSE granted[s] - Left(t, s))
  IN  used[Sections]

ChargedOnce == Charged(timer) <= timer.active

=============================================================================
