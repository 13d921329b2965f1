------------------------- MODULE SectionTimerProofs -------------------------
(***************************************************************************)
(* Proofs about SectionTimer, for any sections, limits, grace and bounds,  *)
(* while the author edits the limits.                                      *)
(*                                                                         *)
(* The type invariant and OneRunning hold for any number of pings in       *)
(* flight, because whatever a ping writes back was produced by applyPing.  *)
(* NoTimeBack, SpentStaysSpent and SilenceCostsGrace hold when pings come  *)
(* one at a time: the inductive invariant says that what the one ping in   *)
(* flight is about to write extends what is stored (Follows).  ChargedOnce *)
(* adds up shares of sections: it takes a few facts about such sums, and   *)
(* the invariant that what is about to be written costs no more than the   *)
(* active time it counts (Costs).                                          *)
(***************************************************************************)
EXTENDS SectionTimer, FiniteSetTheorems, WellFoundedInduction, TLAPS

(* At most one section of a timer is running.                               *)
OneRunningIn(t) ==
  \A s1, s2 \in Sections :
    (/\ t.budgets[s1] # Null /\ t.budgets[s1].since # Null
     /\ t.budgets[s2] # Null /\ t.budgets[s2].since # Null) => s1 = s2

(* Timer u may replace timer t: no budget disappears or grows, and a section *)
(* loses nothing unless it was running, and then at most the grace.         *)
Follows(t, u) ==
  \A s \in Sections :
    t.budgets[s] # Null =>
      /\ u.budgets[s] # Null
      /\ Left(u, s) <= Left(t, s)
      /\ Left(t, s) - Left(u, s) <= IF t.budgets[s].since = Null THEN 0 ELSE Grace

-----------------------------------------------------------------------------
(* The arithmetic of one budget.                                            *)

(* remainingMs is a natural number. *)
LEMMA RemainingType ==
  ASSUME NEW b \in Budget, NEW active \in Nat
  PROVE  remainingMs(b, active) \in Nat
BY TimerAssumption DEF remainingMs, AtLeastZero, Budget

(* A running budget never gains by the passing of active time, and loses at *)
(* most the time that passed; a paused one is left as it is.                *)
LEMMA RemainingShrinks ==
  ASSUME NEW b \in Budget, NEW a1 \in Nat, NEW a2 \in Nat, a1 <= a2
  PROVE  /\ remainingMs(b, a2) <= remainingMs(b, a1)
         /\ remainingMs(b, a1) - remainingMs(b, a2)
              <= IF b.since = Null THEN 0 ELSE a2 - a1
<1>1. CASE b.since = Null
  BY <1>1, TimerAssumption DEF remainingMs, AtLeastZero, Budget
<1>2. CASE b.since # Null
  <2>1. b.remaining \in Nat /\ b.since \in Nat
    BY <1>2 DEF Budget
  <2> QED
    BY <1>2, <2>1 DEF remainingMs, AtLeastZero
<1> QED
  BY <1>1, <1>2

(* pauseAll keeps every budget and what is left of it, and stops them all.  *)
LEMMA PauseFacts ==
  ASSUME NEW budgets \in [Sections -> Budget \cup {Null}], NEW active \in Nat
  PROVE  /\ pauseAll(budgets, active) \in [Sections -> Budget \cup {Null}]
         /\ \A s \in Sections :
              LET q == pauseAll(budgets, active)[s]
              IN  IF budgets[s] = Null THEN q = Null
                  ELSE /\ q # Null
                       /\ q.since = Null
                       /\ q.remaining = remainingMs(budgets[s], active)
                       /\ remainingMs(q, active) = remainingMs(budgets[s], active)
<1>1. ASSUME NEW s \in Sections, budgets[s] # Null
      PROVE  /\ [remaining |-> remainingMs(budgets[s], active), since |-> Null] \in Budget
             /\ remainingMs([remaining |-> remainingMs(budgets[s], active), since |-> Null], active)
                  = remainingMs(budgets[s], active)
  <2>1. remainingMs(budgets[s], active) \in Nat
    BY <1>1, RemainingType
  <2> DEFINE n == remainingMs(budgets[s], active)
  <2>2. [remaining |-> n, since |-> Null] \in Budget
    BY <2>1 DEF Budget
  <2> HIDE DEF n
  <2>3. remainingMs([remaining |-> n, since |-> Null], active) = n
    BY <2>1 DEF remainingMs, AtLeastZero, n
  <2> QED
    BY <2>2, <2>3 DEF n
<1> QED
  BY <1>1, TimerAssumption DEF pauseAll

(* enterSection keeps every budget and what is left of it, and leaves at     *)
(* most the section entered running.                                        *)
LEMMA EnterFacts ==
  ASSUME NEW budgets \in [Sections -> Budget \cup {Null}], NEW active \in Nat,
         NEW s \in Sections, NEW cap \in Nat
  PROVE  LET e == enterSection(budgets, s, cap, active)
         IN  /\ e \in [Sections -> Budget \cup {Null}]
             /\ \A u \in Sections \ {s} : e[u] = pauseAll(budgets, active)[u]
             /\ budgets[s] # Null =>
                  e[s] # Null /\ remainingMs(e[s], active) = remainingMs(budgets[s], active)
<1> DEFINE paused == pauseAll(budgets, active)
           left   == IF paused[s] = Null THEN cap ELSE paused[s].remaining
           opened == [remaining |-> left, since |-> active]
           e      == enterSection(budgets, s, cap, active)
<1>1. /\ paused \in [Sections -> Budget \cup {Null}]
      /\ budgets[s] = Null => paused[s] = Null
      /\ budgets[s] # Null => /\ paused[s] # Null
                              /\ paused[s].remaining = remainingMs(budgets[s], active)
  <2> HIDE DEF left, opened, e
  <2> QED
    BY PauseFacts
<1>2. left \in Nat
  <2> HIDE DEF paused
  <2> QED
    BY <1>1 DEF Budget
<1>3. opened \in Budget /\ opened # Null
  BY <1>2, TimerAssumption DEF Budget
<1>4. e = IF paused[s] = Null /\ cap = 0 THEN paused ELSE [paused EXCEPT ![s] = opened]
  BY DEF enterSection
<1>5. remainingMs(opened, active) = left
  <2>1. active # Null
    BY TimerAssumption
  <2> HIDE DEF left
  <2> QED
    BY <1>2, <2>1 DEF remainingMs, AtLeastZero
<1>6. ASSUME budgets[s] # Null
      PROVE  e[s] # Null /\ remainingMs(e[s], active) = remainingMs(budgets[s], active)
  <2>1. e = [paused EXCEPT ![s] = opened] /\ left = remainingMs(budgets[s], active)
    BY <1>1, <1>4, <1>6
  <2>2. e[s] = opened
    BY <1>1, <2>1
  <2> QED
    BY <1>3, <1>5, <2>1, <2>2
<1> HIDE DEF paused, opened, e
<1>7. e \in [Sections -> Budget \cup {Null}]
  BY <1>1, <1>3, <1>4
<1>8. \A u \in Sections \ {s} : e[u] = paused[u]
  BY <1>1, <1>4
<1> QED
  BY <1>6, <1>7, <1>8 DEF paused, e

-----------------------------------------------------------------------------
(* One ping.                                                                *)

(* advance counts active time forwards, by at most the grace, and leaves the *)
(* budgets alone.                                                           *)
LEMMA AdvanceFacts ==
  ASSUME NEW t \in Timer, NEW now \in Clock
  PROVE  /\ advance(t, now) \in Timer
         /\ advance(t, now).budgets = t.budgets
         /\ t.active <= advance(t, now).active
         /\ advance(t, now).active <= t.active + Grace
<1>1. /\ t.active \in Nat /\ t.lastSeen \in Nat \cup {Null} /\ now \in Nat
      /\ t.budgets \in [Sections -> Budget \cup {Null}]
      /\ Grace \in Nat /\ Null \notin Nat
  BY TimerAssumption DEF Timer, Clock
<1>2. CASE t.lastSeen = Null
  BY <1>1, <1>2 DEF advance, Timer
<1>3. CASE t.lastSeen # Null
  <2> DEFINE elapsed == AtLeastZero(now - t.lastSeen)
             credit  == IF elapsed <= Grace THEN elapsed ELSE Grace
  <2>1. t.lastSeen \in Int
    BY <1>1, <1>3
  <2>2. elapsed \in Nat
    BY <1>1, <2>1 DEF AtLeastZero
  <2>3. credit \in Nat /\ credit <= Grace
    BY <1>1, <2>2
  <2>4. advance(t, now) = [t EXCEPT !.lastSeen = now, !.active = @ + credit]
    BY <1>3 DEF advance
  <2> HIDE DEF credit, elapsed
  <2>5. t.active + credit \in Nat /\ t.active <= t.active + credit /\ t.active + credit <= t.active + Grace
    BY <1>1, <2>3
  <2> DEFINE total == t.active + credit
  <2>6. advance(t, now) = [t EXCEPT !.lastSeen = now, !.active = total]
    BY <2>4
  <2> HIDE DEF total
  <2>7. total \in Nat
    BY <2>5 DEF total
  <2>8. advance(t, now) \in Timer
    BY <2>6, <2>7 DEF Timer
  <2>9. advance(t, now).budgets = t.budgets /\ advance(t, now).active = total
    BY <2>6 DEF Timer
  <2> QED
    BY <2>5, <2>8, <2>9 DEF total
<1> QED
  BY <1>2, <1>3

(* A ping of a typed timer gives a typed timer that extends it and in which  *)
(* at most one section is running.                                          *)
LEMMA ApplyPingFacts ==
  ASSUME NEW t \in Timer, NEW s \in Sections \cup {Nowhere}, NEW cap \in Nat, NEW now \in Clock
  PROVE  /\ applyPing(t, s, cap, now) \in Timer
         /\ OneRunningIn(applyPing(t, s, cap, now))
         /\ Follows(t, applyPing(t, s, cap, now))
<1> DEFINE a == advance(t, now)
           u == applyPing(t, s, cap, now)
<1>1. /\ a \in Timer /\ a.budgets = t.budgets
      /\ t.active <= a.active /\ a.active <= t.active + Grace
      /\ a.active \in Nat /\ t.active \in Nat /\ Grace \in Nat
      /\ t.budgets \in [Sections -> Budget \cup {Null}]
  BY AdvanceFacts, TimerAssumption DEF Timer
<1>2. u = [a EXCEPT !.budgets =
             IF s = Nowhere THEN pauseAll(t.budgets, a.active)
             ELSE enterSection(t.budgets, s, cap, a.active)]
  BY <1>1 DEF applyPing
<1> HIDE DEF a, u
<1>3. u.active = a.active
  BY <1>1, <1>2 DEF Timer
<1>4. /\ u.budgets \in [Sections -> Budget \cup {Null}]
      /\ \A x \in Sections \ {s} : u.budgets[x] = pauseAll(t.budgets, a.active)[x]
      /\ \A x \in Sections : t.budgets[x] # Null =>
           /\ u.budgets[x] # Null
           /\ remainingMs(u.budgets[x], a.active) = remainingMs(t.budgets[x], a.active)
  <2>1. CASE s = Nowhere
    <3>1. u.budgets = pauseAll(t.budgets, a.active)
      BY <1>1, <1>2, <2>1 DEF Timer
    <3> QED
      BY <1>1, <3>1, PauseFacts
  <2>2. CASE s # Nowhere
    <3>1. s \in Sections /\ u.budgets = enterSection(t.budgets, s, cap, a.active)
      BY <1>1, <1>2, <2>2 DEF Timer
    <3>2. /\ u.budgets \in [Sections -> Budget \cup {Null}]
          /\ \A x \in Sections \ {s} : u.budgets[x] = pauseAll(t.budgets, a.active)[x]
          /\ t.budgets[s] # Null =>
               /\ u.budgets[s] # Null
               /\ remainingMs(u.budgets[s], a.active) = remainingMs(t.budgets[s], a.active)
      BY <1>1, <3>1, EnterFacts
    <3>3. \A x \in Sections \ {s} : t.budgets[x] # Null =>
            /\ pauseAll(t.budgets, a.active)[x] # Null
            /\ remainingMs(pauseAll(t.budgets, a.active)[x], a.active)
                 = remainingMs(t.budgets[x], a.active)
      BY <1>1, PauseFacts
    <3> QED
      BY <3>2, <3>3
  <2> QED
    BY <2>1, <2>2
<1>5. u \in Timer
  BY <1>1, <1>2, <1>4 DEF Timer
<1>6. OneRunningIn(u)
  <2>1. \A x \in Sections \ {s} : u.budgets[x] # Null => u.budgets[x].since = Null
    BY <1>1, <1>4, PauseFacts
  <2> QED
    BY <2>1 DEF OneRunningIn
<1>7. Follows(t, u)
  <2> SUFFICES ASSUME NEW x \in Sections, t.budgets[x] # Null
               PROVE  /\ u.budgets[x] # Null
                      /\ Left(u, x) <= Left(t, x)
                      /\ Left(t, x) - Left(u, x)
                           <= IF t.budgets[x].since = Null THEN 0 ELSE Grace
    BY DEF Follows
  <2>1. t.budgets[x] \in Budget
    BY <1>1
  <2>2. u.budgets[x] # Null /\ Left(u, x) = remainingMs(t.budgets[x], a.active)
    BY <1>3, <1>4 DEF Left
  <2>3. /\ remainingMs(t.budgets[x], a.active) <= remainingMs(t.budgets[x], t.active)
        /\ remainingMs(t.budgets[x], t.active) - remainingMs(t.budgets[x], a.active)
             <= IF t.budgets[x].since = Null THEN 0 ELSE a.active - t.active
    BY <1>1, <2>1, RemainingShrinks
  <2>4. remainingMs(t.budgets[x], a.active) \in Nat /\ remainingMs(t.budgets[x], t.active) \in Nat
    BY <1>1, <2>1, RemainingType
  <2> QED
    BY <1>1, <2>2, <2>3, <2>4 DEF Left
<1> QED
  BY <1>5, <1>6, <1>7 DEF u

-----------------------------------------------------------------------------
(* Any number of pings in flight.                                           *)

(* Whatever is stored, or about to be, runs at most one section.            *)
RunningInv == OneRunningIn(timer) /\ \A p \in Pings : OneRunningIn(ping[p].next)

(* An empty timer is a timer, and runs nothing. *)
LEMMA EmptyFacts == EmptyTimer \in Timer /\ OneRunningIn(EmptyTimer) /\ IdlePing \in Ping
<1>1. EmptyTimer \in Timer /\ OneRunningIn(EmptyTimer)
  BY DEF EmptyTimer, Timer, OneRunningIn
<1> QED
  BY <1>1 DEF IdlePing, Ping

(* What a ping that has read the row is about to write.                     *)
LEMMA ReadFacts ==
  ASSUME TypeOK, NEW p \in Pings, PingRead(p)
  PROVE  /\ ping'[p] \in Ping
         /\ timer' = timer
         /\ \A q \in Pings : q # p => ping'[q] = ping[q]
         /\ \/ ping'[p] = IdlePing
            \/ /\ ping'[p].pc = "write"
               /\ OneRunningIn(ping'[p].next)
               /\ Follows(timer, ping'[p].next)
<1> DEFINE next == applyPing(timer, ping[p].section, ping[p].limit, clock)
           told == [IdlePing EXCEPT !.pc = "write", !.next = next]
<1>1. /\ timer \in Timer /\ clock \in Clock /\ ping[p] \in Ping
      /\ ping[p].section \in Sections \cup {Nowhere} /\ ping[p].limit \in Nat
  BY DEF TypeOK, Ping
<1>2. next \in Timer /\ OneRunningIn(next) /\ Follows(timer, next)
  <2> DEFINE s == ping[p].section
             cap == ping[p].limit
  <2>1. s \in Sections \cup {Nowhere} /\ cap \in Nat
    BY <1>1
  <2> HIDE DEF s, cap
  <2>2. /\ applyPing(timer, s, cap, clock) \in Timer
        /\ OneRunningIn(applyPing(timer, s, cap, clock))
        /\ Follows(timer, applyPing(timer, s, cap, clock))
    BY <1>1, <2>1, ApplyPingFacts
  <2> QED
    BY <2>2 DEF s, cap
<1>3. /\ ping' = [ping EXCEPT ![p] = IF finished THEN IdlePing ELSE told]
      /\ timer' = timer
  BY DEF PingRead
<1> HIDE DEF next
<1>4. told \in Ping /\ told.pc = "write" /\ told.next = next
  BY <1>2, EmptyFacts DEF Ping, IdlePing
<1> HIDE DEF told
<1>5. ping'[p] = IF finished THEN IdlePing ELSE told
  BY <1>3 DEF TypeOK
<1>6. \A q \in Pings : q # p => ping'[q] = ping[q]
  BY <1>3 DEF TypeOK
<1> QED
  BY <1>2, <1>3, <1>4, <1>5, <1>6, EmptyFacts

(* A ping that has just been received carries an empty state.               *)
LEMMA LimitFacts ==
  ASSUME TypeOK, NEW p \in Pings, PingLimit(p)
  PROVE  /\ ping'[p] \in Ping /\ ping'[p].next = EmptyTimer /\ ping'[p].pc = "read"
         /\ timer' = timer
         /\ \A q \in Pings : q # p => ping'[q] = ping[q]
<1>1. PICK s \in Sections \cup {Nowhere} :
        ping' = [ping EXCEPT ![p] = [pc |-> "read", section |-> s, next |-> EmptyTimer,
                                     limit |-> IF s = Nowhere THEN 0 ELSE limit[s]]]
  BY DEF PingLimit
<1> DEFINE cap == IF s = Nowhere THEN 0 ELSE limit[s]
<1>2. cap \in Nat
  BY TimerAssumption DEF TypeOK
<1> HIDE DEF cap
<1>3. [pc |-> "read", section |-> s, next |-> EmptyTimer, limit |-> cap] \in Ping
  BY <1>2, EmptyFacts DEF Ping
<1>4. ping' = [ping EXCEPT ![p] = [pc |-> "read", section |-> s, next |-> EmptyTimer, limit |-> cap]]
  BY <1>1 DEF cap
<1> QED
  BY <1>3, <1>4 DEF PingLimit, TypeOK

(* pingSection, Finish, the clock: every variable keeps its type, whatever   *)
(* number of pings is in flight.                                            *)
THEOREM TypeCorrect == Spec => []TypeOK
<1>1. Init => TypeOK
  <2>1. 0 \in Clock
    BY TimerAssumption DEF Clock
  <2> QED
    BY <2>1, EmptyFacts DEF Init, TypeOK
<1>2. TypeOK /\ [Next]_vars => TypeOK'
  <2> SUFFICES ASSUME TypeOK, [Next]_vars PROVE TypeOK'
    OBVIOUS
  <2>1. ASSUME NEW p \in Pings, PingRead(p) \/ PingLimit(p) PROVE TypeOK'
    <3>1. ping'[p] \in Ping /\ \A q \in Pings : q # p => ping'[q] = ping[q]
      BY <2>1, ReadFacts, LimitFacts
    <3>2. ping' = [q \in Pings |-> ping'[q]]
      BY <2>1 DEF TypeOK, PingRead, PingLimit
    <3>3. ping' \in [Pings -> Ping]
      BY <3>1, <3>2 DEF TypeOK
    <3> QED
      BY <2>1, <3>3 DEF TypeOK, PingRead, PingLimit
  <2>2. ASSUME NEW p \in Pings, PingWrite(p) PROVE TypeOK'
    <3>1. ping[p].next \in Timer
      BY DEF TypeOK, Ping
    <3>2. \A s \in Sections : ping[p].next.budgets[s] # Null => ping[p].next.budgets[s].remaining \in Nat
      BY <3>1 DEF Timer, Budget
    <3>3. granted' \in [Sections -> Nat \cup {Null}]
      BY <2>2, <3>2 DEF TypeOK, PingWrite
    <3>4. ping' \in [Pings -> Ping]
      BY <2>2, EmptyFacts DEF TypeOK, PingWrite
    <3> QED
      BY <2>2, <3>1, <3>3, <3>4 DEF TypeOK, PingWrite
  <2>6. CASE EditLimits
    BY <2>6 DEF TypeOK, EditLimits
  <2>3. CASE Finish
    BY <2>3 DEF TypeOK, Finish
  <2>4. CASE ClockMoves
    BY <2>4 DEF TypeOK, ClockMoves
  <2>5. CASE UNCHANGED vars
    BY <2>5 DEF TypeOK, vars
  <2> QED
    BY <2>1, <2>2, <2>3, <2>4, <2>5, <2>6 DEF Next
<1> QED
  BY <1>1, <1>2, PTL DEF Spec

LEMMA RunningAlways == Spec => []RunningInv
<1>1. Init => RunningInv
  BY EmptyFacts DEF Init, RunningInv, IdlePing
<1>2. TypeOK /\ RunningInv /\ [Next]_vars => RunningInv'
  <2> SUFFICES ASSUME TypeOK, RunningInv, [Next]_vars PROVE RunningInv'
    OBVIOUS
  <2>1. ASSUME NEW p \in Pings, PingRead(p) \/ PingLimit(p) PROVE RunningInv'
    <3>1. timer' = timer /\ OneRunningIn(ping'[p].next) /\ \A q \in Pings : q # p => ping'[q] = ping[q]
      BY <2>1, ReadFacts, LimitFacts, EmptyFacts DEF IdlePing
    <3> QED
      BY <3>1 DEF RunningInv
  <2>2. ASSUME NEW p \in Pings, PingWrite(p) PROVE RunningInv'
    <3>1. \A q \in Pings : ping'[q].next = IF q = p THEN EmptyTimer ELSE ping[q].next
      BY <2>2 DEF TypeOK, PingWrite, IdlePing
    <3> QED
      BY <2>2, <3>1, EmptyFacts DEF RunningInv, PingWrite
  <2>3. CASE Finish
    BY <2>3 DEF RunningInv, Finish
  <2>4. CASE ClockMoves
    BY <2>4 DEF RunningInv, ClockMoves
  <2>6. CASE EditLimits
    BY <2>6 DEF RunningInv, EditLimits
  <2>5. CASE UNCHANGED vars
    BY <2>5 DEF RunningInv, vars
  <2> QED
    BY <2>1, <2>2, <2>3, <2>4, <2>5, <2>6 DEF Next
<1> QED
  BY <1>1, <1>2, TypeCorrect, PTL DEF Spec

(* section-budget.ts, rule 1: the countdown runs in one section at a time,   *)
(* even when pings of several tabs overwrite each other's state.            *)
THEOREM OneSectionRuns == Spec => []OneRunning
<1>1. RunningInv => OneRunning
  BY DEF RunningInv, OneRunningIn, OneRunning
<1> QED
  BY <1>1, RunningAlways, PTL

-----------------------------------------------------------------------------
(* Pings one at a time.                                                     *)

(* What the ping in flight will write extends what is stored.               *)
FollowsInv == \A p \in Pings : ping[p].pc = "write" => Follows(timer, ping[p].next)

(* Nothing happening is the least a timer can be extended by. *)
LEMMA FollowsReflexive ==
  ASSUME NEW t \in Timer
  PROVE  Follows(t, t)
<1> SUFFICES ASSUME NEW s \in Sections, t.budgets[s] # Null
             PROVE  /\ Left(t, s) <= Left(t, s)
                    /\ Left(t, s) - Left(t, s) <= IF t.budgets[s].since = Null THEN 0 ELSE Grace
  BY DEF Follows
<1>1. Left(t, s) \in Nat
  BY RemainingType DEF Left, Timer
<1> QED
  BY <1>1, TimerAssumption

(* A step that writes at most what the one ping in flight computed extends   *)
(* the stored timer.                                                        *)
LEMMA StepFollows ==
  ASSUME TypeOK, FollowsInv, [Next]_vars
  PROVE  Follows(timer, timer')
<1>1. CASE UNCHANGED timer
  BY <1>1, FollowsReflexive DEF TypeOK
<1>2. ASSUME NEW p \in Pings, PingWrite(p) PROVE Follows(timer, timer')
  BY <1>2 DEF FollowsInv, PingWrite
<1> QED
  BY <1>1, <1>2 DEF Next, PingLimit, PingRead, EditLimits, Finish, ClockMoves, vars

(* The invariant is kept as long as nobody writes behind a ping's back.     *)
LEMMA FollowsInductive ==
  ASSUME \A p, q \in Pings : p = q, TypeOK, FollowsInv, [Next]_vars
  PROVE  FollowsInv'
<1>1. ASSUME NEW p \in Pings, PingRead(p) \/ PingLimit(p) PROVE FollowsInv'
  <2>1. /\ timer' = timer
        /\ ping'[p].pc = "write" => Follows(timer, ping'[p].next)
        /\ \A q \in Pings : q # p => ping'[q] = ping[q]
    BY <1>1, ReadFacts, LimitFacts DEF IdlePing
  <2> QED
    BY <2>1 DEF FollowsInv
<1>2. ASSUME NEW p \in Pings, PingWrite(p) PROVE FollowsInv'
  BY <1>2 DEF FollowsInv, PingWrite, TypeOK, IdlePing
<1>3. CASE UNCHANGED <<timer, ping>>
  BY <1>3 DEF FollowsInv
<1> QED
  BY <1>1, <1>2, <1>3 DEF Next, EditLimits, Finish, ClockMoves, vars

(* section-budget.ts, rule 2: leaving a section, returning, closing the tab  *)
(* or a clock set back never gives time back.                               *)
THEOREM TimeNeverReturns ==
  ASSUME \A p, q \in Pings : p = q
  PROVE  Spec => NoTimeBack
<1>1. Init => FollowsInv
  BY DEF Init, FollowsInv, IdlePing
<1>2. TypeOK /\ FollowsInv /\ [Next]_vars => FollowsInv'
  BY FollowsInductive
<1>3. TypeOK /\ FollowsInv /\ [Next]_vars =>
        [\A s \in Sections :
           timer.budgets[s] # Null =>
             /\ timer'.budgets[s] # Null
             /\ Left(timer', s) <= Left(timer, s)]_vars
  BY StepFollows DEF Follows
<1> QED
  BY <1>1, <1>2, <1>3, TypeCorrect, PTL DEF Spec, NoTimeBack

(* section-budget.ts, rule 3: a spent section stays locked.                  *)
THEOREM SpentStaysLocked ==
  ASSUME \A p, q \in Pings : p = q
  PROVE  Spec => SpentStaysSpent
<1>1. Init => FollowsInv
  BY DEF Init, FollowsInv, IdlePing
<1>2. TypeOK /\ FollowsInv /\ [Next]_vars => FollowsInv'
  BY FollowsInductive
<1>3. TypeOK /\ FollowsInv /\ [Next]_vars =>
        [spentTopics(timer.budgets, timer.active)
           \subseteq spentTopics(timer'.budgets, timer'.active)]_vars
  <2> SUFFICES ASSUME TypeOK, FollowsInv, [Next]_vars, NEW s \in Sections,
                      isSpent(timer.budgets, s, timer.active)
               PROVE  isSpent(timer'.budgets, s, timer'.active)
    BY DEF spentTopics
  <2>1. /\ timer.budgets[s] # Null /\ Left(timer, s) = 0
        /\ timer'.budgets[s] # Null /\ Left(timer', s) <= Left(timer, s)
    BY StepFollows DEF Follows, isSpent, Left
  <2>2. timer' \in Timer
    <3>1. ASSUME NEW p \in Pings, PingWrite(p) PROVE timer' \in Timer
      BY <3>1 DEF TypeOK, PingWrite, Ping
    <3> QED
      BY <3>1 DEF TypeOK, Next, PingLimit, PingRead, EditLimits, Finish, ClockMoves, vars
  <2>3. Left(timer', s) \in Nat
    BY <2>1, <2>2, RemainingType DEF Left, Timer
  <2> QED
    BY <2>1, <2>3 DEF isSpent, Left
<1> QED
  BY <1>1, <1>2, <1>3, TypeCorrect, PTL DEF Spec, SpentStaysSpent

(* GRACE_MS: silence costs at most the grace, and only the section the       *)
(* learner was last seen in.                                                *)
THEOREM SilenceIsCheap ==
  ASSUME \A p, q \in Pings : p = q
  PROVE  Spec => SilenceCostsGrace
<1>1. Init => FollowsInv
  BY DEF Init, FollowsInv, IdlePing
<1>2. TypeOK /\ FollowsInv /\ [Next]_vars => FollowsInv'
  BY FollowsInductive
<1>3. TypeOK /\ FollowsInv /\ [Next]_vars =>
        [\A s \in Sections :
           timer.budgets[s] # Null =>
             Left(timer, s) - Left(timer', s) <=
               IF timer.budgets[s].since = Null THEN 0 ELSE Grace]_vars
  BY StepFollows DEF Follows
<1> QED
  BY <1>1, <1>2, <1>3, TypeCorrect, PTL DEF Spec, SilenceCostsGrace

-----------------------------------------------------------------------------
(* Sums over the sections.                                                  *)

(* f[S] is what the sections of S count together, c[s] being the share of   *)
(* section s.                                                               *)
SumOf(f, c, S) ==
  IF S = {} THEN 0
  ELSE LET s == CHOOSE x \in S : TRUE IN f[S \ {s}] + c[s]

Sums(f, c) == f = [S \in SUBSET Sections |-> SumOf(f, c, S)]

(* A set of natural numbers that is not empty has a least element.          *)
LEMMA LeastExists ==
  ASSUME NEW B \in SUBSET Nat, B # {}
  PROVE  \E n \in B : \A k \in B : n <= k
<1>1. PICK n \in B : \A k \in B : ~ (<<k, n>> \in OpToRel(<, Nat))
  BY NatLessThanWellFounded, WFMin
<1>2. \A k \in B : ~ (k < n)
  BY <1>1 DEF OpToRel
<1>3. \A k \in B : k \in Nat /\ n \in Nat
  OBVIOUS
<1> QED
  BY <1>2, <1>3

(* A non-empty set of sections and what is left without its chosen member.  *)
LEMMA OneLess ==
  ASSUME IsFiniteSet(Sections), NEW S \in SUBSET Sections
  PROVE  /\ IsFiniteSet(S) /\ Cardinality(S) \in Nat
         /\ S # {} => LET s == CHOOSE x \in S : TRUE
                      IN  /\ s \in S /\ s \in Sections /\ S \ {s} \in SUBSET Sections
                          /\ Cardinality(S \ {s}) = Cardinality(S) - 1
                          /\ Cardinality(S) > 0
         /\ Cardinality(S) = 0 <=> S = {}
<1>1. IsFiniteSet(S) /\ Cardinality(S) \in Nat
  BY FS_Subset, FS_CardinalityType
<1>2. Cardinality(S) = 0 <=> S = {}
  BY <1>1, FS_EmptySet
<1>3. ASSUME S # {}
      PROVE  LET s == CHOOSE x \in S : TRUE
             IN  /\ s \in S /\ s \in Sections /\ S \ {s} \in SUBSET Sections
                 /\ Cardinality(S \ {s}) = Cardinality(S) - 1
                 /\ Cardinality(S) > 0
  <2> DEFINE s == CHOOSE x \in S : TRUE
  <2>1. s \in S
    BY <1>3
  <2> HIDE DEF s
  <2>2. Cardinality(S \ {s}) = Cardinality(S) - 1
    BY <1>1, <2>1, FS_RemoveElement
  <2>3. Cardinality(S) > 0
    BY <1>1, <1>2, <1>3
  <2> QED
    BY <2>1, <2>2, <2>3 DEF s
<1> QED
  BY <1>1, <1>2, <1>3

(* Shares can be summed.                                                    *)
LEMMA SumExists ==
  ASSUME IsFiniteSet(Sections), NEW c \in [Sections -> Int]
  PROVE  \E f : Sums(f, c)
<1> DEFINE UpTo(f, k) ==
             \A S \in SUBSET Sections : Cardinality(S) <= k => f[S] = SumOf(f, c, S)
           Bad == {k \in Nat : ~ \E f \in [SUBSET Sections -> Int] : UpTo(f, k)}
<1>1. \E f \in [SUBSET Sections -> Int] : UpTo(f, 0)
  <2> DEFINE f == [S \in SUBSET Sections |-> 0]
  <2>1. f \in [SUBSET Sections -> Int]
    OBVIOUS
  <2>2. \A S \in SUBSET Sections : Cardinality(S) <= 0 => S = {}
    <3> SUFFICES ASSUME NEW S \in SUBSET Sections, Cardinality(S) <= 0 PROVE S = {}
      OBVIOUS
    <3>1. Cardinality(S) \in Nat /\ (Cardinality(S) = 0 <=> S = {})
      BY OneLess
    <3> QED
      BY <3>1
  <2>3. UpTo(f, 0)
    <3> SUFFICES ASSUME NEW S \in SUBSET Sections, Cardinality(S) <= 0
                 PROVE  f[S] = SumOf(f, c, S)
      OBVIOUS
    <3>1. S = {} /\ f[S] = 0
      BY <2>2
    <3> QED
      BY <3>1 DEF SumOf
  <2> HIDE DEF f, UpTo
  <2> QED
    BY <2>1, <2>3
<1>2. ASSUME NEW k \in Nat, NEW f \in [SUBSET Sections -> Int], UpTo(f, k)
      PROVE  \E g \in [SUBSET Sections -> Int] : UpTo(g, k + 1)
  <2> DEFINE g == [S \in SUBSET Sections |-> IF Cardinality(S) <= k THEN f[S] ELSE SumOf(f, c, S)]
  <2>1. \A S \in SUBSET Sections : SumOf(f, c, S) \in Int
    <3> SUFFICES ASSUME NEW S \in SUBSET Sections, S # {} PROVE SumOf(f, c, S) \in Int
      BY DEF SumOf
    <3> DEFINE s == CHOOSE x \in S : TRUE
    <3>1. s \in Sections /\ S \ {s} \in SUBSET Sections
      BY OneLess
    <3>2. SumOf(f, c, S) = f[S \ {s}] + c[s]
      BY DEF SumOf
    <3> HIDE DEF s
    <3>3. f[S \ {s}] \in Int /\ c[s] \in Int
      BY <3>1
    <3> QED
      BY <3>2, <3>3
  <2>2. g \in [SUBSET Sections -> Int]
    <3> HIDE DEF UpTo
    <3> QED
      BY <2>1
  <2>3. \A S \in SUBSET Sections : g[S] = SumOf(f, c, S) \/ ~ (Cardinality(S) <= k + 1)
    <3> SUFFICES ASSUME NEW S \in SUBSET Sections PROVE g[S] = SumOf(f, c, S)
      OBVIOUS
    <3>1. CASE Cardinality(S) <= k
      BY <1>2, <3>1
    <3>2. CASE ~ (Cardinality(S) <= k)
      BY <3>2
    <3> QED
      BY <3>1, <3>2
  <2>4. \A S \in SUBSET Sections : Cardinality(S) <= k + 1 => SumOf(g, c, S) = SumOf(f, c, S)
    <3> SUFFICES ASSUME NEW S \in SUBSET Sections, Cardinality(S) <= k + 1, S # {}
                 PROVE  SumOf(g, c, S) = SumOf(f, c, S)
      BY DEF SumOf
    <3> DEFINE s == CHOOSE x \in S : TRUE
    <3>1. S \ {s} \in SUBSET Sections /\ Cardinality(S \ {s}) <= k
      <4>1. Cardinality(S \ {s}) = Cardinality(S) - 1 /\ Cardinality(S) \in Nat
        BY OneLess
      <4> HIDE DEF s
      <4> QED
        BY <4>1
    <3>2. g[S \ {s}] = f[S \ {s}]
      <4> HIDE DEF s
      <4> QED
        BY <3>1
    <3> HIDE DEF g
    <3> QED
      BY <3>2 DEF SumOf
  <2>5. UpTo(g, k + 1)
    <3> HIDE DEF g
    <3> QED
      BY <2>3, <2>4
  <2> HIDE DEF g, UpTo
  <2> QED
    BY <2>2, <2>5
<1>3. Bad = {}
  <2> SUFFICES ASSUME Bad # {} PROVE FALSE
    OBVIOUS
  <2>1. Bad \in SUBSET Nat
    OBVIOUS
  <2>2. PICK n \in Bad : \A k \in Bad : n <= k
    <3> HIDE DEF Bad
    <3> QED
      BY <2>1, LeastExists
  <2> HIDE DEF UpTo
  <2>3. n \in Nat /\ n # 0
    BY <1>1
  <2>4. n - 1 \in Nat /\ n - 1 \notin Bad
    <3>1. n - 1 \in Nat /\ ~ (n <= n - 1)
      BY <2>3
    <3> HIDE DEF Bad
    <3> QED
      BY <2>2, <3>1
  <2>5. PICK f \in [SUBSET Sections -> Int] : UpTo(f, n - 1)
    BY <2>4
  <2>6. \E g \in [SUBSET Sections -> Int] : UpTo(g, (n - 1) + 1)
    BY <1>2, <2>4, <2>5
  <2>7. (n - 1) + 1 = n
    BY <2>3
  <2> QED
    BY <2>6, <2>7
<1>4. Cardinality(Sections) \in Nat
  BY FS_CardinalityType
<1>5. PICK f \in [SUBSET Sections -> Int] : UpTo(f, Cardinality(Sections))
  <2> HIDE DEF UpTo
  <2> QED
    BY <1>3, <1>4
<1>6. \A S \in SUBSET Sections : f[S] = SumOf(f, c, S)
  BY <1>5, FS_Subset
<1> QED
  BY <1>6 DEF Sums

(* When one section's share grows by at most n and no other's grows, so     *)
(* does the sum.                                                            *)
LEMMA SumGrows ==
  ASSUME IsFiniteSet(Sections), NEW c \in [Sections -> Int], NEW d \in [Sections -> Int],
         NEW f, Sums(f, c), NEW g, Sums(g, d), NEW n \in Nat, NEW z,
         \A s \in Sections : d[s] <= c[s] + (IF s = z THEN n ELSE 0)
  PROVE  f[Sections] \in Int /\ g[Sections] \in Int /\ g[Sections] <= f[Sections] + n
<1> DEFINE extra(S) == IF z \in S THEN n ELSE 0
           good(S)  == f[S] \in Int /\ g[S] \in Int /\ g[S] <= f[S] + extra(S)
           Bad      == {Cardinality(S) : S \in {T \in SUBSET Sections : ~ good(T)}}
<1>1. \A S \in SUBSET Sections : f[S] = SumOf(f, c, S) /\ g[S] = SumOf(g, d, S)
  <2>1. f = [S \in SUBSET Sections |-> SumOf(f, c, S)] /\ g = [S \in SUBSET Sections |-> SumOf(g, d, S)]
    BY DEF Sums
  <2> QED
    BY <2>1, Zenon
<1>2. \A S \in SUBSET Sections : good(S)
  <2> SUFFICES ASSUME NEW S0 \in SUBSET Sections, ~ good(S0) PROVE FALSE
    OBVIOUS
  <2>1. Bad \in SUBSET Nat /\ Bad # {}
    <3>1. \A S \in SUBSET Sections : Cardinality(S) \in Nat
      BY OneLess
    <3> HIDE DEF good
    <3>2. Cardinality(S0) \in Bad
      OBVIOUS
    <3> QED
      BY <3>1, <3>2
  <2>2. PICK k \in Bad : \A j \in Bad : k <= j
    <3> HIDE DEF Bad
    <3> QED
      BY <2>1, LeastExists
  <2>3. PICK S \in SUBSET Sections : ~ good(S) /\ k = Cardinality(S)
    <3> HIDE DEF good
    <3> QED
      OBVIOUS
  <2>4. S # {}
    <3> SUFFICES ASSUME S = {} PROVE good(S)
      BY <2>3
    <3>1. f[S] = 0 /\ g[S] = 0
      BY <1>1 DEF SumOf
    <3> QED
      BY <3>1
  <2> DEFINE s == CHOOSE x \in S : TRUE
             R == S \ {s}
  <2>5. /\ s \in S /\ s \in Sections /\ R \in SUBSET Sections
        /\ Cardinality(R) = Cardinality(S) - 1 /\ Cardinality(S) \in Nat
    BY <2>4, OneLess
  <2>6. f[S] = f[R] + c[s] /\ g[S] = g[R] + d[s]
    BY <1>1, <2>4 DEF SumOf
  <2>7. s \notin R /\ \A x \in S : x = s \/ x \in R
    OBVIOUS
  <2> HIDE DEF s, R
  <2>8. good(R)
    <3> SUFFICES ASSUME ~ good(R) PROVE FALSE
      OBVIOUS
    <3>1. Cardinality(R) \in Bad
      <4> HIDE DEF good
      <4> QED
        BY <2>5
    <3> HIDE DEF Bad, good
    <3> QED
      BY <2>2, <2>3, <2>5, <3>1
  <2>9. extra(S) = extra(R) + (IF s = z THEN n ELSE 0)
    <3>1. z \in S <=> (s = z \/ z \in R)
      BY <2>5, <2>7, <2>4 DEF R
    <3>2. s = z => z \notin R
      BY <2>7
    <3> QED
      BY <3>1, <3>2
  <2>10. good(S)
    <3>1. extra(R) \in Nat /\ (IF s = z THEN n ELSE 0) \in Nat
      OBVIOUS
    <3>2. c[s] \in Int /\ d[s] \in Int /\ d[s] <= c[s] + (IF s = z THEN n ELSE 0)
      BY <2>5
    <3>3. f[R] \in Int /\ g[R] \in Int /\ g[R] <= f[R] + extra(R)
      BY <2>8
    <3> DEFINE m == IF s = z THEN n ELSE 0
               e == extra(R)
    <3>4. extra(S) = e + m /\ m \in Nat /\ e \in Nat
      BY <2>9, <3>1
    <3>5. d[s] <= c[s] + m /\ g[R] <= f[R] + e
      BY <3>2, <3>3
    <3> HIDE DEF extra, m, e
    <3>6. g[R] + d[s] <= f[R] + c[s] + (e + m)
      BY <3>2, <3>3, <3>4, <3>5
    <3>7. f[R] + c[s] \in Int /\ g[R] + d[s] \in Int
      BY <3>2, <3>3
    <3> QED
      BY <2>6, <3>4, <3>6, <3>7
  <2> QED
    BY <2>3, <2>10
<1>3. z \in Sections \/ z \notin Sections
  OBVIOUS
<1>4. good(Sections)
  BY <1>2
<1>5. extra(Sections) <= n
  OBVIOUS
<1>6. extra(Sections) \in Nat
  OBVIOUS
<1> HIDE DEF extra
<1> QED
  BY <1>4, <1>5, <1>6

-----------------------------------------------------------------------------
(* What the sections have lost.                                             *)

(* The share of each section, and Charged, of any history g and timer t.    *)
Share(g, t) == [s \in Sections |-> IF t.budgets[s] = Null THEN 0 ELSE g[s] - Left(t, s)]

ChargedOf(g, t) ==
  LET used[S \in SUBSET Sections] ==
        IF S = {} THEN 0
        ELSE LET s == CHOOSE x \in S : TRUE
             IN  used[S \ {s}] + (IF t.budgets[s] = Null THEN 0 ELSE g[s] - Left(t, s))
  IN  used[Sections]

Granted(g, t) == \A s \in Sections : t.budgets[s] # Null => g[s] \in Nat

LEMMA ShareType ==
  ASSUME NEW t \in Timer, NEW g \in [Sections -> Nat \cup {Null}], Granted(g, t)
  PROVE  Share(g, t) \in [Sections -> Int]
<1> SUFFICES ASSUME NEW s \in Sections, t.budgets[s] # Null
             PROVE  g[s] - Left(t, s) \in Int
  BY DEF Share
<1>1. t.budgets[s] \in Budget /\ t.active \in Nat
  BY DEF Timer
<1>2. Left(t, s) \in Nat
  BY <1>1, RemainingType DEF Left
<1> QED
  BY <1>2 DEF Granted

(* Charged is the sum of the shares. *)
LEMMA ChargedIsSum ==
  ASSUME NEW t \in Timer, NEW g \in [Sections -> Nat \cup {Null}], Granted(g, t)
  PROVE  \E f : Sums(f, Share(g, t)) /\ ChargedOf(g, t) = f[Sections]
<1> DEFINE share(s) == IF t.budgets[s] = Null THEN 0 ELSE g[s] - Left(t, s)
           Is(f) == f = [S \in SUBSET Sections |->
                           IF S = {} THEN 0
                           ELSE LET s == CHOOSE x \in S : TRUE IN f[S \ {s}] + share(s)]
           used == CHOOSE f : Is(f)
<1>1. \A f : Is(f) <=> Sums(f, Share(g, t))
  <2> TAKE f
  <2> DEFINE body(S) == IF S = {} THEN 0
                        ELSE LET s == CHOOSE x \in S : TRUE IN f[S \ {s}] + share(s)
  <2>1. \A S \in SUBSET Sections : body(S) = SumOf(f, Share(g, t), S)
    <3> SUFFICES ASSUME NEW S \in SUBSET Sections, S # {}
                 PROVE  body(S) = SumOf(f, Share(g, t), S)
      BY DEF SumOf
    <3> DEFINE s == CHOOSE x \in S : TRUE
    <3>1. s \in Sections
      BY OneLess, TimerAssumption
    <3> HIDE DEF s
    <3>2. Share(g, t)[s] = share(s)
      BY <3>1 DEF Share
    <3>3. body(S) = f[S \ {s}] + share(s)
      BY DEF s
    <3>4. SumOf(f, Share(g, t), S) = f[S \ {s}] + Share(g, t)[s]
      BY DEF SumOf, s
    <3> QED
      BY <3>2, <3>3, <3>4
  <2>2. Is(f) <=> f = [S \in SUBSET Sections |-> body(S)]
    OBVIOUS
  <2> HIDE DEF body, Is
  <2>3. [S \in SUBSET Sections |-> body(S)] = [S \in SUBSET Sections |-> SumOf(f, Share(g, t), S)]
    BY <2>1
  <2> QED
    BY <2>2, <2>3 DEF Sums
<1>2. ChargedOf(g, t) = used[Sections]
  BY DEF ChargedOf
<1>3. \E f : Is(f)
  <2> HIDE DEF Is
  <2> QED
    BY <1>1, ShareType, SumExists, TimerAssumption
<1>4. Is(used)
  <2> HIDE DEF Is
  <2> QED
    BY <1>3
<1> HIDE DEF Is, used
<1> QED
  BY <1>1, <1>2, <1>4

(* Timer u costs no more than the active time it has counted since t: only  *)
(* a running section loses, and a budget just opened has lost nothing.      *)
Costs(t, u) ==
  /\ t.active <= u.active
  /\ \A s \in Sections :
       IF t.budgets[s] # Null
       THEN /\ u.budgets[s] # Null
            /\ Left(t, s) - Left(u, s)
                 <= IF t.budgets[s].since = Null THEN 0 ELSE u.active - t.active
       ELSE u.budgets[s] # Null => Left(u, s) = u.budgets[s].remaining

(* A ping costs no more than the time it counts.                            *)
LEMMA ApplyPingCosts ==
  ASSUME NEW t \in Timer, NEW s \in Sections \cup {Nowhere}, NEW cap \in Nat, NEW now \in Clock
  PROVE  Costs(t, applyPing(t, s, cap, now))
<1> DEFINE a == advance(t, now)
           u == applyPing(t, s, cap, now)
           paused == pauseAll(t.budgets, a.active)
<1>1. /\ a \in Timer /\ a.budgets = t.budgets /\ t.active <= a.active
      /\ a.active \in Nat /\ t.active \in Nat
      /\ t.budgets \in [Sections -> Budget \cup {Null}]
  BY AdvanceFacts DEF Timer
<1>2. u = [a EXCEPT !.budgets =
             IF s = Nowhere THEN paused
             ELSE enterSection(t.budgets, s, cap, a.active)]
  BY <1>1 DEF applyPing
<1>3. /\ paused \in [Sections -> Budget \cup {Null}]
      /\ \A x \in Sections :
           IF t.budgets[x] = Null THEN paused[x] = Null
           ELSE paused[x] # Null /\ remainingMs(paused[x], a.active) = remainingMs(t.budgets[x], a.active)
  <2> DEFINE n == a.active
  <2>1. n \in Nat
    BY <1>1
  <2> HIDE DEF n, a
  <2>2. /\ pauseAll(t.budgets, n) \in [Sections -> Budget \cup {Null}]
        /\ \A x \in Sections :
             IF t.budgets[x] = Null THEN pauseAll(t.budgets, n)[x] = Null
             ELSE /\ pauseAll(t.budgets, n)[x] # Null
                  /\ remainingMs(pauseAll(t.budgets, n)[x], n) = remainingMs(t.budgets[x], n)
    BY <1>1, <2>1, PauseFacts
  <2> QED
    BY <2>2 DEF n
<1>4. u.active = a.active /\ u \in Timer
  <2>1. u \in Timer
    BY ApplyPingFacts
  <2> HIDE DEF paused, a, u
  <2> QED
    BY <1>1, <1>2, <2>1 DEF Timer
<1>5. \A x \in Sections :
        IF t.budgets[x] # Null
        THEN u.budgets[x] # Null /\ Left(u, x) = remainingMs(t.budgets[x], a.active)
        ELSE u.budgets[x] # Null => Left(u, x) = u.budgets[x].remaining
  <2>1. CASE s = Nowhere
    <3>1. u.budgets = paused
      <4> HIDE DEF paused, a, u
      <4> QED
        BY <1>1, <1>2, <2>1 DEF Timer
    <3> HIDE DEF paused, a, u
    <3> QED
      BY <1>3, <1>4, <3>1 DEF Left
  <2>2. CASE s # Nowhere
    <3> DEFINE e == enterSection(t.budgets, s, cap, a.active)
    <3>1. s \in Sections /\ u.budgets = e
      <4> HIDE DEF paused, a, u, e
      <4>1. enterSection(t.budgets, s, cap, a.active) = e
        BY DEF e
      <4> QED
        BY <1>1, <1>2, <2>2, <4>1 DEF Timer
    <3>2. /\ \A x \in Sections \ {s} : e[x] = paused[x]
          /\ t.budgets[s] # Null =>
               e[s] # Null /\ remainingMs(e[s], a.active) = remainingMs(t.budgets[s], a.active)
      <4> DEFINE n == a.active
      <4>1. n \in Nat
        BY <1>1
      <4> HIDE DEF n, a
      <4>2. /\ \A x \in Sections \ {s} : enterSection(t.budgets, s, cap, n)[x] = pauseAll(t.budgets, n)[x]
            /\ t.budgets[s] # Null =>
                 /\ enterSection(t.budgets, s, cap, n)[s] # Null
                 /\ remainingMs(enterSection(t.budgets, s, cap, n)[s], n) = remainingMs(t.budgets[s], n)
        BY <1>1, <3>1, <4>1, EnterFacts
      <4> QED
        BY <4>2 DEF n
    <3>3. ASSUME t.budgets[s] = Null, e[s] # Null
          PROVE  remainingMs(e[s], a.active) = e[s].remaining
      <4> DEFINE n == a.active
      <4>1. n \in Nat /\ n # Null
        BY <1>1, TimerAssumption
      <4>2. paused[s] = Null
        BY <1>3, <3>1, <3>3
      <4>3. e[s] = [remaining |-> cap, since |-> n]
        <5> HIDE DEF paused, a
        <5>1. e = IF paused[s] = Null /\ cap = 0 THEN paused
                  ELSE [paused EXCEPT ![s] =
                          [remaining |-> IF paused[s] = Null THEN cap ELSE paused[s].remaining,
                           since     |-> n]]
          BY DEF enterSection, paused
        <5> HIDE DEF e, n
        <5> QED
          BY <1>3, <3>1, <3>3, <4>2, <5>1
      <4> HIDE DEF n, e, a, paused
      <4>4. remainingMs(e[s], n) = e[s].remaining
        BY <4>1, <4>3 DEF remainingMs, AtLeastZero
      <4> QED
        BY <4>4 DEF n
    <3> HIDE DEF e, paused, a, u
    <3> QED
      BY <1>3, <1>4, <3>1, <3>2, <3>3 DEF Left
  <2> QED
    BY <2>1, <2>2
<1> HIDE DEF a, u, paused
<1>6. \A x \in Sections : t.budgets[x] # Null =>
        Left(t, x) - Left(u, x) <= IF t.budgets[x].since = Null THEN 0 ELSE u.active - t.active
  <2> SUFFICES ASSUME NEW x \in Sections, t.budgets[x] # Null
               PROVE  Left(t, x) - Left(u, x)
                        <= IF t.budgets[x].since = Null THEN 0 ELSE u.active - t.active
    OBVIOUS
  <2>1. t.budgets[x] \in Budget
    BY <1>1
  <2>2. remainingMs(t.budgets[x], t.active) - remainingMs(t.budgets[x], a.active)
          <= IF t.budgets[x].since = Null THEN 0 ELSE a.active - t.active
    BY <1>1, <2>1, RemainingShrinks
  <2> QED
    BY <1>4, <1>5, <2>2 DEF Left
<1> QED
  BY <1>1, <1>4, <1>5, <1>6 DEF Costs, u

(* Replacing t by u raises what is charged by no more than the time counted. *)
LEMMA ChargeGrows ==
  ASSUME NEW t \in Timer, NEW u \in Timer, OneRunningIn(t), Costs(t, u),
         NEW g \in [Sections -> Nat \cup {Null}], Granted(g, t),
         ChargedOf(g, t) <= t.active,
         NEW h, h = [s \in Sections |-> IF t.budgets[s] = Null /\ u.budgets[s] # Null
                                        THEN u.budgets[s].remaining ELSE g[s]]
  PROVE  h \in [Sections -> Nat \cup {Null}] /\ Granted(h, u) /\ ChargedOf(h, u) <= u.active
<1>1. \A s \in Sections :
        /\ u.budgets[s] # Null => u.budgets[s] \in Budget /\ u.budgets[s].remaining \in Nat
        /\ t.budgets[s] # Null => t.budgets[s] \in Budget
  BY DEF Timer, Budget
<1>2. h \in [Sections -> Nat \cup {Null}]
  BY <1>1
<1>3. Granted(h, u)
  BY <1>1 DEF Granted, Costs
<1>4. u.active \in Nat /\ t.active \in Nat /\ t.active <= u.active
  BY DEF Timer, Costs
<1> DEFINE n == u.active - t.active
           runs == {s \in Sections : t.budgets[s] # Null /\ t.budgets[s].since # Null}
           z == CHOOSE s : s \in runs
<1>5. n \in Nat
  BY <1>4
<1>6. \A s \in Sections : Share(h, u)[s] <= Share(g, t)[s] + (IF s = z THEN n ELSE 0)
  <2> SUFFICES ASSUME NEW s \in Sections
               PROVE  Share(h, u)[s] <= Share(g, t)[s] + (IF s = z THEN n ELSE 0)
    OBVIOUS
  <2>0. s \in runs => s = z
    BY DEF OneRunningIn
  <2> HIDE DEF z
  <2>1. /\ Share(h, u)[s] = IF u.budgets[s] = Null THEN 0 ELSE h[s] - Left(u, s)
        /\ Share(g, t)[s] = IF t.budgets[s] = Null THEN 0 ELSE g[s] - Left(t, s)
    BY DEF Share
  <2>2. CASE t.budgets[s] = Null
    <3>1. Share(g, t)[s] = 0
      BY <2>1, <2>2
    <3>2. Share(h, u)[s] = 0
      <4>1. CASE u.budgets[s] = Null
        BY <2>1, <4>1
      <4>2. CASE u.budgets[s] # Null
        <5>1. h[s] = u.budgets[s].remaining /\ Left(u, s) = u.budgets[s].remaining
          BY <2>2, <4>2 DEF Costs
        <5>2. u.budgets[s].remaining \in Nat
          BY <1>1, <4>2
        <5> QED
          BY <2>1, <4>2, <5>1, <5>2
      <4> QED
        BY <4>1, <4>2
    <3> HIDE DEF n
    <3> QED
      BY <1>5, <3>1, <3>2
  <2>3. CASE t.budgets[s] # Null
    <3>1. u.budgets[s] # Null /\ h[s] = g[s] /\ g[s] \in Nat
      BY <2>3 DEF Costs, Granted
    <3>2. Left(t, s) \in Nat /\ Left(u, s) \in Nat
      BY <1>1, <1>4, <2>3, <3>1, RemainingType DEF Left
    <3>3. Left(t, s) - Left(u, s) <= IF s = z THEN n ELSE 0
      <4>1. Left(t, s) - Left(u, s) <= IF t.budgets[s].since = Null THEN 0 ELSE n
        BY <2>3 DEF Costs
      <4>2. t.budgets[s].since # Null => s = z
        BY <2>0, <2>3
      <4> HIDE DEF n, runs
      <4> QED
        BY <1>5, <3>2, <4>1, <4>2
    <3> DEFINE m == IF s = z THEN n ELSE 0
    <3>4. m \in Nat /\ Left(t, s) - Left(u, s) <= m
      BY <1>5, <3>3
    <3> HIDE DEF m, n
    <3>5. g[s] - Left(u, s) <= g[s] - Left(t, s) + m
      BY <3>1, <3>2, <3>4
    <3>6. Share(h, u)[s] = g[s] - Left(u, s) /\ Share(g, t)[s] = g[s] - Left(t, s)
      BY <2>1, <2>3, <3>1
    <3> QED
      BY <3>5, <3>6 DEF m
  <2> QED
    BY <2>2, <2>3
<1>7. PICK f1 : Sums(f1, Share(g, t)) /\ ChargedOf(g, t) = f1[Sections]
  BY ChargedIsSum
<1>8. PICK f2 : Sums(f2, Share(h, u)) /\ ChargedOf(h, u) = f2[Sections]
  BY <1>2, <1>3, ChargedIsSum
<1>9. Share(g, t) \in [Sections -> Int] /\ Share(h, u) \in [Sections -> Int]
  BY <1>2, <1>3, ShareType
<1>10. f1[Sections] \in Int /\ f2[Sections] \in Int /\ f2[Sections] <= f1[Sections] + n
  <2> HIDE DEF n, z
  <2> QED
    BY <1>5, <1>6, <1>7, <1>8, <1>9, SumGrows, TimerAssumption
<1> QED
  BY <1>2, <1>3, <1>4, <1>7, <1>8, <1>10

(* The write of the ping in flight costs what it counts, and what has been   *)
(* charged so far is covered.                                               *)
ChargeInv ==
  /\ \A p \in Pings : ping[p].pc = "write" => Costs(timer, ping[p].next)
  /\ Granted(granted, timer)
  /\ ChargedOf(granted, timer) <= timer.active

LEMMA ReadCosts ==
  ASSUME TypeOK, NEW p \in Pings, PingRead(p)
  PROVE  ping'[p].pc = "write" => Costs(timer, ping'[p].next)
<1> DEFINE s == ping[p].section
           cap == ping[p].limit
           next == applyPing(timer, s, cap, clock)
<1>1. ping'[p] = IF finished THEN IdlePing ELSE [IdlePing EXCEPT !.pc = "write", !.next = next]
  BY DEF PingRead, TypeOK
<1>2. timer \in Timer /\ clock \in Clock /\ s \in Sections \cup {Nowhere} /\ cap \in Nat
  BY DEF TypeOK, Ping
<1>3. Costs(timer, next)
  <2> HIDE DEF s, cap
  <2> QED
    BY <1>2, ApplyPingCosts
<1> HIDE DEF next
<1>4. ping'[p].pc = "write" => ping'[p].next = next
  BY <1>1 DEF IdlePing
<1> QED
  BY <1>3, <1>4

LEMMA ChargeInductive ==
  ASSUME \A p, q \in Pings : p = q, TypeOK, RunningInv, ChargeInv, [Next]_vars
  PROVE  ChargeInv'
<1>1. ASSUME NEW p \in Pings, PingRead(p) \/ PingLimit(p) PROVE ChargeInv'
  <2>1. /\ timer' = timer /\ granted' = granted
        /\ ping'[p].pc = "write" => Costs(timer, ping'[p].next)
        /\ \A q \in Pings : q = p
    BY <1>1, ReadCosts, LimitFacts DEF PingRead, PingLimit
  <2> QED
    BY <2>1 DEF ChargeInv
<1>2. ASSUME NEW p \in Pings, PingWrite(p) PROVE ChargeInv'
  <2> DEFINE u == ping[p].next
  <2>1. timer' = u /\ Costs(timer, u) /\ u \in Timer /\ timer \in Timer /\ OneRunningIn(timer)
    BY <1>2 DEF PingWrite, ChargeInv, TypeOK, Ping, RunningInv
  <2>2. granted' = [s \in Sections |-> IF timer.budgets[s] = Null /\ u.budgets[s] # Null
                                       THEN u.budgets[s].remaining ELSE granted[s]]
    BY <1>2 DEF PingWrite
  <2>3. granted \in [Sections -> Nat \cup {Null}] /\ Granted(granted, timer)
        /\ ChargedOf(granted, timer) <= timer.active
    BY DEF TypeOK, ChargeInv
  <2>4. \A q \in Pings : ping'[q].pc = "idle"
    BY <1>2 DEF PingWrite, TypeOK, IdlePing
  <2> HIDE DEF u
  <2>5. Granted(granted', u) /\ ChargedOf(granted', u) <= u.active
    BY <2>1, <2>2, <2>3, ChargeGrows
  <2> QED
    BY <2>1, <2>4, <2>5 DEF ChargeInv
<1>3. CASE UNCHANGED <<timer, ping, granted>>
  BY <1>3 DEF ChargeInv
<1> QED
  BY <1>1, <1>2, <1>3 DEF Next, EditLimits, Finish, ClockMoves, vars

(* An attempt that has not begun is charged nothing. *)
LEMMA NothingCharged ==
  ASSUME NEW g, g = [s \in Sections |-> Null]
  PROVE  Granted(g, EmptyTimer) /\ ChargedOf(g, EmptyTimer) <= EmptyTimer.active
<1> DEFINE zero == [s \in Sections |-> 0]
           f0   == [S \in SUBSET Sections |-> 0]
<1>1. Granted(g, EmptyTimer) /\ EmptyTimer.active = 0 /\ g \in [Sections -> Nat \cup {Null}]
  BY DEF Granted, EmptyTimer
<1>2. Share(g, EmptyTimer) = zero /\ zero \in [Sections -> Int]
  BY DEF Share, EmptyTimer
<1>3. PICK f : Sums(f, Share(g, EmptyTimer)) /\ ChargedOf(g, EmptyTimer) = f[Sections]
  BY <1>1, EmptyFacts, ChargedIsSum
<1>4. Sums(f0, zero)
  <2>1. \A S \in SUBSET Sections : SumOf(f0, zero, S) = 0
    <3> SUFFICES ASSUME NEW S \in SUBSET Sections, S # {} PROVE SumOf(f0, zero, S) = 0
      BY DEF SumOf
    <3> DEFINE s == CHOOSE x \in S : TRUE
    <3>1. s \in Sections /\ S \ {s} \in SUBSET Sections
      BY OneLess, TimerAssumption
    <3>2. SumOf(f0, zero, S) = f0[S \ {s}] + zero[s]
      BY DEF SumOf
    <3> HIDE DEF s
    <3> QED
      BY <3>1, <3>2
  <2> HIDE DEF zero
  <2>2. f0 = [S \in SUBSET Sections |-> SumOf(f0, zero, S)]
    BY <2>1
  <2> QED
    BY <2>2 DEF Sums
<1>5. f0[Sections] = 0 /\ \A s \in Sections : zero[s] <= zero[s] + (IF s = Nowhere THEN 0 ELSE 0)
  OBVIOUS
<1>6. f[Sections] \in Int /\ f[Sections] <= f0[Sections] + 0
  <2>1. IsFiniteSet(Sections) /\ zero \in [Sections -> Int] /\ 0 \in Nat
    BY TimerAssumption
  <2>2. Sums(f, zero)
    BY <1>2, <1>3
  <2>3. \A s \in Sections : zero[s] <= zero[s] + (IF s = Nowhere THEN 0 ELSE 0)
    BY <1>5
  <2> HIDE DEF zero, f0
  <2>4. f[Sections] \in Int /\ f0[Sections] \in Int /\ f[Sections] <= f0[Sections] + 0
    BY <2>1, <2>2, <2>3, <1>4, SumGrows
  <2> QED
    BY <2>4
<1> QED
  BY <1>1, <1>3, <1>5, <1>6

(* section-timer.ts: no active moment is charged to two sections, whatever  *)
(* the number of sections, the clock and the edits of the limits.           *)
THEOREM NothingChargedTwice ==
  ASSUME \A p, q \in Pings : p = q
  PROVE  Spec => []ChargedOnce
<1>1. Init => ChargeInv
  <2> SUFFICES ASSUME Init PROVE ChargeInv
    OBVIOUS
  <2>1. \A p \in Pings : ping[p].pc = "idle"
    BY DEF Init, IdlePing
  <2>2. timer = EmptyTimer /\ granted = [s \in Sections |-> Null]
    BY DEF Init
  <2>3. Granted(granted, timer) /\ ChargedOf(granted, timer) <= timer.active
    BY <2>2, NothingCharged
  <2> QED
    BY <2>1, <2>3 DEF ChargeInv
<1>2. TypeOK /\ RunningInv /\ ChargeInv /\ [Next]_vars => ChargeInv'
  BY ChargeInductive
<1>3. ChargeInv => ChargedOnce
  BY DEF ChargeInv, ChargedOnce, Charged, ChargedOf
<1> QED
  BY <1>1, <1>2, <1>3, TypeCorrect, RunningAlways, PTL DEF Spec

=============================================================================
