---------------------------- MODULE PackageGate -----------------------------
(***************************************************************************)
(* The retake gate of an exported package (eligibility/gate.js, plugins.js *)
(* and utils/trusted-now.js): what happens between the launch of the       *)
(* package in an LMS and the moment the course is begun, or the screen     *)
(* that refuses it is before the learner.                                  *)
(*                                                                         *)
(* Two clocks run here.  The calendar of the portal counts days; within a  *)
(* launch the gate counts ticks, and its timers are due on a tick: time    *)
(* does not pass over a timer that is due, while a request may be answered *)
(* on any tick or never.  A reaction to an answer runs in the step that    *)
(* brings it, as the microtasks of a page do.                              *)
(*                                                                         *)
(* Of the LMS, which is external, the package sees one registration per    *)
(* assignment: its suspend_data, and its row in the learning records.      *)
(* Not represented: dates that do not parse, a package without a gate, the *)
(* branch that starts the course when the gate's own code throws, and the  *)
(* clock that runCourse asks for barrier B, which has a cap of its own.    *)
(***************************************************************************)
EXTENDS RetakeGate

CONSTANTS
  Packages,           \* what an author may export: see PackageType
  DATE_TIMEOUT,       \* ticks the portal's clock may take
  GATE_TIMEOUT,       \* ticks the whole gate may take
  TEMPLATE_TIMEOUT,   \* ticks a screen waits for the template
  MaxReg,             \* bound: assignments
  MaxDay              \* bound: days of the calendar

Days  == 0 .. MaxDay
Regs  == 1 .. MaxReg

ASSUME GateAssumption ==
  /\ {DATE_TIMEOUT, GATE_TIMEOUT, TEMPLATE_TIMEOUT} \subseteq Nat
  /\ DATE_TIMEOUT <= GATE_TIMEOUT
  /\ MaxReg \in Nat \ {0} /\ MaxDay \in Nat
  /\ Null \notin Nat

PackageType ==
  [policy     : RetakePolicy(Nat),              \* barrier A; the interval is not the gate's
   failPolicy : {"failOpen", "failClosed"},
   outcomes   : BOOLEAN,                        \* passedStateIn is configured
   limited    : BOOLEAN]                        \* maxAttempts > 0

ASSUME PackageAssumption == Packages \subseteq PackageType

VARIABLES
  pkg,       \* the package
  day,       \* the calendar of the portal
  reg,       \* the current assignment
  records,   \* of each registration: suspend_data and the row of the learning records
  gate,      \* the launch under way
  screen     \* the refusal on the page

vars == <<pkg, day, reg, records, gate, screen>>

(* How the portal's page answers: with a clock and a SECID, with both under *)
(* an error status, with a SECID only, or with nothing of use.              *)
Chrome == {"pending", "dated", "dated error", "undated", "useless"}

Record ==
  [attemptsUsed   : BOOLEAN,                    \* counted for a limited test only
   currentSession : BOOLEAN,
   finishedOn     : Days \cup {Null},           \* of the last finished attempt; best is kept with it
   usedOn         : Days,                       \* last_usage_date
   passed         : BOOLEAN]

Gate ==
  [phase     : {"off", "clock", "secid", "records", "loading", "course", "blocked"},
   readable  : BOOLEAN,                         \* suspend_data could be read at the launch
   elapsed   : Nat,
   deadline  : Nat,                             \* of the plugin, given when it is entered
   chrome    : Chrome,
   inTime    : BOOLEAN,                         \* the page came while the clock waited for it
   today     : Days,
   decidedBy : {"nobody", "reentry", "records", "failPolicy"},
   playing   : BOOLEAN]                         \* an attempt is open in the course

Screen ==
  [stage  : {"none", "start", "wall", "shown"}, \* whose ensureTemplate is awaited
   waited : Nat,
   loads  : [1 .. 2 -> {"idle", "pending", "landed"}],
   view   : {"loading", "cooldown", "blocked page", "wall", "template error"}]

NewRecord ==
  [attemptsUsed |-> FALSE, currentSession |-> FALSE, finishedOn |-> Null,
   usedOn |-> 0, passed |-> FALSE]

Off ==
  [phase |-> "off", readable |-> TRUE, elapsed |-> 0, deadline |-> 0, chrome |-> "pending",
   inTime |-> FALSE, today |-> 0, decidedBy |-> "nobody", playing |-> FALSE]

NoScreen ==
  [stage |-> "none", waited |-> 0, loads |-> [k \in 1 .. 2 |-> "idle"], view |-> "loading"]

Init ==
  /\ pkg \in Packages
  /\ day = 0
  /\ reg = 1
  /\ records = [r \in Regs |-> NewRecord]
  /\ gate = Off
  /\ screen = NoScreen

world == <<pkg, day, reg, records>>

-----------------------------------------------------------------------------
(* The verdict *)

(* Mutant: a suspended session does not count as play.                      *)
playedByCount(rec) == rec.attemptsUsed \/ rec.finishedOn # Null

(* alreadyPlayedThisRegistration: suspend_data carries a count, a best      *)
(* summary or a session.                                                    *)
alreadyPlayed(rec) == rec.attemptsUsed \/ rec.finishedOn # Null \/ rec.currentSession

(* onAllowedStart is runCourse: the design template is asked for.           *)
Admit(g, by) == [g EXCEPT !.phase = "loading", !.decidedBy = by]

(* A refused launch is closed with Terminate, and nothing it learnt is used *)
(* any more but the screen.                                                 *)
Settle(g, allowed, by) ==
  IF allowed THEN Admit(g, by)
  ELSE [Off EXCEPT !.phase = "blocked", !.readable = g.readable, !.decidedBy = by]

applyFailPolicy(g) == Settle(g, pkg.failPolicy = "failOpen", "failPolicy")

FirstScreen ==
  [NoScreen EXCEPT !.stage = "start", !.loads[1] = "pending"]

(* Whatever decides, the page of a refusal begins to be drawn.              *)
Becomes(g) ==
  /\ gate' = g
  /\ screen' = IF g.phase = "blocked" THEN FirstScreen ELSE NoScreen
  /\ UNCHANGED world

Dated(chrome)    == chrome \in {"dated", "dated error"}
HasSecid(chrome) == Dated(chrome) \/ chrome = "undated"

(* webtutorEvaluate up to the POST: the SECID is read off the same answer   *)
(* the clock came from, if it has come.                                     *)
askRecords(g) ==
  CASE g.chrome = "pending" -> [g EXCEPT !.phase = "secid"]
    [] HasSecid(g.chrome)   -> [g EXCEPT !.phase = "records"]
    [] OTHER                -> applyFailPolicy(g)

(* Mutant: the plugin gets the whole budget anew.                           *)
evaluateAfresh(g) == askRecords([g EXCEPT !.deadline = g.elapsed + GATE_TIMEOUT])

(* evaluate: the plugin gets what is left of the budget of the whole gate.  *)
evaluate(g) ==
  askRecords([g EXCEPT !.deadline =
    IF g.elapsed < GATE_TIMEOUT THEN GATE_TIMEOUT ELSE g.elapsed])

(* selectLastAttemptRecord: the finished rows of the latest date; the first *)
(* of them in the portal's order is taken.                                  *)
LastRecords ==
  LET finished == {r \in Regs : records[r].finishedOn # Null}
  IN  {r \in finished : \A q \in finished : records[q].usedOn <= records[r].usedOn}

(* recordPassed *)
recordPassed(r) ==
  IF ~pkg.outcomes THEN "unknown" ELSE IF records[r].passed THEN "yes" ELSE "no"

(* cooldownResult of the row taken.                                         *)
cooldownAllows(r, today) ==
  LET days == resolveCooldownDays(pkg.policy, recordPassed(r))
  IN  cooldownDecision(records[r].usedOn, today, IF days = Null THEN 0 ELSE days).allowed

-----------------------------------------------------------------------------
(* The gate *)

(* run: the session is opened first, because only then suspend_data can be  *)
(* read; what cannot be read counts as not played.                          *)
Launch ==
  /\ gate.phase = "off"
  /\ \E readable \in BOOLEAN :
       LET g == [Off EXCEPT !.readable = readable]
       IN  Becomes(IF readable /\ alreadyPlayed(records[reg])
                   THEN Admit(g, "reentry") ELSE [g EXCEPT !.phase = "clock"])

(* Mutant: the date of a page with an error status is not used.             *)
todayOfHealthyPage(chrome) == IF chrome = "dated" THEN {day} ELSE Days

(* resolveNowMs: the calendar of the portal when the page carries a date,   *)
(* whatever its status; otherwise the clock of the machine, any day at all. *)
resolveToday(chrome) ==
  IF Dated(chrome) THEN {day} ELSE Days

(* fetchPortalChrome answers: the clock waits for it, or the SECID does.    *)
ChromeAnswers ==
  /\ gate.chrome = "pending"
  /\ \E answer \in Chrome \ {"pending"} :
       LET g == [gate EXCEPT !.chrome = answer]
       IN  \/ /\ gate.phase = "clock"
              /\ \E today \in resolveToday(answer) :
                   Becomes(evaluate([g EXCEPT !.inTime = TRUE, !.today = today]))
           \/ /\ gate.phase = "secid"
              /\ Becomes(askRecords(g))

ClockDue == gate.phase = "clock" /\ gate.elapsed = DATE_TIMEOUT

(* The sub-budget of resolveNowMs is spent: the machine's clock is taken.   *)
ClockTimeout ==
  /\ ClockDue
  /\ \E today \in resolveToday("pending") : Becomes(evaluate([gate EXCEPT !.today = today]))

(* The collection answers with the rows of this course.                     *)
RecordsAnswer ==
  /\ gate.phase = "records"
  /\ IF LastRecords = {} THEN Becomes(Settle(gate, TRUE, "records"))
     ELSE \E r \in LastRecords :
            Becomes(Settle(gate, cooldownAllows(r, gate.today), "records"))

(* ... or with an error, or not at all.                                     *)
RecordsFail ==
  /\ gate.phase = "records"
  /\ Becomes(applyFailPolicy(gate))

Asking  == gate.phase \in {"secid", "records"}
GateDue == Asking /\ gate.elapsed >= gate.deadline

(* eligibility_timeout wins the race.                                       *)
GateTimeout ==
  /\ GateDue
  /\ Becomes(applyFailPolicy(gate))

-----------------------------------------------------------------------------
(* The screen of a refusal *)

Show(s, view) == [s EXCEPT !.stage = "shown", !.view = view]

(* renderBlockWall with no layouts loaded: it asks for the template again.  *)
AwaitWall(s) == [s EXCEPT !.stage = "wall", !.waited = 0, !.loads[2] = "pending"]

(* loadDesignTemplate fails: showCoreError takes the page, whatever is on   *)
(* it.                                                                      *)
Landed(k, failed) ==
  [screen EXCEPT !.loads[k] = "landed", !.view = IF failed THEN "template error" ELSE @]

(* A template comes or fails.  renderCooldownStart awaits the first load,   *)
(* renderBlockWall the second; a load nobody waits for any more still       *)
(* replaces the page when it fails.                                         *)
TemplateLands(k) ==
  /\ gate.phase = "blocked" /\ screen.loads[k] = "pending"
  /\ \E layouts \in {"with start", "without start", "failed"} :
       LET s == Landed(k, layouts = "failed")
       IN  screen' =
             CASE screen.stage = "start" /\ layouts = "with start"    -> Show(s, "cooldown")
               [] screen.stage = "start" /\ layouts = "without start" -> Show(s, "blocked page")
               [] screen.stage = "start" /\ layouts = "failed"        -> AwaitWall(s)
               [] screen.stage = "wall" /\ k = 2 ->
                    Show(s, IF layouts = "failed" THEN "wall" ELSE "blocked page")
               [] OTHER -> s
  /\ UNCHANGED <<world, gate>>

TemplateDue == screen.stage \in {"start", "wall"} /\ screen.waited = TEMPLATE_TIMEOUT

(* Mutant: only the first wait is capped.                                   *)
TemplateTimeoutOnce ==
  /\ TemplateDue
  /\ screen.stage = "start"
  /\ screen' = AwaitWall(screen)
  /\ UNCHANGED <<world, gate>>

(* ensureTemplate gives up.  The start page then hands over to              *)
(* renderBlockWall, which waits as long again; the timer of 4500 ms finds   *)
(* the screen marked as rendered by then.                                   *)
TemplateTimeout ==
  /\ TemplateDue
  /\ screen' = IF screen.stage = "start" THEN AwaitWall(screen) ELSE Show(screen, "wall")
  /\ UNCHANGED <<world, gate>>

(* Nothing is counted once nobody waits.                                    *)
Tick ==
  /\ ~ClockDue /\ ~GateDue /\ ~TemplateDue
  /\ \/ /\ gate.phase = "clock" \/ Asking
        /\ gate' = [gate EXCEPT !.elapsed = @ + 1]
        /\ UNCHANGED screen
     \/ /\ screen.stage \in {"start", "wall"}
        /\ screen' = [screen EXCEPT !.waited = @ + 1]
        /\ UNCHANGED gate
  /\ UNCHANGED world

-----------------------------------------------------------------------------
(* The course and the portal *)

(* The template comes or fails, for which loadDesignTemplate has no cap.    *)
(* determineRecovery then restores the suspended session, or runCourse      *)
(* discards one that is stale or has lost its timer.                        *)
CourseBegins ==
  /\ gate.phase = "loading"
  /\ \E restored \in BOOLEAN :
       /\ restored => records[reg].currentSession
       /\ gate' = [gate EXCEPT !.phase = "course", !.playing = restored]
       /\ records' = [records EXCEPT ![reg].currentSession = restored]
  /\ UNCHANGED <<pkg, day, reg, screen>>

InCourse == gate.phase = "course" /\ UNCHANGED <<pkg, day, reg, screen>>

(* registerAttemptStart *)
StartAttempt ==
  /\ InCourse /\ ~gate.playing
  /\ gate' = [gate EXCEPT !.playing = TRUE]
  /\ records' = [records EXCEPT ![reg].attemptsUsed = @ \/ pkg.limited]

(* saveCurrentSession *)
SaveSession ==
  /\ InCourse /\ gate.playing
  /\ records' = [records EXCEPT ![reg].currentSession = TRUE]
  /\ UNCHANGED gate

(* saveAttemptResult and clearCurrentSession; the LMS completes the row.    *)
FinishAttempt ==
  /\ InCourse /\ gate.playing
  /\ gate' = [gate EXCEPT !.playing = FALSE]
  /\ \E passed \in BOOLEAN :
       records' = [records EXCEPT ![reg].currentSession = FALSE, ![reg].finishedOn = day,
                                  ![reg].usedOn = day, ![reg].passed = @ \/ passed]

Admitted == gate.phase \in {"loading", "course"}

(* The window is closed, in the course, on the refusal or while the gate    *)
(* works; the portal notes the use of a registration that was let in.       *)
Close ==
  /\ gate.phase # "off"
  /\ gate' = Off
  /\ screen' = NoScreen
  /\ records' = IF Admitted THEN [records EXCEPT ![reg].usedOn = day] ELSE records
  /\ UNCHANGED <<pkg, day, reg>>

(* The portal assigns the course again.                                     *)
Reassign ==
  /\ gate.phase = "off"
  /\ reg < MaxReg
  /\ reg' = reg + 1
  /\ UNCHANGED <<pkg, day, records, gate, screen>>

NextDay ==
  /\ day < MaxDay
  /\ day' = day + 1
  /\ UNCHANGED <<pkg, reg, records, gate, screen>>

Timers == ClockTimeout \/ GateTimeout \/ TemplateTimeout \/ Tick

Next ==
  \/ Launch \/ ChromeAnswers \/ RecordsAnswer \/ RecordsFail \/ Timers
  \/ \E k \in 1 .. 2 : TemplateLands(k)
  \/ CourseBegins \/ StartAttempt \/ SaveSession \/ FinishAttempt
  \/ Close \/ Reassign \/ NextDay

(* Timers fire; no request need ever be answered, and nobody need act.      *)
Spec == Init /\ [][Next]_vars /\ WF_vars(Timers)

-----------------------------------------------------------------------------
(* Type invariant *)

TypeOK ==
  /\ pkg \in Packages
  /\ day \in Days
  /\ reg \in Regs
  /\ records \in [Regs -> Record]
  /\ gate \in Gate
  /\ screen \in Screen

-----------------------------------------------------------------------------
(* What the gate promises *)

(* NFR-06 and NFR-TD-01: resolving the clock, the SECID and the records     *)
(* together never take more than the one budget of the gate.                *)
WithinBudget == gate.elapsed <= GATE_TIMEOUT

(* PRD-31: barrier A does not apply inside an assignment.  A learner who    *)
(* has finished an attempt of it, started one that counts or has one still  *)
(* suspended is not refused when coming back, unless suspend_data cannot be *)
(* read.                                                                    *)
NeverShutOut ==
  gate.phase = "blocked" /\ gate.readable =>
    LET rec == records[reg]
    IN  ~rec.attemptsUsed /\ ~rec.currentSession /\ rec.finishedOn = Null

Shortest(policy) ==
  LET days == IF policy.byOutcome THEN {policy.daysPassed, policy.daysFailed} \ {Null}
              ELSE {policy.days} \ {Null}
  IN  IF days = {} THEN 0 ELSE CHOOSE d \in days : \A e \in days : d <= e

(* The trusted date: when the portal's page comes in time with its clock,   *)
(* no setting of the machine's clock lets the records open a new assignment *)
(* before the portal's calendar is past the shortest wait after every       *)
(* attempt of the assignments before it.                                    *)
CooldownServed ==
  Admitted /\ gate.decidedBy = "records" /\ gate.inTime /\ Dated(gate.chrome) =>
    \A r \in Regs : r < reg /\ records[r].finishedOn # Null =>
      day >= records[r].finishedOn + Shortest(pkg.policy)

(* Though no request of the gate, or of a template it draws a refusal with, *)
(* be ever answered, the gate comes to a decision and a refused launch to a *)
(* screen that says so.  Of a launch that is let in it promises no more:    *)
(* the course then waits for its template without a cap.                    *)
GateSettles ==
  gate.phase \in {"clock", "secid", "records", "blocked"}
    ~> gate.phase \in {"off", "loading"} \/ screen.stage = "shown"

=============================================================================
