----------------------------- MODULE GateProofs -----------------------------
(***************************************************************************)
(* Proofs about the two retake gates: the one of an exported package       *)
(* (PackageGate), for any packages, timeouts and bounds, and the one of    *)
(* the server (RetakeHistory), for any policy, any length of a day and any *)
(* bounds.                                                                 *)
(***************************************************************************)
EXTENDS PackageGate, RetakeHistory, FiniteSetTheorems, WellFoundedInduction, TLAPS

-----------------------------------------------------------------------------
(* The gate of a package.                                                   *)

Deciding == gate.phase \in {"clock", "secid", "records"}

(* While the gate works its count is below the timer that is running, the   *)
(* plugin was given no more than the budget of the gate, and a page that is *)
(* still awaited was not in time.                                           *)
Counted(g) ==
  /\ g.phase = "clock" => g.elapsed <= DATE_TIMEOUT
  /\ g.phase \in {"clock", "secid"} => ~g.inTime
  /\ g.phase \in {"secid", "records"} => g.elapsed <= g.deadline /\ g.deadline = GATE_TIMEOUT
  /\ g.elapsed <= GATE_TIMEOUT

(* A launch that could read suspend_data and was not let in at once found   *)
(* nothing in it; the course, which alone writes there, is not running.     *)
Unplayed ==
  (Deciding \/ gate.phase = "blocked") /\ gate.readable => ~alreadyPlayed(records[reg])

(* The portal has noted no use later than today, nor earlier than the last  *)
(* finish, and a calendar that came in time is not ahead of it.             *)
Dates ==
  /\ \A r \in Regs : records[r].usedOn <= day
  /\ \A r \in Regs : records[r].finishedOn # Null => records[r].finishedOn <= records[r].usedOn
  /\ gate.inTime /\ Dated(gate.chrome) => gate.today <= day

LEMMA OffType == Off \in Gate /\ NoScreen \in Screen /\ NewRecord \in Record
  BY GateAssumption DEF Off, NoScreen, NewRecord, Gate, Screen, Record, Chrome, Days

LEMMA AdmitType ==
  ASSUME NEW g \in Gate, NEW by \in {"reentry", "records", "failPolicy"}
  PROVE  Admit(g, by) \in Gate
  BY DEF Admit, Gate

LEMMA SettleType ==
  ASSUME TypeOK, NEW g \in Gate, NEW a \in BOOLEAN, NEW by \in {"records", "failPolicy"}
  PROVE  Settle(g, a, by) \in Gate
<1>1. CASE a
  BY <1>1, AdmitType DEF Settle
<1>2. CASE ~a
  BY <1>2, OffType DEF Settle, Gate
<1> QED
  BY <1>1, <1>2

LEMMA AskType ==
  ASSUME TypeOK, NEW g \in Gate
  PROVE  askRecords(g) \in Gate
<1>1. applyFailPolicy(g) \in Gate
  BY SettleType DEF applyFailPolicy
<1>2. [g EXCEPT !.phase = "secid"] \in Gate /\ [g EXCEPT !.phase = "records"] \in Gate
  BY DEF Gate
<1>3. CASE g.chrome = "pending"
  BY <1>2, <1>3 DEF askRecords
<1>4. CASE g.chrome # "pending" /\ HasSecid(g.chrome)
  BY <1>2, <1>4 DEF askRecords
<1>5. CASE g.chrome # "pending" /\ ~HasSecid(g.chrome)
  BY <1>1, <1>5 DEF askRecords
<1> QED
  BY <1>3, <1>4, <1>5

LEMMA EvaluateType ==
  ASSUME TypeOK, NEW g \in Gate
  PROVE  evaluate(g) \in Gate
<1> DEFINE d == IF g.elapsed < GATE_TIMEOUT THEN GATE_TIMEOUT ELSE g.elapsed
<1>1. d \in Nat
  BY GateAssumption DEF Gate
<1>2. [g EXCEPT !.deadline = d] \in Gate
  BY <1>1 DEF Gate
<1> QED
  BY <1>2, AskType DEF evaluate

LEMMA BecomesType ==
  ASSUME TypeOK, NEW g \in Gate, Becomes(g)
  PROVE  TypeOK'
<1>1. FirstScreen \in Screen
  BY OffType DEF FirstScreen, NoScreen, Screen
<1>2. gate' \in Gate /\ screen' \in Screen
  BY <1>1, OffType DEF Becomes
<1> QED
  BY <1>2 DEF Becomes, world, TypeOK

LEMMA ShowType ==
  ASSUME NEW s \in Screen
  PROVE  /\ \A v \in {"cooldown", "blocked page", "wall"} : Show(s, v) \in Screen
         /\ AwaitWall(s) \in Screen
  BY DEF Show, AwaitWall, Screen

LEMMA LandsType ==
  ASSUME TypeOK, NEW k \in 1 .. 2, TemplateLands(k)
  PROVE  TypeOK'
<1>1. PICK layouts \in {"with start", "without start", "failed"} :
        LET s == Landed(k, layouts = "failed")
        IN  screen' =
              CASE screen.stage = "start" /\ layouts = "with start"    -> Show(s, "cooldown")
                [] screen.stage = "start" /\ layouts = "without start" -> Show(s, "blocked page")
                [] screen.stage = "start" /\ layouts = "failed"        -> AwaitWall(s)
                [] screen.stage = "wall" /\ k = 2 ->
                     Show(s, IF layouts = "failed" THEN "wall" ELSE "blocked page")
                [] OTHER -> s
  BY DEF TemplateLands
<1> DEFINE s == Landed(k, layouts = "failed")
<1>2. s \in Screen
  BY DEF Landed, TypeOK, Screen
<1>3. /\ Show(s, "cooldown") \in Screen /\ Show(s, "blocked page") \in Screen
      /\ Show(s, "wall") \in Screen /\ AwaitWall(s) \in Screen
  BY <1>2, ShowType
<1> HIDE DEF s
<1>4. screen' \in Screen
  <2>1. \/ screen' = Show(s, "cooldown") \/ screen' = Show(s, "blocked page")
        \/ screen' = Show(s, "wall") \/ screen' = AwaitWall(s) \/ screen' = s
    BY <1>1 DEF s
  <2> QED
    BY <2>1, <1>2, <1>3
<1> QED
  BY <1>4 DEF TemplateLands, world, TypeOK

LEMMA CourseStepType ==
  ASSUME TypeOK, StartAttempt \/ SaveSession \/ FinishAttempt \/ Close
  PROVE  TypeOK'
<1>1. records[reg] \in Record /\ reg \in Regs /\ day \in Days
  BY DEF TypeOK
<1>2. CASE StartAttempt
  <2>1. pkg.limited \in BOOLEAN
    BY PackageAssumption DEF TypeOK, PackageType
  <2>2. gate' \in Gate
    BY <1>2 DEF StartAttempt, TypeOK, Gate
  <2>3. [records[reg] EXCEPT !.attemptsUsed = @ \/ pkg.limited] \in Record
    BY <1>1, <2>1 DEF Record
  <2>4. records' \in [Regs -> Record]
    BY <1>2, <2>3 DEF StartAttempt, TypeOK
  <2> QED
    BY <1>2, <2>2, <2>4 DEF StartAttempt, InCourse, TypeOK
<1>3. CASE SaveSession
  <2>1. records' \in [Regs -> Record]
    BY <1>1, <1>3 DEF SaveSession, TypeOK, Record
  <2> QED
    BY <1>3, <2>1 DEF SaveSession, InCourse, TypeOK
<1>4. CASE FinishAttempt
  <2>1. PICK passed \in BOOLEAN :
          records' = [records EXCEPT ![reg].currentSession = FALSE, ![reg].finishedOn = day,
                                     ![reg].usedOn = day, ![reg].passed = @ \/ passed]
    BY <1>4 DEF FinishAttempt
  <2>2. records' \in [Regs -> Record]
    BY <1>1, <2>1 DEF TypeOK, Record
  <2>3. gate' \in Gate
    BY <1>4 DEF FinishAttempt, TypeOK, Gate
  <2> QED
    BY <1>4, <2>2, <2>3 DEF FinishAttempt, InCourse, TypeOK
<1>5. CASE Close
  <2>1. records' \in [Regs -> Record]
    BY <1>1, <1>5 DEF Close, TypeOK, Record
  <2> QED
    BY <1>5, <2>1, OffType DEF Close, TypeOK
<1> QED
  BY <1>2, <1>3, <1>4, <1>5

LEMMA TickType ==
  ASSUME TypeOK, Tick
  PROVE  TypeOK'
<1>1. gate' \in Gate
  BY DEF Tick, TypeOK, Gate
<1>2. screen' \in Screen
  <2>0. screen.waited \in Nat
    <3>1. screen \in Screen
      BY DEF TypeOK
    <3> QED
      BY <3>1, Zenon DEF Screen
  <2>1. [screen EXCEPT !.waited = screen.waited + 1] \in Screen
    <3> DEFINE n == screen.waited + 1
    <3>1. n \in Nat /\ screen \in Screen
      BY <2>0 DEF TypeOK
    <3> HIDE DEF n
    <3>2. [screen EXCEPT !.waited = n] \in Screen
      BY <3>1 DEF Screen
    <3> QED
      BY <3>2 DEF n
  <2>2. screen' = screen \/ screen' = [screen EXCEPT !.waited = screen.waited + 1]
    BY DEF Tick
  <2> QED
    BY <2>1, <2>2 DEF TypeOK
<1> QED
  BY <1>1, <1>2 DEF Tick, world, TypeOK

LEMMA TypeStep ==
  ASSUME TypeOK, [Next]_vars
  PROVE  TypeOK'
<1> USE DEF TypeOK
<1>1. CASE Launch
  <2>1. PICK readable \in BOOLEAN :
          LET g == [Off EXCEPT !.readable = readable]
          IN  Becomes(IF readable /\ alreadyPlayed(records[reg])
                      THEN Admit(g, "reentry") ELSE [g EXCEPT !.phase = "clock"])
    BY <1>1 DEF Launch
  <2> DEFINE g == [Off EXCEPT !.readable = readable]
  <2>2. g \in Gate /\ [g EXCEPT !.phase = "clock"] \in Gate
    BY OffType DEF Gate
  <2>3. Admit(g, "reentry") \in Gate
    BY <2>2, AdmitType
  <2> QED
    BY <2>1, <2>2, <2>3, BecomesType
<1>2. CASE ChromeAnswers
  <2>1. PICK answer \in Chrome \ {"pending"} :
          LET g == [gate EXCEPT !.chrome = answer]
          IN  \/ /\ gate.phase = "clock"
                 /\ \E today \in resolveToday(answer) :
                      Becomes(evaluate([g EXCEPT !.inTime = TRUE, !.today = today]))
              \/ /\ gate.phase = "secid"
                 /\ Becomes(askRecords(g))
    BY <1>2 DEF ChromeAnswers
  <2> DEFINE g == [gate EXCEPT !.chrome = answer]
  <2>2. g \in Gate
    BY DEF Gate
  <2>3. \A today \in resolveToday(answer) : [g EXCEPT !.inTime = TRUE, !.today = today] \in Gate
    BY <2>2 DEF Gate, resolveToday
  <2> HIDE DEF g
  <2>4. \A today \in resolveToday(answer) :
          evaluate([g EXCEPT !.inTime = TRUE, !.today = today]) \in Gate
    BY <2>3, EvaluateType
  <2>5. askRecords(g) \in Gate
    BY <2>2, AskType
  <2> QED
    BY <2>1, <2>4, <2>5, BecomesType DEF g
<1>3. CASE ClockTimeout
  <2>1. PICK today \in resolveToday("pending") : Becomes(evaluate([gate EXCEPT !.today = today]))
    BY <1>3 DEF ClockTimeout
  <2>2. [gate EXCEPT !.today = today] \in Gate
    BY <2>1 DEF Gate, resolveToday
  <2> QED
    BY <2>1, <2>2, EvaluateType, BecomesType
<1>4. CASE RecordsAnswer
  <2>1. \/ Becomes(Settle(gate, TRUE, "records"))
        \/ \E r \in LastRecords : Becomes(Settle(gate, cooldownAllows(r, gate.today), "records"))
    BY <1>4 DEF RecordsAnswer
  <2>2. \A r \in LastRecords : cooldownAllows(r, gate.today) \in BOOLEAN
    BY DEF cooldownAllows, cooldownDecision
  <2> QED
    BY <2>1, <2>2, SettleType, BecomesType
<1>5. CASE RecordsFail \/ GateTimeout
  <2>1. applyFailPolicy(gate) \in Gate
    BY SettleType DEF applyFailPolicy
  <2> QED
    BY <1>5, <2>1, BecomesType DEF RecordsFail, GateTimeout
<1>6. CASE TemplateTimeout
  <2>1. screen' \in Screen
    BY <1>6, ShowType DEF TemplateTimeout
  <2> QED
    BY <1>6, <2>1 DEF TemplateTimeout, world
<1>7. CASE Tick
  BY <1>7, TickType
<1>8. CASE \E k \in 1 .. 2 : TemplateLands(k)
  BY <1>8, LandsType
<1>9. CASE StartAttempt \/ SaveSession \/ FinishAttempt \/ Close
  BY <1>9, CourseStepType
<1>10. CASE Reassign
  BY <1>10, GateAssumption DEF Reassign, Regs
<1>11. CASE NextDay
  BY <1>11, GateAssumption DEF NextDay, Days
<1>12. CASE UNCHANGED vars
  BY <1>12 DEF vars
<1>13. CASE CourseBegins
  <2>1. PICK restored \in BOOLEAN :
          /\ gate' = [gate EXCEPT !.phase = "course", !.playing = restored]
          /\ records' = [records EXCEPT ![reg].currentSession = restored]
    BY <1>13 DEF CourseBegins
  <2>2. gate' \in Gate
    BY <2>1 DEF Gate
  <2>3. records' \in [Regs -> Record]
    BY <2>1 DEF Record
  <2> QED
    BY <1>13, <2>2, <2>3 DEF CourseBegins
<1> QED
  BY <1>1, <1>2, <1>3, <1>4, <1>5, <1>6, <1>7, <1>8, <1>9, <1>10, <1>11, <1>12, <1>13
     DEF Next, Timers

LEMMA TypeInit == Init => TypeOK
<1> SUFFICES ASSUME Init PROVE TypeOK
  OBVIOUS
<1>1. day \in Days /\ reg \in Regs
  BY GateAssumption DEF Init, Days, Regs
<1> QED
  BY <1>1, OffType DEF Init, TypeOK

(* Every state of the gate and of its screen is well typed.                 *)
THEOREM TypeCorrect == Spec => []TypeOK
<1> QED
  BY TypeInit, TypeStep, PTL DEF Spec

-----------------------------------------------------------------------------
(* What a decision, the question to the portal and the plugin leave alone.  *)

Keeps(g, h) ==
  /\ h.readable = g.readable
  /\ h.elapsed \in {g.elapsed, 0}
  /\ h.phase # "clock"
  /\ h.inTime => g.inTime /\ h.chrome = g.chrome /\ h.today = g.today

LEMMA SettleFacts ==
  ASSUME NEW g \in Gate, NEW a \in BOOLEAN, NEW by \in {"records", "failPolicy"}
  PROVE  /\ Keeps(g, Settle(g, a, by))
         /\ Settle(g, a, by).phase = (IF a THEN "loading" ELSE "blocked")
         /\ Settle(g, a, by).decidedBy = by
<1>1. CASE a
  BY <1>1 DEF Settle, Admit, Keeps, Gate
<1>2. CASE ~a
  BY <1>2 DEF Settle, Off, Keeps, Gate
<1> QED
  BY <1>1, <1>2

LEMMA AskFacts ==
  ASSUME NEW g \in Gate
  PROVE  LET h == askRecords(g)
         IN  /\ Keeps(g, h)
             /\ h.phase \in {"secid", "records", "loading", "blocked"}
             /\ h.phase \in {"loading", "blocked"} => h.decidedBy = "failPolicy"
             /\ h.phase \in {"secid", "records"} => h.deadline = g.deadline
             /\ h.phase = "secid" => g.chrome = "pending"
<1>1. CASE g.chrome = "pending"
  BY <1>1 DEF askRecords, Keeps, Gate
<1>2. CASE g.chrome # "pending" /\ HasSecid(g.chrome)
  BY <1>2 DEF askRecords, Keeps, Gate
<1>3. CASE g.chrome # "pending" /\ ~HasSecid(g.chrome)
  <2>1. askRecords(g) = Settle(g, pkg.failPolicy = "failOpen", "failPolicy")
    BY <1>3 DEF askRecords, applyFailPolicy
  <2> QED
    BY <2>1, SettleFacts
<1> QED
  BY <1>1, <1>2, <1>3

LEMMA EvaluateFacts ==
  ASSUME NEW g \in Gate, g.elapsed <= GATE_TIMEOUT
  PROVE  LET h == evaluate(g)
         IN  /\ Keeps(g, h)
             /\ h.phase \in {"secid", "records", "loading", "blocked"}
             /\ h.phase \in {"loading", "blocked"} => h.decidedBy = "failPolicy"
             /\ h.phase \in {"secid", "records"} => h.deadline = GATE_TIMEOUT
             /\ h.phase = "secid" => g.chrome = "pending"
<1> DEFINE d == IF g.elapsed < GATE_TIMEOUT THEN GATE_TIMEOUT ELSE g.elapsed
           f == [g EXCEPT !.deadline = d]
<1>1. d = GATE_TIMEOUT /\ d \in Nat
  BY GateAssumption DEF Gate
<1>2. /\ f \in Gate /\ f.deadline = d /\ f.readable = g.readable /\ f.elapsed = g.elapsed
      /\ f.inTime = g.inTime /\ f.chrome = g.chrome /\ f.today = g.today
  BY <1>1 DEF Gate
<1>3. evaluate(g) = askRecords(f)
  BY DEF evaluate
<1> HIDE DEF d, f
<1> QED
  BY <1>1, <1>2, <1>3, AskFacts DEF Keeps

(* What the steps of the gate do to the launch: a verdict of the records    *)
(* comes from RecordsAnswer only.                                           *)
GateWorks ==
  \/ Launch \/ ChromeAnswers \/ ClockTimeout
  \/ RecordsAnswer \/ RecordsFail \/ GateTimeout

Proceeds ==
  LET h == gate'
  IN  /\ Deciding
      /\ h.readable = gate.readable
      /\ h.elapsed \in {gate.elapsed, 0}
      /\ h.phase \in {"secid", "records", "loading", "blocked"}
      /\ h.phase \in {"secid", "records"} => h.deadline = GATE_TIMEOUT
      /\ h.phase = "secid" => ~h.inTime
      /\ h.inTime /\ Dated(h.chrome) =>
           \/ gate.inTime /\ Dated(gate.chrome) /\ h.today = gate.today
           \/ h.today = day
      /\ h.phase = "loading" /\ h.decidedBy = "records" => RecordsAnswer /\ h.today = gate.today

LEMMA GateSteps ==
  ASSUME TypeOK, Counted(gate),
         ChromeAnswers \/ ClockTimeout \/ RecordsAnswer \/ RecordsFail \/ GateTimeout
  PROVE  Proceeds
<1>1. gate \in Gate /\ gate.elapsed <= GATE_TIMEOUT
  BY DEF TypeOK, Counted
<1>2. CASE ChromeAnswers
  <2>1. PICK answer \in Chrome \ {"pending"} :
          LET g == [gate EXCEPT !.chrome = answer]
          IN  \/ /\ gate.phase = "clock"
                 /\ \E today \in resolveToday(answer) :
                      Becomes(evaluate([g EXCEPT !.inTime = TRUE, !.today = today]))
              \/ /\ gate.phase = "secid"
                 /\ Becomes(askRecords(g))
    BY <1>2 DEF ChromeAnswers
  <2> DEFINE g == [gate EXCEPT !.chrome = answer]
  <2>2. CASE gate.phase = "clock" /\ \E today \in resolveToday(answer) :
               Becomes(evaluate([g EXCEPT !.inTime = TRUE, !.today = today]))
    <3>1. PICK today \in resolveToday(answer) :
            Becomes(evaluate([g EXCEPT !.inTime = TRUE, !.today = today]))
      BY <2>2
    <3> DEFINE f == [g EXCEPT !.inTime = TRUE, !.today = today]
    <3>2. today \in Days /\ (Dated(answer) => today = day)
      BY DEF resolveToday, TypeOK
    <3>3. /\ f \in Gate /\ f.elapsed = gate.elapsed /\ f.readable = gate.readable
          /\ f.chrome = answer /\ f.today = today
      BY <1>1, <3>2 DEF Gate
    <3> HIDE DEF f
    <3>4. gate' = evaluate(f)
      BY <3>1 DEF Becomes, f
    <3> QED
      BY <1>1, <2>2, <3>2, <3>3, <3>4, EvaluateFacts DEF Proceeds, Keeps, Deciding
  <2>3. CASE gate.phase = "secid" /\ Becomes(askRecords(g))
    <3>1. gate.deadline = GATE_TIMEOUT /\ ~gate.inTime
      BY <2>3 DEF Counted
    <3>2. /\ g \in Gate /\ g.elapsed = gate.elapsed /\ g.readable = gate.readable
          /\ g.chrome = answer /\ g.today = gate.today /\ g.inTime = gate.inTime
          /\ g.deadline = gate.deadline
      BY <1>1 DEF Gate
    <3> HIDE DEF g
    <3>3. gate' = askRecords(g)
      BY <2>3 DEF Becomes
    <3> QED
      BY <1>1, <2>3, <3>1, <3>2, <3>3, AskFacts DEF Proceeds, Keeps, Deciding
  <2> QED
    BY <2>1, <2>2, <2>3
<1>3. CASE ClockTimeout
  <2>1. PICK today \in resolveToday("pending") : Becomes(evaluate([gate EXCEPT !.today = today]))
    BY <1>3 DEF ClockTimeout
  <2> DEFINE f == [gate EXCEPT !.today = today]
  <2>2. /\ f \in Gate /\ f.elapsed = gate.elapsed /\ f.readable = gate.readable
        /\ f.inTime = gate.inTime
    <3>1. today \in Days
      BY <2>1 DEF resolveToday, TypeOK
    <3> QED
      BY <1>1, <3>1 DEF Gate
  <2>3. gate.phase = "clock" /\ ~gate.inTime
    BY <1>3 DEF ClockTimeout, ClockDue, Counted
  <2> HIDE DEF f
  <2>4. gate' = evaluate(f)
    BY <2>1 DEF Becomes, f
  <2> QED
    BY <1>1, <2>2, <2>3, <2>4, EvaluateFacts DEF Proceeds, Keeps, Deciding
<1>4. CASE RecordsAnswer
  <2>1. PICK a \in BOOLEAN : Becomes(Settle(gate, a, "records"))
    <3>1. \A r \in LastRecords : cooldownAllows(r, gate.today) \in BOOLEAN
      BY DEF cooldownAllows, cooldownDecision
    <3> QED
      BY <1>4, <3>1 DEF RecordsAnswer
  <2>2. gate' = Settle(gate, a, "records") /\ gate.phase = "records"
    BY <1>4, <2>1 DEF Becomes, RecordsAnswer
  <2>3. Settle(gate, a, "records").phase = "loading" => Settle(gate, a, "records").today = gate.today
    BY <1>1 DEF Settle, Admit, Off, Gate
  <2> QED
    BY <1>1, <1>4, <2>2, <2>3, SettleFacts DEF Proceeds, Keeps, Deciding
<1>5. CASE RecordsFail \/ GateTimeout
  <2>1. gate' = Settle(gate, pkg.failPolicy = "failOpen", "failPolicy")
    BY <1>5 DEF RecordsFail, GateTimeout, Becomes, applyFailPolicy
  <2>2. gate.phase \in {"secid", "records"}
    BY <1>5 DEF RecordsFail, GateTimeout, GateDue, Asking
  <2> QED
    BY <1>1, <2>1, <2>2, SettleFacts DEF Proceeds, Keeps, Deciding
<1> QED
  BY <1>2, <1>3, <1>4, <1>5

LEMMA LaunchFacts ==
  ASSUME TypeOK, Launch
  PROVE  /\ gate.phase = "off"
         /\ gate'.elapsed = 0 /\ ~gate'.inTime
         /\ \/ gate'.phase = "clock" /\ (gate'.readable => ~alreadyPlayed(records[reg]))
            \/ gate'.phase = "loading" /\ gate'.decidedBy = "reentry"
  BY DEF Launch, Becomes, Admit, Off, Gate

(* The template of the course comes: nothing of the verdict changes.        *)
LEMMA BeginsFacts ==
  ASSUME TypeOK, CourseBegins
  PROVE  /\ gate.phase = "loading" /\ gate'.phase = "course"
         /\ gate'.readable = gate.readable /\ gate'.elapsed = gate.elapsed
         /\ gate'.decidedBy = gate.decidedBy /\ gate'.inTime = gate.inTime
         /\ gate'.chrome = gate.chrome /\ gate'.today = gate.today
         /\ pkg' = pkg /\ day' = day /\ reg' = reg
         /\ \A r \in Regs : /\ records'[r].usedOn = records[r].usedOn
                            /\ records'[r].finishedOn = records[r].finishedOn
<1>1. PICK restored \in BOOLEAN :
        /\ gate' = [gate EXCEPT !.phase = "course", !.playing = restored]
        /\ records' = [records EXCEPT ![reg].currentSession = restored]
  BY DEF CourseBegins
<1> QED
  BY <1>1 DEF CourseBegins, TypeOK, Gate, Record

-----------------------------------------------------------------------------
(* The budget *)

LEMMA BudgetStep ==
  ASSUME TypeOK, Counted(gate), [Next]_vars
  PROVE  Counted(gate')
<1>1. GATE_TIMEOUT \in Nat /\ DATE_TIMEOUT \in Nat /\ DATE_TIMEOUT <= GATE_TIMEOUT
  BY GateAssumption
<1>2. gate.elapsed \in Nat /\ gate.deadline \in Nat /\ gate.elapsed <= GATE_TIMEOUT
  BY DEF TypeOK, Gate, Counted
<1>3. CASE Launch
  BY <1>1, <1>3, LaunchFacts DEF Counted
<1>4. CASE ChromeAnswers \/ ClockTimeout \/ RecordsAnswer \/ RecordsFail \/ GateTimeout
  BY <1>1, <1>2, <1>4, GateSteps DEF Counted, Proceeds
<1>5. CASE Tick
  <2>1. CASE gate.phase = "clock" /\ gate' = [gate EXCEPT !.elapsed = @ + 1]
    <3>1. gate.elapsed # DATE_TIMEOUT /\ gate.elapsed <= DATE_TIMEOUT
      BY <1>5, <2>1 DEF Tick, ClockDue, Counted
    <3> QED
      BY <1>1, <1>2, <2>1, <3>1 DEF Counted, TypeOK, Gate
  <2>2. CASE gate.phase \in {"secid", "records"} /\ gate' = [gate EXCEPT !.elapsed = @ + 1]
    <3>1. ~(gate.elapsed >= gate.deadline) /\ gate.deadline = GATE_TIMEOUT
      BY <1>5, <2>2 DEF Tick, GateDue, Asking, Counted
    <3> QED
      BY <1>1, <1>2, <2>2, <3>1 DEF Counted, TypeOK, Gate
  <2>3. CASE gate' = gate
    BY <2>3
  <2> QED
    BY <1>5, <2>1, <2>2, <2>3 DEF Tick, Asking
<1>6. CASE StartAttempt \/ FinishAttempt
  BY <1>2, <1>6 DEF StartAttempt, FinishAttempt, InCourse, Counted, TypeOK, Gate
<1>7. CASE Close
  BY <1>1, <1>7 DEF Close, Off, Counted
<1>8. CASE gate' = gate
  BY <1>8
<1>9. CASE CourseBegins
  BY <1>2, <1>9, BeginsFacts DEF Counted
<1> QED
  BY <1>3, <1>4, <1>5, <1>6, <1>7, <1>8, <1>9
     DEF Next, Timers, TemplateTimeout, TemplateLands, SaveSession, Reassign, NextDay, vars

(* NFR-06: whatever the timeouts are, the clock, the SECID and the records  *)
(* together take no more than the budget of the gate.                       *)
THEOREM BudgetIsOne == Spec => []WithinBudget
<1> DEFINE Inv == TypeOK /\ Counted(gate)
<1>1. Init => Inv
  BY TypeInit, GateAssumption DEF Init, Off, Counted
<1>2. Inv /\ [Next]_vars => Inv'
  BY TypeStep, BudgetStep
<1>3. Inv => WithinBudget
  BY DEF Counted, WithinBudget
<1> QED
  BY <1>1, <1>2, <1>3, PTL DEF Spec

-----------------------------------------------------------------------------
(* Inside an assignment *)

LEMMA UnplayedStep ==
  ASSUME TypeOK, Counted(gate), Unplayed, [Next]_vars
  PROVE  Unplayed'
<1>1. CASE Launch
  <2>1. records' = records /\ reg' = reg
    BY <1>1 DEF Launch, Becomes, world
  <2> QED
    BY <1>1, <2>1, LaunchFacts DEF Unplayed, Deciding, alreadyPlayed
<1>2. CASE ChromeAnswers \/ ClockTimeout \/ RecordsAnswer \/ RecordsFail \/ GateTimeout
  <2>1. records' = records /\ reg' = reg
    BY <1>2 DEF ChromeAnswers, ClockTimeout, RecordsAnswer, RecordsFail, GateTimeout, Becomes, world
  <2> QED
    BY <1>2, <2>1, GateSteps DEF Unplayed, Proceeds, Deciding, alreadyPlayed
<1>3. CASE Tick
  <2>1. records' = records /\ reg' = reg
    BY <1>3 DEF Tick, world
  <2>2. gate'.phase = gate.phase /\ gate'.readable = gate.readable
    BY <1>3 DEF Tick, TypeOK, Gate
  <2> QED
    BY <2>1, <2>2 DEF Unplayed, Deciding, alreadyPlayed
<1>4. CASE StartAttempt \/ SaveSession \/ FinishAttempt
  <2>1. gate.phase = "course" /\ gate'.phase = "course"
    BY <1>4 DEF StartAttempt, SaveSession, FinishAttempt, InCourse, TypeOK, Gate
  <2> QED
    BY <2>1 DEF Unplayed, Deciding
<1>5. CASE Close
  BY <1>5 DEF Close, Off, Unplayed, Deciding
<1>6. CASE Reassign
  BY <1>6 DEF Reassign, Unplayed, Deciding
<1>7. CASE TemplateTimeout \/ NextDay \/ UNCHANGED vars \/ \E k \in 1 .. 2 : TemplateLands(k)
  <2>1. gate' = gate /\ records' = records /\ reg' = reg
    BY <1>7 DEF TemplateTimeout, TemplateLands, NextDay, vars, world
  <2> QED
    BY <2>1 DEF Unplayed, Deciding, alreadyPlayed
<1>8. CASE CourseBegins
  BY <1>8, BeginsFacts DEF Unplayed, Deciding
<1> QED
  BY <1>1, <1>2, <1>3, <1>4, <1>5, <1>6, <1>7, <1>8 DEF Next, Timers

(* PRD-31: for any packages and any history, barrier A refuses nobody who   *)
(* comes back to an assignment in which something is saved or was counted.  *)
THEOREM InsideNobodyIsRefused == Spec => []NeverShutOut
<1> DEFINE Inv == TypeOK /\ Counted(gate) /\ Unplayed
<1>1. Init => Inv
  BY TypeInit, GateAssumption DEF Init, Off, Counted, Unplayed, Deciding
<1>2. Inv /\ [Next]_vars => Inv'
  BY TypeStep, BudgetStep, UnplayedStep
<1>3. Inv => NeverShutOut
  BY DEF Unplayed, NeverShutOut, alreadyPlayed
<1> QED
  BY <1>1, <1>2, <1>3, PTL DEF Spec

-----------------------------------------------------------------------------
(* The cooldown *)

(* Whatever the outcome, known or not, the wait is one the author set, and  *)
(* no shorter than the shortest.                                            *)
LEMMA ShortestIsShort ==
  ASSUME NEW pol \in RetakePolicy(Nat), NEW passed \in Outcome
  PROVE  LET d == resolveCooldownDays(pol, passed)
             n == IF d = Null THEN 0 ELSE d
         IN  n \in Nat /\ Shortest(pol) \in Nat /\ Shortest(pol) <= n
<1> DEFINE d == resolveCooldownDays(pol, passed)
           p == pol.daysPassed
           f == pol.daysFailed
           all == IF pol.byOutcome THEN {p, f} \ {Null} ELSE {pol.days} \ {Null}
<1>1. /\ p \in Nat \cup {Null} /\ f \in Nat \cup {Null} /\ pol.days \in Nat \cup {Null}
      /\ pol.byOutcome \in BOOLEAN /\ Null \notin Nat
  BY GateAssumption DEF RetakePolicy
<1>2. d = Null \/ d \in all
  <2>1. CASE ~pol.byOutcome
    BY <1>1, <2>1 DEF resolveCooldownDays
  <2>2. CASE pol.byOutcome /\ p = Null
    BY <1>1, <2>2 DEF resolveCooldownDays
  <2>3. CASE pol.byOutcome /\ p # Null /\ f = Null
    BY <1>1, <2>3 DEF resolveCooldownDays
  <2>4. CASE pol.byOutcome /\ p # Null /\ f # Null
    BY <1>1, <2>4 DEF resolveCooldownDays, Larger, Outcome
  <2> QED
    BY <1>1, <2>1, <2>2, <2>3, <2>4
<1>3. all = {} => d = Null
  BY <1>2
<1>4. all # {} => d # Null
  <2>1. CASE ~pol.byOutcome
    BY <1>1, <2>1 DEF resolveCooldownDays
  <2>2. CASE pol.byOutcome /\ p = Null
    BY <1>1, <2>2 DEF resolveCooldownDays
  <2>3. CASE pol.byOutcome /\ p # Null /\ f = Null
    BY <1>1, <2>3 DEF resolveCooldownDays
  <2>4. CASE pol.byOutcome /\ p # Null /\ f # Null
    BY <1>1, <2>4 DEF resolveCooldownDays, Larger, Outcome
  <2> QED
    BY <1>1, <2>1, <2>2, <2>3, <2>4
<1>5. all \subseteq Nat /\ Shortest(pol) =
        IF all = {} THEN 0 ELSE CHOOSE m \in all : \A e \in all : m <= e
  BY <1>1 DEF Shortest
<1>6. all # {} => \E m \in all : \A e \in all : m <= e
  <2>1. \E x, y \in Nat : all = {} \/ all = {x} \/ all = {x, y}
    BY <1>1
  <2> QED
    BY <2>1
<1> HIDE DEF all, d
<1>7. CASE all = {}
  BY <1>3, <1>5, <1>7 DEF d
<1>8. CASE all # {}
  <2>1. Shortest(pol) \in all /\ \A e \in all : Shortest(pol) <= e
    BY <1>5, <1>6, <1>8
  <2>2. d \in all /\ d # Null
    BY <1>2, <1>4, <1>8
  <2> QED
    BY <1>5, <2>1, <2>2 DEF d
<1> QED
  BY <1>7, <1>8

LEMMA DatesStep ==
  ASSUME TypeOK, Counted(gate), Dates, [Next]_vars
  PROVE  Dates'
<1>1. day \in Nat /\ gate.today \in Nat /\ \A r \in Regs : records[r].usedOn \in Nat
  BY DEF TypeOK, Days, Gate, Record
<1>2. CASE Launch
  <2>1. records' = records /\ day' = day
    BY <1>2 DEF Launch, Becomes, world
  <2> QED
    BY <1>2, <2>1, LaunchFacts DEF Dates
<1>3. CASE ChromeAnswers \/ ClockTimeout \/ RecordsAnswer \/ RecordsFail \/ GateTimeout
  <2>1. records' = records /\ day' = day
    BY <1>3 DEF ChromeAnswers, ClockTimeout, RecordsAnswer, RecordsFail, GateTimeout, Becomes, world
  <2> QED
    BY <1>1, <1>3, <2>1, GateSteps DEF Dates, Proceeds
<1>4. CASE Tick
  <2>1. records' = records /\ day' = day
    BY <1>4 DEF Tick, world
  <2>2. gate'.inTime = gate.inTime /\ gate'.chrome = gate.chrome /\ gate'.today = gate.today
    BY <1>4 DEF Tick, TypeOK, Gate
  <2> QED
    BY <2>1, <2>2 DEF Dates
<1>5. CASE StartAttempt \/ SaveSession
  <2>1. day' = day
    BY <1>5 DEF StartAttempt, SaveSession, InCourse
  <2>2. gate'.inTime = gate.inTime /\ gate'.chrome = gate.chrome /\ gate'.today = gate.today
    BY <1>5 DEF StartAttempt, SaveSession, TypeOK, Gate
  <2>3. \A r \in Regs : /\ records'[r].usedOn = records[r].usedOn
                        /\ records'[r].finishedOn = records[r].finishedOn
    BY <1>5 DEF StartAttempt, SaveSession, TypeOK, Record
  <2> QED
    BY <2>1, <2>2, <2>3 DEF Dates
<1>6. CASE FinishAttempt
  <2>1. day' = day
    BY <1>6 DEF FinishAttempt, InCourse
  <2>2. gate'.inTime = gate.inTime /\ gate'.chrome = gate.chrome /\ gate'.today = gate.today
    BY <1>6 DEF FinishAttempt, TypeOK, Gate
  <2>3. \A r \in Regs : \/ records'[r] = records[r]
                        \/ records'[r].usedOn = day /\ records'[r].finishedOn = day
    BY <1>6 DEF FinishAttempt, TypeOK, Record
  <2> QED
    BY <1>1, <2>1, <2>2, <2>3 DEF Dates
<1>7. CASE Close
  <2>1. day' = day /\ ~gate'.inTime
    BY <1>7 DEF Close, Off
  <2>2. \A r \in Regs : \/ records'[r] = records[r]
                        \/ /\ records'[r].usedOn = day
                           /\ records'[r].finishedOn = records[r].finishedOn
    BY <1>7 DEF Close, TypeOK, Record
  <2>3. \A r \in Regs : records[r].finishedOn # Null => records[r].finishedOn \in Nat
    BY DEF TypeOK, Record, Days
  <2> QED
    BY <1>1, <2>1, <2>2, <2>3 DEF Dates
<1>8. CASE NextDay
  <2>1. gate' = gate /\ records' = records /\ day' = day + 1
    BY <1>8 DEF NextDay
  <2>2. \A n \in Nat : n <= day => n <= day + 1
    BY <1>1
  <2> QED
    BY <1>1, <2>1, <2>2 DEF Dates
<1>9. CASE TemplateTimeout \/ Reassign \/ UNCHANGED vars \/ \E k \in 1 .. 2 : TemplateLands(k)
  <2>1. gate' = gate /\ records' = records /\ day' = day
    BY <1>9 DEF TemplateTimeout, TemplateLands, Reassign, vars, world
  <2> QED
    BY <2>1 DEF Dates
<1>10. CASE CourseBegins
  BY <1>10, BeginsFacts DEF Dates
<1> QED
  BY <1>2, <1>3, <1>4, <1>5, <1>6, <1>7, <1>8, <1>9, <1>10 DEF Next, Timers

(* Of the finished rows one is used last: take the row that the fewest rows *)
(* come after, by the well-foundedness of inclusion.                        *)
LEMMA SomeRowIsLast ==
  ASSUME TypeOK, NEW q \in Regs, records[q].finishedOn # Null
  PROVE  LastRecords # {}
<1> DEFINE finished == {r \in Regs : records[r].finishedOn # Null}
           After(r) == {x \in finished : records[x].usedOn > records[r].usedOn}
           T == {After(r) : r \in finished}
<1>1. \A r \in Regs : records[r].usedOn \in Nat
  BY DEF TypeOK, Record, Days
<1>2. IsFiniteSet(Regs) /\ T \subseteq FiniteSubsetsOf(Regs) /\ T # {}
  <2>1. IsFiniteSet(Regs)
    BY GateAssumption, FS_Interval DEF Regs
  <2>2. FiniteSubsetsOf(Regs) = SUBSET Regs
    BY <2>1, FS_FiniteSubsetsOfFinite
  <2>3. T \subseteq SUBSET Regs /\ After(q) \in T
    OBVIOUS
  <2> QED
    BY <2>1, <2>2, <2>3
<1>3. PICK U \in T : \A V \in T : ~ (<<V, U>> \in StrictSubsetOrdering(Regs))
  <2> HIDE DEF T
  <2>1. IsWellFoundedOn(StrictSubsetOrdering(Regs), FiniteSubsetsOf(Regs))
    BY FS_StrictSubsetOrderingWellFounded
  <2> QED
    BY <1>2, <2>1, WFMin
<1>4. PICK r \in finished : U = After(r)
  OBVIOUS
<1>5. SUFFICES ASSUME NEW x \in finished, records[x].usedOn > records[r].usedOn
               PROVE  FALSE
  BY <1>1 DEF LastRecords
<1>6. After(x) \subseteq After(r) /\ x \in After(r) /\ x \notin After(x)
  BY <1>1, <1>5
<1>7. <<After(x), After(r)>> \in StrictSubsetOrdering(Regs)
  BY <1>6 DEF StrictSubsetOrdering
<1> QED
  BY <1>3, <1>4, <1>7

(* What the records let through has waited the shortest wait.               *)
LEMMA VerdictServes ==
  ASSUME TypeOK, Dates, RecordsAnswer, gate'.phase = "loading",
         gate.inTime, Dated(gate.chrome),
         NEW q \in Regs, records[q].finishedOn # Null
  PROVE  day >= records[q].finishedOn + Shortest(pkg.policy)
<1>1. PICK r \in LastRecords : Becomes(Settle(gate, cooldownAllows(r, gate.today), "records"))
  BY SomeRowIsLast DEF RecordsAnswer
<1>2. cooldownAllows(r, gate.today)
  <2>1. gate' = Settle(gate, cooldownAllows(r, gate.today), "records")
    BY <1>1 DEF Becomes
  <2>2. cooldownAllows(r, gate.today) \in BOOLEAN
    BY DEF cooldownAllows, cooldownDecision
  <2>3. gate \in Gate
    BY DEF TypeOK
  <2> QED
    BY <2>1, <2>2, <2>3, SettleFacts
<1>3. r \in Regs /\ records[q].usedOn <= records[r].usedOn
  BY DEF LastRecords
<1>4. /\ day \in Nat /\ gate.today \in Nat /\ gate.today <= day
      /\ records[r].usedOn \in Nat /\ records[r].usedOn <= day
      /\ records[q].usedOn \in Nat /\ records[q].finishedOn \in Nat
      /\ records[q].finishedOn <= records[q].usedOn
  BY <1>3 DEF TypeOK, Dates, Days, Gate, Record
<1> DEFINE d == resolveCooldownDays(pkg.policy, recordPassed(r))
           n == IF d = Null THEN 0 ELSE d
<1>5. n \in Nat /\ Shortest(pkg.policy) \in Nat /\ Shortest(pkg.policy) <= n
  <2>1. pkg.policy \in RetakePolicy(Nat)
    BY PackageAssumption DEF TypeOK, PackageType
  <2>2. recordPassed(r) \in Outcome
    BY DEF recordPassed, Outcome
  <2> QED
    BY <2>1, <2>2, ShortestIsShort
<1>6. Larger(gate.today, records[r].usedOn) - records[r].usedOn >= n
  BY <1>2 DEF cooldownAllows, cooldownDecision
<1> HIDE DEF n
<1>7. day - records[r].usedOn >= n
  BY <1>4, <1>5, <1>6 DEF Larger
<1> QED
  BY <1>3, <1>4, <1>5, <1>7

LEMMA ServedStep ==
  ASSUME TypeOK, Counted(gate), Dates, CooldownServed, [Next]_vars
  PROVE  CooldownServed'
<1>1. day \in Nat /\ reg \in Nat
  BY DEF TypeOK, Days, Regs
<1>2. \A r \in Regs : records[r].finishedOn # Null => records[r].finishedOn \in Nat
  BY DEF TypeOK, Record, Days
<1>3. CASE Launch
  BY <1>3, LaunchFacts DEF CooldownServed, Admitted
<1>4. CASE ChromeAnswers \/ ClockTimeout \/ RecordsAnswer \/ RecordsFail \/ GateTimeout
  <2>1. records' = records /\ day' = day /\ reg' = reg /\ pkg' = pkg
    BY <1>4 DEF ChromeAnswers, ClockTimeout, RecordsAnswer, RecordsFail, GateTimeout, Becomes, world
  <2>2. SUFFICES ASSUME Admitted', gate'.decidedBy = "records",
                        gate'.inTime, Dated(gate'.chrome),
                        NEW q \in Regs, records[q].finishedOn # Null
                 PROVE  day >= records[q].finishedOn + Shortest(pkg.policy)
    BY <2>1 DEF CooldownServed, Dated
  <2>3. RecordsAnswer /\ gate'.phase = "loading"
    BY <1>4, <2>2, GateSteps DEF Proceeds, Admitted
  <2>4. gate.inTime /\ Dated(gate.chrome)
    <3>1. PICK a \in BOOLEAN : gate' = Settle(gate, a, "records")
      <4>1. \A r \in LastRecords : cooldownAllows(r, gate.today) \in BOOLEAN
        BY DEF cooldownAllows, cooldownDecision
      <4> QED
        BY <2>3, <4>1 DEF RecordsAnswer, Becomes
    <3> QED
      BY <2>2, <3>1, SettleFacts DEF Keeps, TypeOK
  <2> QED
    BY <2>2, <2>3, <2>4, VerdictServes
<1>5. CASE Tick
  <2>1. records' = records /\ day' = day /\ reg' = reg /\ pkg' = pkg
    BY <1>5 DEF Tick, world
  <2>2. gate' = gate \/ gate'.phase \notin {"loading", "course"}
    BY <1>5 DEF Tick, Asking, TypeOK, Gate
  <2> QED
    BY <2>1, <2>2 DEF CooldownServed, Admitted
<1>6. CASE StartAttempt \/ SaveSession \/ FinishAttempt
  <2>1. day' = day /\ reg' = reg /\ pkg' = pkg
    BY <1>6 DEF StartAttempt, SaveSession, FinishAttempt, InCourse
  <2>2. /\ gate'.phase = gate.phase /\ gate'.decidedBy = gate.decidedBy
        /\ gate'.inTime = gate.inTime /\ gate'.chrome = gate.chrome
    BY <1>6 DEF StartAttempt, SaveSession, FinishAttempt, TypeOK, Gate
  <2>3. \A r \in Regs : r # reg => records'[r] = records[r]
    BY <1>6 DEF StartAttempt, SaveSession, FinishAttempt, TypeOK
  <2> QED
    BY <1>1, <2>1, <2>2, <2>3 DEF CooldownServed, Admitted, Regs
<1>7. CASE Close
  BY <1>7 DEF Close, Off, CooldownServed, Admitted
<1>8. CASE Reassign
  BY <1>8 DEF Reassign, CooldownServed, Admitted
<1>9. CASE NextDay
  <2>1. gate' = gate /\ records' = records /\ reg' = reg /\ pkg' = pkg /\ day' = day + 1
    BY <1>9 DEF NextDay
  <2>2. Shortest(pkg.policy) \in Nat
    <3>1. pkg.policy \in RetakePolicy(Nat) /\ "yes" \in Outcome
      BY PackageAssumption DEF TypeOK, PackageType, Outcome
    <3> QED
      BY <3>1, ShortestIsShort
  <2> QED
    BY <1>1, <1>2, <2>1, <2>2 DEF CooldownServed, Admitted
<1>10. CASE TemplateTimeout \/ UNCHANGED vars \/ \E k \in 1 .. 2 : TemplateLands(k)
  <2>1. gate' = gate /\ records' = records /\ day' = day /\ reg' = reg /\ pkg' = pkg
    BY <1>10 DEF TemplateTimeout, TemplateLands, vars, world
  <2> QED
    BY <2>1 DEF CooldownServed, Admitted
<1>11. CASE CourseBegins
  BY <1>11, BeginsFacts DEF CooldownServed, Admitted
<1> QED
  BY <1>3, <1>4, <1>5, <1>6, <1>7, <1>8, <1>9, <1>10, <1>11 DEF Next, Timers

(* The trusted date: for any policy, any outcomes and any machine clock,    *)
(* what the records open under the portal's own calendar has waited.        *)
THEOREM ServedBeforeOpened == Spec => []CooldownServed
<1> DEFINE Inv == TypeOK /\ Counted(gate) /\ Dates /\ CooldownServed
<1>1. Init => Inv
  <2> SUFFICES ASSUME Init PROVE Inv
    OBVIOUS
  <2>1. TypeOK /\ Counted(gate) /\ CooldownServed
    BY TypeInit, GateAssumption DEF Init, Off, Counted, CooldownServed, Admitted
  <2>2. Dates
    BY DEF Init, Off, NewRecord, Dates
  <2> QED
    BY <2>1, <2>2
<1>2. Inv /\ [Next]_vars => Inv'
  BY TypeStep, BudgetStep, DatesStep, ServedStep
<1> QED
  BY <1>1, <1>2, PTL DEF Spec

-----------------------------------------------------------------------------
(* The retake gate over the histories of RetakeHistory.                     *)

Fact == [assignment : Nat, finishedAt : Nat, passed : Outcome]

(* Attempts finished so far: what a decision is asked about.                *)
HistoryInv ==
  /\ policy \in RetakePolicy(Nat)
  /\ facts \in SUBSET Fact /\ IsFiniteSet(facts)
  /\ current \in Nat
  /\ now \in Hours

Inside(F, cur)  == {f \in Finished(F) : f.assignment = cur}
Outside(F, cur) == {f \in Finished(F) : f.assignment # cur}

Configured(pol) == pol.enabled /\ (pol.days # Null \/ pol.byOutcome)

LEMMA HistoryStep ==
  ASSUME HistoryInv, [RetakeNext]_retakeVars
  PROVE  HistoryInv'
<1>0. MaxHour \in Nat /\ now \in Nat
  BY HistoryAssumption DEF HistoryInv, Hours
<1>1. CASE Finish
  <2>1. PICK out \in Outcome :
          facts' = facts \cup {[assignment |-> current, finishedAt |-> now, passed |-> out]}
    BY <1>1 DEF Finish
  <2>2. facts' \in SUBSET Fact
    BY <1>0, <2>1 DEF HistoryInv, Fact
  <2>3. IsFiniteSet(facts')
    BY <2>1, FS_AddElement DEF HistoryInv
  <2> QED
    BY <1>1, <2>2, <2>3 DEF Finish, HistoryInv
<1>2. CASE ReplaceAssignment
  BY <1>2 DEF ReplaceAssignment, HistoryInv
<1>3. CASE HourPasses
  <2>1. now' \in Hours
    BY <1>0, <1>3 DEF HourPasses, Hours
  <2> QED
    BY <1>3, <2>1 DEF HourPasses, HistoryInv
<1>4. CASE SetClockBack
  <2>1. now' \in Hours
    BY <1>0, <1>4 DEF SetClockBack, HistoryInv, Hours
  <2> QED
    BY <1>4, <2>1 DEF SetClockBack, HistoryInv
<1>5. CASE UNCHANGED retakeVars
  BY <1>5 DEF retakeVars, HistoryInv
<1> QED
  BY <1>1, <1>2, <1>3, <1>4, <1>5 DEF RetakeNext

(* A finite set of natural numbers has a greatest element.                  *)
LEMMA FiniteHasGreatest ==
  ASSUME NEW S \in SUBSET Nat, IsFiniteSet(S), S # {}
  PROVE  \E m \in S : \A i \in S : i <= m
<1> DEFINE Above(x) == {y \in S : y > x}
           sizes == {Cardinality(Above(x)) : x \in S}
<1>1. \A x \in S : IsFiniteSet(Above(x)) /\ Cardinality(Above(x)) \in Nat
  <2> SUFFICES ASSUME NEW x \in S PROVE IsFiniteSet(Above(x)) /\ Cardinality(Above(x)) \in Nat
    OBVIOUS
  <2>1. Above(x) \subseteq S
    OBVIOUS
  <2> HIDE DEF Above
  <2>2. IsFiniteSet(Above(x))
    BY <2>1, FS_Subset
  <2> QED
    BY <2>2, FS_CardinalityType
<1>2. sizes \subseteq Nat /\ sizes # {}
  <2> HIDE DEF Above
  <2> QED
    BY <1>1
<1>3. PICK n \in sizes : \A k \in sizes : ~ (<<k, n>> \in OpToRel(<, Nat))
  <2> HIDE DEF sizes
  <2> QED
    BY <1>2, NatLessThanWellFounded, WFMin
<1>4. PICK m \in S : n = Cardinality(Above(m))
  <2> HIDE DEF Above
  <2> QED
    BY DEF sizes
<1>5. SUFFICES ASSUME NEW i \in S, i > m PROVE FALSE
  <2>1. m \in Nat /\ \A i \in S : i \in Nat
    OBVIOUS
  <2> QED
    BY <2>1
<1>6. /\ Above(i) \subseteq Above(m) /\ i \in Above(m) /\ i \notin Above(i)
  <2>1. i \in Nat /\ m \in Nat /\ \A y \in S : y \in Nat
    OBVIOUS
  <2>2. (\A y \in S : y > i => y > m) /\ ~ (i > i)
    BY <1>5, <2>1
  <2> QED
    BY <1>5, <2>2, Zenon
<1>7. Cardinality(Above(i)) < Cardinality(Above(m))
  <2>1. IsFiniteSet(Above(m)) /\ IsFiniteSet(Above(i))
    BY <1>1
  <2> HIDE DEF Above
  <2>2. Above(i) # Above(m)
    BY <1>6
  <2>3. Cardinality(Above(i)) <= Cardinality(Above(m))
    BY <1>6, <2>1, FS_Subset
  <2>4. Cardinality(Above(i)) # Cardinality(Above(m))
    BY <1>6, <2>1, <2>2, FS_Subset
  <2>5. Cardinality(Above(i)) \in Nat /\ Cardinality(Above(m)) \in Nat
    BY <1>1, Zenon
  <2> HIDE DEF sizes
  <2> QED
    BY <2>3, <2>4, <2>5
<1>8. Cardinality(Above(i)) \in sizes
  <2> HIDE DEF Above
  <2> QED
    OBVIOUS
<1> QED
  <2>1. Cardinality(Above(i)) \in Nat /\ n \in Nat
    BY <1>1, <1>2
  <2>2. <<Cardinality(Above(i)), n>> \in OpToRel(<, Nat)
    <3> HIDE DEF Above, sizes
    <3> QED
      BY <1>4, <1>7, <2>1 DEF OpToRel
  <2> QED
    BY <1>3, <1>8, <2>2

(* The newest of a non-empty finite set of attempts.                        *)
LEMMA NewestOfFacts ==
  ASSUME NEW S \in SUBSET Fact, IsFiniteSet(S), S # {}
  PROVE  /\ lastCompletedAttempt(S) \in S
         /\ lastCompletedAttempt(S).finishedAt \in Nat
         /\ lastCompletedAttempt(S).passed \in Outcome
<1> DEFINE T == {f.finishedAt : f \in S}
<1>1. T \in SUBSET Nat /\ T # {}
  BY DEF Fact
<1>2. IsFiniteSet(T)
  <2> DEFINE g == [f \in S |-> f.finishedAt]
  <2>1. g \in Surjection(S, T)
    BY DEF Surjection
  <2> HIDE DEF g, T
  <2> QED
    BY <2>1, FS_Surjection
<1>3. PICK m \in T : \A i \in T : i <= m
  <2> HIDE DEF T
  <2> QED
    BY <1>1, <1>2, FiniteHasGreatest
<1>4. PICK f \in S : f.finishedAt = m
  OBVIOUS
<1>5. \A g \in S : g.finishedAt <= f.finishedAt
  BY <1>3, <1>4
<1>6. lastCompletedAttempt(S) \in S
  BY <1>4, <1>5 DEF lastCompletedAttempt
<1> QED
  BY <1>6 DEF Fact

(* A period that applies is one the author configured, and so not longer    *)
(* than the longest of them.                                                *)
LEMMA PeriodIsConfigured ==
  ASSUME NEW pol \in RetakePolicy(Nat), NEW out \in Outcome,
         resolveCooldownDays(pol, out) # Null
  PROVE  /\ resolveCooldownDays(pol, out) \in Nat
         /\ resolveCooldownDays(pol, out) \in {pol.days, pol.daysPassed, pol.daysFailed} \ {Null}
<1> DEFINE p == pol.daysPassed
           f == pol.daysFailed
<1>1. /\ p \in Nat \cup {Null} /\ f \in Nat \cup {Null} /\ pol.days \in Nat \cup {Null}
      /\ pol.byOutcome \in BOOLEAN
  BY DEF RetakePolicy
<1> HIDE DEF p, f
<1>2. Larger(p, f) = p \/ Larger(p, f) = f
  BY DEF Larger
<1>3. \/ resolveCooldownDays(pol, out) = pol.days
      \/ resolveCooldownDays(pol, out) = p
      \/ resolveCooldownDays(pol, out) = f
  <2>1. CASE ~pol.byOutcome
    BY <2>1 DEF resolveCooldownDays, p, f
  <2>2. CASE pol.byOutcome /\ p = Null
    BY <2>2 DEF resolveCooldownDays, p, f
  <2>3. CASE pol.byOutcome /\ p # Null /\ f = Null
    BY <2>3 DEF resolveCooldownDays, p, f
  <2>4. CASE pol.byOutcome /\ p # Null /\ f # Null
    <3> HIDE DEF Larger
    <3> QED
      BY <1>2, <2>4 DEF resolveCooldownDays, p, f, Outcome
  <2> QED
    BY <1>1, <2>1, <2>2, <2>3, <2>4
<1>4. \A d \in Nat \cup {Null} : d # Null => d \in Nat
  OBVIOUS
<1> QED
  BY <1>1, <1>3, <1>4 DEF p, f

LEMMA LongestIsLongest ==
  ASSUME policy \in RetakePolicy(Nat),
         NEW d \in {policy.days, policy.daysPassed, policy.daysFailed} \ {Null}
  PROVE  Longest \in Nat /\ d <= Longest
<1> DEFINE D == {policy.days, policy.daysPassed, policy.daysFailed}
           S == D \ {Null}
<1>1. S \in SUBSET Nat
  BY DEF RetakePolicy
<1>2. IsFiniteSet(S)
  <2>1. IsFiniteSet({policy.days}) /\ IsFiniteSet({policy.daysPassed}) /\ IsFiniteSet({policy.daysFailed})
    BY FS_Singleton
  <2>2. IsFiniteSet({policy.days} \cup {policy.daysPassed})
    BY <2>1, FS_Union
  <2>3. IsFiniteSet(({policy.days} \cup {policy.daysPassed}) \cup {policy.daysFailed})
    BY <2>1, <2>2, FS_Union
  <2>4. S \subseteq ({policy.days} \cup {policy.daysPassed}) \cup {policy.daysFailed}
    OBVIOUS
  <2> HIDE DEF S
  <2> QED
    BY <2>3, <2>4, FS_Subset
<1>3. d \in S
  OBVIOUS
<1>4. \E m \in S : \A i \in S : i <= m
  <2> HIDE DEF S
  <2> QED
    BY <1>1, <1>2, <1>3, FiniteHasGreatest
<1>5. Longest = CHOOSE m \in S : \A i \in S : i <= m
  BY DEF Longest
<1> HIDE DEF S
<1> QED
  BY <1>1, <1>3, <1>4, <1>5

(* Barrier B refuses until the interval after the last attempt is over.     *)
LEMMA InsideDecides ==
  ASSUME NEW pol \in RetakePolicy(Nat), NEW cur \in Nat,
         NEW F \in SUBSET Fact, IsFiniteSet(F), Inside(F, cur) # {}, Null \notin Nat
  PROVE  \/ \A t : decideRetake(pol, cur, F, t) = Granted
         \/ \E opens \in Nat : \A t \in Nat :
              IF t >= opens \/ pol.interval = 0 THEN decideRetake(pol, cur, F, t) = Granted
              ELSE decideRetake(pol, cur, F, t) =
                     [allowed |-> FALSE, blockedBy |-> "attemptInterval",
                      available |-> opens, daysUntil |-> Null]
<1> DEFINE last == lastCompletedAttempt(Inside(F, cur)).finishedAt
           answer(t) ==
             IF pol.interval = Null \/ attemptIntervalDecision(last, t, pol.interval).allowed
             THEN Granted
             ELSE [allowed |-> FALSE, blockedBy |-> "attemptInterval",
                   available |-> attemptIntervalDecision(last, t, pol.interval).availableAt,
                   daysUntil |-> Null]
<1>1. last \in Nat
  <2>1. Inside(F, cur) \in SUBSET Fact /\ Inside(F, cur) \subseteq F
    BY DEF Inside, Finished
  <2>2. IsFiniteSet(Inside(F, cur))
    BY <2>1, FS_Subset
  <2> QED
    BY <2>1, <2>2, NewestOfFacts
<1>2. \A t : decideRetake(pol, cur, F, t) = answer(t)
  BY DEF decideRetake, Inside
<1> HIDE DEF last
<1>3. pol.interval \in Nat \cup {Null}
  BY DEF RetakePolicy
<1>4. CASE pol.interval = Null
  BY <1>2, <1>4
<1>5. CASE pol.interval # Null
  <2> DEFINE n == pol.interval
             opens == last + n
  <2>1. n \in Nat /\ opens \in Nat
    BY <1>1, <1>3, <1>5
  <2>2. \A t : /\ attemptIntervalDecision(last, t, n).allowed = (Larger(t, last) - last >= n)
               /\ attemptIntervalDecision(last, t, n).availableAt = opens
    BY DEF attemptIntervalDecision
  <2>3. \A t \in Nat : Larger(t, last) - last >= n <=> t >= opens \/ n = 0
    <3> HIDE DEF n
    <3> QED
      BY <1>1, <2>1 DEF Larger
  <2>4. \A t \in Nat :
          answer(t) = IF t >= opens \/ n = 0 THEN Granted
                      ELSE [allowed |-> FALSE, blockedBy |-> "attemptInterval",
                            available |-> opens, daysUntil |-> Null]
    <3> HIDE DEF opens
    <3> QED
      BY <1>5, <2>2, <2>3 DEF n
  <2>5. \A t \in Nat :
          IF t >= opens \/ pol.interval = 0 THEN decideRetake(pol, cur, F, t) = Granted
          ELSE decideRetake(pol, cur, F, t) =
                 [allowed |-> FALSE, blockedBy |-> "attemptInterval",
                  available |-> opens, daysUntil |-> Null]
    <3> HIDE DEF opens, answer
    <3> QED
      BY <1>2, <2>4 DEF n
  <2> HIDE DEF opens
  <2> QED
    BY <2>1, <2>5
<1> QED
  BY <1>4, <1>5

(* Barrier A refuses until the period after the anchoring attempt is over,  *)
(* counting from that attempt when the clock is behind it.                  *)
CooldownRefusal(pol, cur, F, anchor, period, t) ==
  decideRetake(pol, cur, F, t) =
    IF period = 0 \/ DayOf(t) >= anchor + period THEN Granted
    ELSE [allowed |-> FALSE, blockedBy |-> "cooldown", available |-> anchor + period,
          daysUntil |-> anchor + period - Larger(DayOf(t), anchor)]

LEMMA DayType ==
  ASSUME NEW t \in Nat
  PROVE  DayOf(t) \in Nat
BY HoursAssumption DEF DayOf

LEMMA CooldownArithmetic ==
  ASSUME NEW D \in Nat, NEW today \in Nat, NEW period \in Nat
  PROVE  LET c == cooldownDecision(D, today, period)
         IN  /\ c.allowed <=> period = 0 \/ today >= D + period
             /\ c.availableDate = D + period
             /\ ~c.allowed => daysUntilDate(c.availableDate, c.effectiveToday)
                                = D + period - Larger(today, D)
<1> DEFINE c == cooldownDecision(D, today, period)
<1>1. /\ c.allowed = (Larger(today, D) - D >= period) /\ c.availableDate = D + period
      /\ c.effectiveToday = Larger(today, D)
  BY DEF cooldownDecision
<1> HIDE DEF c
<1>2. Larger(today, D) \in Nat
  BY DEF Larger
<1>3. Larger(today, D) - D >= period <=> period = 0 \/ today >= D + period
  BY DEF Larger
<1>4. ~ (Larger(today, D) - D >= period) => D + period > Larger(today, D)
  <2> HIDE DEF Larger
  <2> QED
    BY <1>2
<1>5. c.allowed <=> Larger(today, D) - D >= period
  BY <1>1, Zenon
<1>6. ~c.allowed => daysUntilDate(c.availableDate, c.effectiveToday) = D + period - Larger(today, D)
  <2>1. SUFFICES ASSUME ~c.allowed
                 PROVE  daysUntilDate(c.availableDate, c.effectiveToday)
                          = D + period - Larger(today, D)
    OBVIOUS
  <2>2. D + period > Larger(today, D)
    BY <1>4, <1>5, <2>1, Zenon
  <2>3. daysUntilDate(D + period, Larger(today, D)) = D + period - Larger(today, D)
    <3> DEFINE m == Larger(today, D)
    <3>1. m \in Nat /\ D + period > m
      BY <1>2, <2>2
    <3> HIDE DEF m
    <3>2. daysUntilDate(D + period, m) = D + period - m
      BY <3>1 DEF daysUntilDate
    <3> QED
      BY <3>2 DEF m
  <2> QED
    BY <1>1, <2>3, Zenon
<1>7. c.allowed <=> period = 0 \/ today >= D + period
  BY <1>3, <1>5, Zenon
<1> QED
  BY <1>1, <1>6, <1>7, Zenon DEF c

LEMMA OutsideDecides ==
  ASSUME NEW pol \in RetakePolicy(Nat), NEW cur \in Nat,
         NEW F \in SUBSET Fact, IsFiniteSet(F), Inside(F, cur) = {}, Null \notin Nat
  PROVE  \/ \A t : decideRetake(pol, cur, F, t) = Granted
         \/ \E anchor \in F, period \in {pol.days, pol.daysPassed, pol.daysFailed} \ {Null} :
              \A t \in Nat : CooldownRefusal(pol, cur, F, DayOf(anchor.finishedAt), period, t)
<1> DEFINE outside == Outside(F, cur)
           anchor  == lastCompletedAttempt(outside)
           D       == DayOf(anchor.finishedAt)
           period  == resolveCooldownDays(pol, anchor.passed)
           c(t)    == cooldownDecision(D, DayOf(t), period)
<1>1. \A t : decideRetake(pol, cur, F, t) =
        IF ~Configured(pol) \/ outside = {} \/ period = Null \/ c(t).allowed THEN Granted
        ELSE [allowed |-> FALSE, blockedBy |-> "cooldown", available |-> c(t).availableDate,
              daysUntil |-> daysUntilDate(c(t).availableDate, c(t).effectiveToday)]
  BY DEF decideRetake, Inside, Outside, Configured
<1>2. CASE ~Configured(pol) \/ outside = {} \/ period = Null
  <2> HIDE DEF outside, period, c
  <2> QED
    BY <1>1, <1>2
<1>3. CASE Configured(pol) /\ outside # {} /\ period # Null
  <2>1. anchor \in F /\ anchor.finishedAt \in Nat /\ anchor.passed \in Outcome
    <3>1. outside \in SUBSET Fact /\ outside \subseteq F
      BY DEF Outside, Finished
    <3>2. IsFiniteSet(outside)
      BY <3>1, FS_Subset
    <3> HIDE DEF outside
    <3> QED
      BY <1>3, <3>1, <3>2, NewestOfFacts
  <2>2. period \in Nat /\ period \in {pol.days, pol.daysPassed, pol.daysFailed} \ {Null}
    BY <1>3, <2>1, PeriodIsConfigured
  <2>3. D \in Nat
    BY <2>1, DayType
  <2>4. \A t \in Nat : CooldownRefusal(pol, cur, F, D, period, t)
    <3> SUFFICES ASSUME NEW t \in Nat PROVE CooldownRefusal(pol, cur, F, D, period, t)
      OBVIOUS
    <3>1. DayOf(t) \in Nat
      BY DayType
    <3> HIDE DEF D, period, outside
    <3>2. /\ c(t).allowed <=> period = 0 \/ DayOf(t) >= D + period
          /\ c(t).availableDate = D + period
          /\ ~c(t).allowed => daysUntilDate(c(t).availableDate, c(t).effectiveToday)
                                = D + period - Larger(DayOf(t), D)
      BY <2>2, <2>3, <3>1, CooldownArithmetic
    <3> HIDE DEF c
    <3> QED
      BY <1>1, <1>3, <3>2 DEF CooldownRefusal
  <2> HIDE DEF period, anchor
  <2> QED
    BY <2>1, <2>2, <2>4
<1> QED
  BY <1>2, <1>3

(* What a refusal says is what the gate does, whatever the history.         *)
LEMMA HistoryExact ==
  ASSUME HistoryInv
  PROVE  RefusalIsExact
<1>0. /\ policy \in RetakePolicy(Nat) /\ facts \in SUBSET Fact /\ IsFiniteSet(facts)
      /\ current \in Nat /\ now \in Nat /\ Null \notin Nat /\ Hours \subseteq Nat
  BY HistoryAssumption DEF HistoryInv, Hours
<1>1. Granted.allowed /\ Granted.blockedBy = Null
  BY DEF Granted
<1>2. CASE \A t : Decision(t) = Granted
  BY <1>1, <1>2, HistoryAssumption DEF RefusalIsExact, AvailableIsExact, CountdownAgrees
<1>3. CASE Inside(facts, current) # {}
  <2>1. \/ \A t : Decision(t) = Granted
        \/ \E opens \in Nat : \A t \in Nat :
             IF t >= opens \/ policy.interval = 0 THEN Decision(t) = Granted
             ELSE Decision(t) =
                    [allowed |-> FALSE, blockedBy |-> "attemptInterval",
                     available |-> opens, daysUntil |-> Null]
    BY <1>0, <1>3, InsideDecides DEF Decision
  <2>2. SUFFICES ASSUME NEW opens \in Nat,
                   \A t \in Nat :
                     IF t >= opens \/ policy.interval = 0 THEN Decision(t) = Granted
                     ELSE Decision(t) =
                            [allowed |-> FALSE, blockedBy |-> "attemptInterval",
                             available |-> opens, daysUntil |-> Null]
                 PROVE  RefusalIsExact
    BY <1>2, <2>1
  <2>3. \A t \in Nat :
          /\ t >= opens \/ policy.interval = 0 => Decision(t) = Granted
          /\ ~ (t >= opens \/ policy.interval = 0) =>
               ~Decision(t).allowed /\ Decision(t).blockedBy = "attemptInterval" /\ Decision(t).available = opens
    BY <2>2
  <2>4. AvailableIsExact
    BY <1>0, <1>1, <2>3 DEF AvailableIsExact
  <2>5. Decision(now).blockedBy # "cooldown"
    BY <1>0, <1>1, <2>3, HistoryAssumption
  <2> QED
    BY <2>4, <2>5 DEF RefusalIsExact, CountdownAgrees
<1>4. CASE Inside(facts, current) = {}
  <2>1. \/ \A t : Decision(t) = Granted
        \/ \E anchor \in facts, period \in {policy.days, policy.daysPassed, policy.daysFailed} \ {Null} :
             \A t \in Nat : CooldownRefusal(policy, current, facts, DayOf(anchor.finishedAt), period, t)
    BY <1>0, <1>4, OutsideDecides DEF Decision
  <2>2. SUFFICES ASSUME NEW anchor \in facts,
                        NEW period \in {policy.days, policy.daysPassed, policy.daysFailed} \ {Null},
                        \A t \in Nat :
                          CooldownRefusal(policy, current, facts, DayOf(anchor.finishedAt), period, t)
                 PROVE  RefusalIsExact
    BY <1>2, <2>1
  <2> DEFINE D == DayOf(anchor.finishedAt)
  <2>3. anchor.finishedAt \in Nat /\ D \in Nat
    <3>1. anchor.finishedAt \in Nat
      BY <1>0 DEF Fact
    <3> QED
      BY <3>1, DayType
  <2>4. period \in Nat /\ Longest \in Nat /\ period <= Longest
    <3>1. period \in Nat
      BY <1>0 DEF RetakePolicy
    <3> QED
      BY <1>0, <3>1, LongestIsLongest
  <2>5. \A t \in Nat : DayOf(t) \in Nat
    BY DayType
  <2>6. \A t \in Nat :
          /\ period = 0 \/ DayOf(t) >= D + period => Decision(t) = Granted
          /\ ~ (period = 0 \/ DayOf(t) >= D + period) =>
               /\ ~Decision(t).allowed /\ Decision(t).blockedBy = "cooldown"
               /\ Decision(t).available = D + period
               /\ Decision(t).daysUntil = D + period - Larger(DayOf(t), D)
    <3> SUFFICES ASSUME NEW t \in Nat
                 PROVE  /\ period = 0 \/ DayOf(t) >= D + period => Decision(t) = Granted
                        /\ ~ (period = 0 \/ DayOf(t) >= D + period) =>
                             /\ ~Decision(t).allowed /\ Decision(t).blockedBy = "cooldown"
                             /\ Decision(t).available = D + period
                             /\ Decision(t).daysUntil = D + period - Larger(DayOf(t), D)
      OBVIOUS
    <3>1. Decision(t) =
            IF period = 0 \/ DayOf(t) >= D + period THEN Granted
            ELSE [allowed |-> FALSE, blockedBy |-> "cooldown", available |-> D + period,
                  daysUntil |-> D + period - Larger(DayOf(t), D)]
      BY <2>2 DEF CooldownRefusal, Decision
    <3> HIDE DEF D
    <3> DEFINE until == D + period - Larger(DayOf(t), D)
               opens == D + period
    <3>2. Decision(t) =
            IF period = 0 \/ DayOf(t) >= opens THEN Granted
            ELSE [allowed |-> FALSE, blockedBy |-> "cooldown", available |-> opens,
                  daysUntil |-> until]
      BY <3>1
    <3> HIDE DEF until, opens
    <3>3. /\ period = 0 \/ DayOf(t) >= opens => Decision(t) = Granted
          /\ ~ (period = 0 \/ DayOf(t) >= opens) =>
               /\ ~Decision(t).allowed /\ Decision(t).blockedBy = "cooldown"
               /\ Decision(t).available = opens /\ Decision(t).daysUntil = until
      BY <3>2
    <3> QED
      BY <3>3 DEF until, opens
  <2> HIDE DEF D
  <2>7. AvailableIsExact
    <3>1. ~Decision(now).allowed =>
            /\ period # 0 /\ Decision(now).blockedBy = "cooldown" /\ Decision(now).available = D + period
      BY <1>0, <1>1, <2>6
    <3>2. period # 0 => \A t \in Nat : Decision(t).allowed <=> DayOf(t) >= D + period
      BY <1>1, <2>6
    <3> QED
      BY <1>0, <3>1, <3>2 DEF AvailableIsExact
  <2>8. CountdownAgrees
    <3> SUFFICES ASSUME Decision(now).blockedBy = "cooldown" PROVE CountdownAgrees
      BY DEF CountdownAgrees
    <3>1. /\ period # 0 /\ ~ (DayOf(now) >= D + period)
          /\ Decision(now).daysUntil = D + period - Larger(DayOf(now), D)
      BY <1>0, <1>1, <2>6, HistoryAssumption
    <3>2. D + period - Larger(DayOf(now), D) \in 1 .. Longest
      <4>1. DayOf(now) \in Nat
        BY <1>0, <2>5
      <4> QED
        BY <2>3, <2>4, <3>1, <4>1 DEF Larger
    <3>3. ASSUME \A f \in facts : f.finishedAt <= now, NEW t \in Hours, t >= now
          PROVE  Decision(t).allowed <=> DayOf(t) - DayOf(now) >= Decision(now).daysUntil
      <4>1. DayOf(now) \in Nat /\ DayOf(t) \in Nat /\ t \in Nat
        BY <1>0, <2>5
      <4>2. D <= DayOf(now)
        BY <1>0, <2>3, <3>3, HoursAssumption DEF D, DayOf
      <4>3. Larger(DayOf(now), D) = DayOf(now)
        BY <4>2, Zenon DEF Larger
      <4>4. Decision(t).allowed <=> DayOf(t) >= D + period
        BY <1>1, <2>6, <3>1, <4>1
      <4>5. DayOf(t) >= D + period <=> DayOf(t) - DayOf(now) >= D + period - DayOf(now)
        BY <2>3, <2>4, <4>1
      <4> QED
        BY <3>1, <4>3, <4>4, <4>5
    <3> QED
      BY <3>1, <3>2, <3>3 DEF CountdownAgrees
  <2> QED
    BY <2>7, <2>8 DEF RefusalIsExact
<1> QED
  BY <1>3, <1>4

(* The retake gate, for any policy, any history and any clock: the moment   *)
(* the 403 body names is the one from which the gate lets in, and the days  *)
(* the learner reads are those left, at least one and never more than the   *)
(* author configured.                                                       *)
THEOREM RefusalsAreExact == RetakeSpec => []RefusalIsExact
<1>1. RetakeInit => HistoryInv
  <2>1. RetakeInit => facts \in SUBSET Fact /\ IsFiniteSet(facts)
    BY FS_EmptySet DEF RetakeInit
  <2>2. RetakeInit => current \in Nat /\ now \in Hours
    BY HistoryAssumption DEF RetakeInit, Hours
  <2>3. RetakePolicy(Periods) \subseteq RetakePolicy(Nat)
    <3>1. Periods \cup {Null} \subseteq Nat \cup {Null}
      BY HistoryAssumption
    <3> QED
      BY <3>1 DEF RetakePolicy
  <2> QED
    BY <2>1, <2>2, <2>3 DEF HistoryInv, RetakeInit
<1>2. HistoryInv /\ [RetakeNext]_retakeVars => HistoryInv'
  BY HistoryStep
<1>3. HistoryInv => RefusalIsExact
  BY HistoryExact
<1> QED
  BY <1>1, <1>2, <1>3, PTL DEF RetakeSpec

=============================================================================
