# Verification of the test-taking core

TLA+ models, model-checking runs and machine-checked proofs for the parts of the
system that decide who may take a test, what is delivered, what is stored and how
it is graded: on the server, in the author's editor and in the exported SCORM
package. The repository is the reference; every definition that models code names
its lines in `PROJECT.json` under `map`.

## 1. The system

An author assembles a test from topics and questions, publishes it and assigns
it, or exports it as a SCORM package. A learner starts an attempt in the browser
or in the package inside an LMS, answers, and finishes. The web server is one
Node process over one PostgreSQL database. A handler runs alone between two
`await`s and shares the database with every other handler at each of them; apart
from `updateTest`, `deleteTest` and the saves of settings, no handler opens a
transaction, and none takes a lock. A package is a page of its own: it keeps its
state in the LMS (`suspend_data`) and reports to the server over a link that may
fail.

### Inventory

| Part | State | Operations | What is hard | What makes it correct |
|---|---|---|---|---|
| Publication (`services/test-snapshot.ts`, `routes/tests.ts`) | test status, working content, `test_snapshots` | publish, force-republish, withdraw, restore, delete, prune | publications overlap each other and the starts of learners; status and snapshot are two writes; prune decides on stale reads | what is active is never pruned; what is frozen was judged |
| Attempt lifecycle (`routes/attempts.ts`, `attempts-repository.ts`, `assignments-repository.ts`) | `attempts`, `test_assignments` | start, save-progress, finish, reset, assign, unassign | the start is seven database calls; two tabs and retries | one open attempt; limit and barriers hold; finished stays finished; graded as delivered |
| Retake gate (`services/retake-gate.ts`, `shared/eligibility`) | none | `decideRetake` | two time scales, an untrusted clock, three outcomes | a refusal ends exactly when it says |
| Section timer (`services/section-timer.ts`, `shared/flow/section-budget.ts`) | `attempts.section_timer_json` | ping | silence, clock jumps, two pings in flight, an author who edits the limits | no time comes back; each moment is charged once |
| Adaptive attempt (`routes/attempts.ts`, `shared/scoring/aggregate.ts`) | `variant_json`, `result_json`, `finished_at` | answer, topic timer, test timer | three requests that rewrite the whole row; long paths through the ladder | level reported is the one earned; the run ends; the result is the variant's |
| SCORM telemetry (`scorm/template/app/telemetry`, `routes/scorm-telemetry.ts`) | page's queue and timers, server's rows | send, queue, drain, retry, ingest | loss, repetition, lateness, refusal, reload | copies bounded; acknowledged means stored; nothing stranded |
| SCORM package runtime (`scorm/template/app`) | page, `suspend_data`, session time | launch, answer, move, review, finish, restart, close | the page dies between two commits and is launched again | attempts, answers and time cannot be regained; the timer sounds |
| SCORM eligibility gate (`eligibility/gate.js`, `plugins.js`, `utils/trusted-now.js`) | one launch; records of the portal | ask the date, the SECID and the records; decide; draw | timers against late replies; a wrong machine clock | one budget; no wrong refusal; cooldown served; the gate always decides, and a refusal is always shown |
| Draw and order (`shared/draw`) | none | blueprint, variants, order, check | quotas against pool sizes, every outcome of a shuffle | a draw that was checked is met exactly |
| Question bank and guard (`routes/questions.ts`, `services/draw-feasibility.ts`) | questions, a test that uses them | add, change, move, remove, publish | the decision is on a pool another request changes | what is published can be drawn |
| Test editing (`features/tests/editor`, `services/test-settings.ts`) | tests row, query cache, draft | open, edit, save, conflict, reload, overwrite | reads and writes of two authors interleave with two caches; part of a save is written after its versioned request | what the versioned request replaces is never dropped unseen |
| Everything else | see `PROJECT.json` | CRUD, rendering, import/export, analytics | | |

### Interaction

The attempt row is the meeting point: `start` writes it from what publication
froze, `save-progress`, `section-timer` and the adaptive requests update their
columns of it, `finish` grades it against the snapshot it is pinned to,
`pruneSnapshots` reads which snapshots the rows pin, `annulInProgressAttempts`
and the reset delete rows, and the retake gate reads the finished ones.
Assignments scope the limit and the barriers. The browser calls each of these
independently and retries. Behind the snapshot stands the bank: every change of a
question is held against the tests that draw from its topic, and publication
judges all sections before it freezes them. An exported package repeats the
gate, the attempts and the timer without the server, and only tells it what
happened.

## 2. Modules

| Module | Models | Uses |
|---|---|---|
| `Publication` | status, bank edition, snapshots and the author's requests, one step per `await` | – |
| `RetakeGate` | `decideRetake` and the arithmetic under it, as operators | – |
| `RetakeHistory` | the histories a learner can build up, every one of which `RetakeGate` is asked about | `RetakeGate` |
| `AttemptLifecycle` | learners' requests on a standard test, assignments, resets, composed with publication and the gate | `Publication`, `RetakeGate` |
| `AttemptHistory` | the same behaviours with a history variable: what each learner has been dealt | `AttemptLifecycle` |
| `SectionTimer` | section budgets, the pings that advance them, the live limits they read | – |
| `AdaptiveLadder` | one variant to the next, as operators | – |
| `AdaptiveRun` | the three adaptive requests over one row | `AdaptiveLadder`, `AdaptivePromise` |
| `AdaptivePromise` | abstract specification of an adaptive attempt | – |
| `Telemetry` | the queue in the page, its drain and timer, the network, the ingest handlers | – |
| `PackageSession` | a run of an exported package and what the LMS keeps of it | – |
| `PackageGate` | the launch of a gated package, composed with the arithmetic of `RetakeGate` | `RetakeGate` |
| `Draw` | what a section contributes, in which order, and whether it can | – |
| `BankGuard` | changes of the bank behind the guard, check and freezing of a publication | `Draw` |
| `Delivery` | the starts of a learner over that bank | `BankGuard` |
| `TestEditing` | authors, their caches and drafts, the saves and reads of one test | – |
| `AttemptLifecycleProofs` | proofs about the lifecycle and its history | `AttemptHistory` |
| `GateProofs` | proofs about both gates, the server's and the package's | `PackageGate`, `RetakeHistory` |
| `DeliveryProofs` | proofs about the draw, the bank under its guard and the starts of a learner | `Delivery` |
| `SectionTimerProofs`, `AdaptiveProofs`, `TelemetryProofs`, `PackageSessionProofs`, `TestEditingProofs` | proofs about the module they are named for | |
| `MC*` | values of the constants for TLC, nothing else | |

### How state and steps correspond to the code

* **Local state of a request** (`pub`, `req`, `ping`, `put`, `get`) holds exactly
  what the handler keeps in local variables across an `await`; its `pc` names the
  call that comes next. A guard that a handler evaluates before its first
  `await`, or on the value an `await` returned, is part of that step.
* **`attempts`** maps ids to rows; `Null` is no row. Ids are handed out in order
  of `started_at`, so "newest first" is "largest id". `content` and `active` are
  not columns: `content` records which edition the questions were drawn from and
  `active` whether the snapshot was the active one at the insert. No action reads
  `active`, and `content` is read only where `start` carries questions over.
* **Content** is one number in `Publication`, the edition of the bank: a snapshot,
  a draw and a result each remember theirs. What the parts of an edition are, and
  how they are read one by one, is `BankGuard`'s subject.
* **Test settings** (`maxAttempts`, the retake policy) are constants; in the code
  they come from the snapshot.
* **A published test without a snapshot** is delivered live, as `sourceForStart`
  does.
* **Time** is hours for the lifecycle and the gate (a day is `HoursPerDay` of
  them), ticks for the section timer, the package's countdown and the launch of a
  gated package. In `PackageGate` time does not pass over a timer that is due.
* **Adaptive topics and levels** count from 1 so that 0 can stand for null. A
  question is its place in its level. Delivered levels hold at least one question
  (`LadderAssumption`): publication refuses the others. A draft, which is not so
  checked, is out of the model.
* **A telemetry item** is a record in `log`; where it waits (`direct`, `hand`,
  `buffer`) and what is on the wire (`net`) are separate. The length of a backoff
  is left out: the timer fires at any time after it is armed. The server may lose
  a request, lose its reply, serve it after the page gave up on it, or refuse it.
* **The page of a package** is `state`, the LMS `sd` and `totalTime`. `begun`,
  `finished`, `results`, `moved`, `spent`, `lost` and `aged` are history, read by
  no action. A crash may fall between any two steps, and a launch begins on what
  was committed.
* **A shuffle** is a choice: the operators of `Draw` return the set of results.
  A pool is the set of rows `getQuestionsByTopic` returns, `Precedes` the order it
  returns them in: only the feasibility check, whose shuffle is the identity, can
  tell. `kSubset` stands for a shuffled list cut to its first entries.
* **A learner's rows** in `Delivery` are a function of the number of the start that
  wrote them: `started_at` as an order. Annulled rows leave its domain.
* **`touched`** in `BankGuard` is history: another write came between the first
  read of a request and now.
* **What an author writes** is in two parts. `content` is what the PUT's transaction
  replaces under the version, a set of edits. `extras` stands for the result
  variables, scales and measurements, which the editor writes after the PUT by
  requests that neither check nor raise the version (`PutExtras`;
  `use-test-editor.ts:563-568`). The version is the row's.
* **The start of a course** (`Admit`, `CourseBegins`) waits for the design template
  without a cap, and then restores the suspended session or discards one that is
  stale or has lost its timer. When a session becomes stale is left open.

Operators whose comment begins with "Mutant" are the code with a plausible bug;
nothing uses them except the sensitivity check of the property they are listed
with in `PROJECT.json`.

## 3. Runs

| Run | Question | Bounds | States |
|---|---|---|---|
| `one_tab` | one learner under both barriers and a limit against a publishing author | 1 request, 2 attempts, 2 snapshots, 1 edition and the one it began with, 1 assignment, limit 1, clock to 2, 2 draws, 2 answers | 3.7 M |
| `two_tabs` | overlapping requests of one learner against a publishing author | 2 requests, 2 attempts, 2 snapshots, 2 editions; at most one of: a new edition, an assignment, an hour | 5.7 M |
| `retake_gate` | every policy, every history | 2 finished attempts, 6 hours in days of 2, periods 1 and 2, 1 reassignment | 1.4 M |
| `section_timer` | pings one after another, limits edited, the attempt finished at any moment | 3 sections (3, 2, no limit; the author swaps the first and the third), grace 2, clock 0–4, active time to 6 | 2.5 M |
| `adaptive` | refinement of `AdaptivePromise`, end included | ladders of 4 and 3 levels, 1 to 3 questions per level | 1.6 k |
| `adaptive_overlap` | two requests in flight | the same ladders | 1.0 M |
| `telemetry` | queue, link and server over two launches | 1 retry, queue of 1, 3 items, 2 runs, 2 sessions, 1 late request | 0.6 M |
| `package_session` | play, kill, close, launch again | 6 packages, 2 questions, 2 attempts, 4 launches | 0.5 M |
| `package_gate` | launches over several assignments | 3 packages, timeouts 1, 2 and 2 ticks, 2 registrations, 4 days | 1.6 M |
| `delivery` | a bank is edited, guarded, published and drawn from | 2 topics, 4 questions, 2 tests, 1 change, 1 publication, 2 starts | 1.2 M |
| `test_editing` | two authors, two browsers | 1 edit, versions to 3 | 4.5 M |
| `package_resumed` | what is resumed is the attempt under way: it is not | one package with an intro page | – |

Why the bounds are enough to meet the interesting cases. Two attempts are the
fewest that can both be open, replace one another or exceed a limit of one; one
assignment tells its bucket from the bucket of attempts without one; two snapshots
are the fewest of which one can be stale; two editions tell delivered content from
live content; two requests are the fewest that race. In `two_tabs` the three
counters that enlarge the space, but do not interact, are bounded together
(`OneChange`). A ladder of four levels starts off-centre and can climb and
descend, and its thresholds include zero and one above the level's size. A grace
of 2 lies below one budget and equals another, and the clock can jump further than
both. A queue of one is full with one item and overflows with two, and a third item
is still being sent; one retry tells a spent budget from an unspent one. The
packages are strict and flexible, timed with and without the clock of the LMS,
limited and unlimited; four launches leave room for two attempts that each die
once. The gate's timeouts are such that the clock may use none, half or all of the
budget. The tests of `delivery` hold a quota, an inherited and a fixed order, two
variants and a full shuffle.

`CHECK_DEADLOCK FALSE` is given where the system may legitimately stop: all ids of
a bounded run used, an attempt finished, a page closed for the last time.
`package_gate`, `telemetry`, `section_timer` and `retake_gate` are checked for
deadlock: they never stop.

### What the properties say

* **`one_tab`** — `AtMostOneOpen`; `QuotaHolds` and `OpenedUnderGate`: an attempt is
  only opened under the limit and the barriers as they stood when it was; `OneDrawUntilFinished`: starting again
  does not reveal more of the pool; `ResultOfSavedAnswers`: the result is of the
  answers stored; `ActiveSnapshotKept`: pruning never takes the active snapshot.
* **`two_tabs`** — what survives overlap: an attempt is graded from the content it
  was delivered from, and a finished attempt stays finished.
* **`retake_gate`** — `RefusalIsExact`: a refusal names the moment at which the same
  learner is admitted, and not an earlier one, for every clock.
* **`section_timer`** — no moment is charged twice, no time comes back, and silence
  costs the running section at most the grace.
* **`adaptive`, `adaptive_overlap`** — the abstract promise; and what is left of it
  when requests overlap: one place in the run, earned verdicts, the deserved level.
* **`telemetry`** — the queue is bounded, never left without something that drains
  it, silent after a refusal; copies on the server are bounded by sends; what the
  page takes for delivered is filed; every delivery ends.
* **`package_session`** — across any crashes: attempts are counted, the stored best
  and last stand for the whole list, a finished attempt is not lost, an answer
  gone on from is fixed, no time is gained, and the timer ends the run.
* **`package_gate`** — one budget for clock and plugin, no refusal inside an
  assignment, the cooldown served by the portal's calendar. `GateSettles`: the gate
  decides though nobody answers, and a refused launch reaches a screen that says so;
  of a launch that is let in nothing more is promised.
* **`delivery`** — what was checked can be drawn, is drawn as asked, ordered as
  authored, rotates over the variants, and the guard keeps it so. `DrawnAsAsked`
  and `OrderAsAuthored` speak of every row a learner has: the first joins the check
  of a publication to the draw of a start, the second the stream of a delivery to
  its sections and the settings of its author.
* **`test_editing`** — `NothingLostUnseen`: when the version a save carries is the
  row's, at the check and at the UPDATE, the content stored is part of the content
  sent. It speaks of what the PUT's transaction carries, not of variables,
  scales and measurements. A cache never falls behind its own author's saves.

What some of them do not reach, so that they are not read as more:

* `AtMostOneOpen` and `ResultOfSavedAnswers` are about one tab per learner,
  `ActiveSnapshotKept` about publications that follow one another, `NoTimeBack` about
  pings that do. `TopicStaysDrawable`, `GuardHolds` and `CheckedSnapshot` are about
  requests no other write came between. For each of them the interleaving that is
  excluded is in the list below: the code gives no guarantee there.
* `CooldownServed` takes the portal's local date and the UTC day for one calendar;
  around midnight they may differ by a day.
* `RotationHolds` is about two starts in the run, of which few come round to the
  first variant again. `VariantsRotate` proves it for any number.
* `NoDeliveryAfterRefusal` counts a delivery from the check of `stopped`. A request
  that passed the check and is being signed (`telemetry.js:112-156`) may still leave
  after the refusal.

Type invariants are proved (section 4) rather than run; `TypeOK` of
`PackageSession` is both.

### Where the code departs from what it says, and where it promises nothing

`package_resumed` is the one disagreement kept as a run: `restart()` counts the
next attempt and leaves the checkpoint of the one that ended, so that a page that
dies before the new attempt's first question has been gone on from resumes the
finished one. The quoted promise is in `PROJECT.json` under `findings`.

The following traces are found by TLC when the bound or the assumption that
excludes them is lifted; `PROJECT.json` lists them under `hazards`. They
delimit the properties above.

* Two starts of one learner both read "nothing open" and both insert: two open
  attempts. With a limit, both may be finished.
* A start resolves snapshot 1, a republication creates 2 and prunes 1, and the
  start inserts an attempt pinned to a snapshot that is gone. With two publishers,
  the prune of version 1 may read after version 2 was inserted and delete it.
* A start between the annulment and the new snapshot of a forced republication
  plays the old one on.
* The later write of two overlapping pings restores time to a spent section.
* An answer read before `finish-adaptive` writes `finishedAt: null` over it.
* A late reply of an earlier `/start` puts the number of an attempt that is over
  back, and the following answers are filed under it. `FiledNoLater` is the half
  that holds.
* A section with `drawAll` is drawn by `drawCount` on the web; a question that
  serves two quotas may be drawn in an order the check did not simulate.
* `buildSnapshotContent` reads the pools of the topics one after the other. A
  question that another author moves in between is frozen in both topics, and an
  attempt on that snapshot may hold it twice (two author requests suffice). Such a
  snapshot is `touched`, its pools are not apart (`PoolsApart`), and of the order
  of a stream drawn from it `OrderAsAuthored` promises only that topics stay
  blocks. `blueprint.ts:42-44` takes its questions for "already filtered by the
  caller's cross-section dedup"; the server's start does no such filtering.
* A failed template that comes late replaces the wall of a refused launch by the
  template's error.
* An allowed launch waits for its template without a cap (`main.js:70-84`,
  `templateLoader.js:132-193`): if that request is never answered, the learner stays
  on «Загрузка теста…».
* A save that passes its version check just before another author's UPDATE
  overwrites it.
* The PUT of author A commits version 2; author B loads version 2 with the old
  measurements; A's measurements land; B saves under version 2, is not refused, and
  puts the old measurements back. TLC finds it with two edits as soon as
  `NothingLostUnseen` is asked of `extras`. Nor is a failure of one of these later
  requests undone: the content is saved, the extras are not.

### Fairness

* **Adaptive attempt.** The learner keeps answering (`WF` of `AnswerRead`), and a
  handler that was begun runs to its end (`WF` of the two writes). Nothing is
  assumed of either timer, since a test need not have one.
* **Telemetry.** The retry timer and the pause of a drain fire (`setTimeout`), and
  every delivery the page waits for ends, in a reply, an error or a timeout. The
  server need not serve anything.
* **Package session.** The interval of the countdown fires while the page lives.
* **Package gate.** Timers fire. No request need be answered and nobody need act.

The lifecycle, the section timer, the bank and the editor need no fairness: a
learner or an author may close the tab at any moment, and no property asks
otherwise.

## 4. Proofs

All theorems are checked by TLAPS for every value of the constants that satisfies
the named assumptions, each declared in the module of its constants and evaluated
by TLC on the runs that use it (`PublicationAssumption`, `HoursAssumption`,
`HistoryAssumption`, `LifecycleAssumption`, `TimerAssumption`, `LadderAssumption`,
`TelemetryAssumption`, `BankGuardAssumption`, `TestEditingAssumption`,
`GateAssumption`, `PackageAssumption`, `EditorAssumption`). They are what the code's
own types say:
counts and limits are natural numbers, a policy's periods are the non-negative
integers `shared/schema.ts:323-399` accepts, a test has finitely many sections,
`Null` is not a value of what it stands beside. `BankGuardAssumption` holds the
quotas of a section within its number, except where the whole topic is drawn, as
`sectionBodySchema` does (`tests.ts:78-91`). `EditorAssumption` is the one that no
server code enforces: the editor offers a topic to a test once
(`topics-structure-section.tsx:161-168`) and a question to a variant once
(`variants-editor.tsx:291-296`). Beyond them some theorems assume
something about *who sends what when*; the assumption is then written in the
theorem itself, and the list of section 3 says what happens without it:

* `OneTabEach` (the lifecycle): no two requests of one learner overlap. It is
  exactly "`Client` is injective"; learners still overlap with each other.
* `OnePublisher` (the lifecycle): publications follow one another. Learners may
  overlap as they like.
* one ping at a time (the section timer) and `OneByOne` (the adaptive attempt).

**`AttemptLifecycleProofs`.** `TypeCorrect`: `TypeOK` alone is not inductive: to
know that `CHOOSE` finds the latest snapshot, the newest open attempt and the
newest assignment, the sets they are taken from must be finite and non-empty,
and a request past its draw must hold one. `TypeInv` adds these facts. On it stand

* `FinishedStays`, `NeverReopens`, `FinishedKept` and `OwnAttemptsOnly`, which
  hold with any number of overlapping requests. `SafeInv` says that a request that
  holds a row id holds one of its own learner's.
* `OneOpenAttempt` (under `OneTabEach`). `StartsClear`: a start that is about to
  insert has no open attempt of its learner left, either because it saw none or
  because it annulled them, and no one else can have opened one since.
* `AnswersMatchResult` (under `OneTabEach`). `SavesOpen`: a save that is about to
  write holds the draw of an attempt still open; `OpenUngraded`: grading and
  closing are one write.
* `QuotaKept` and `StartedUnderGate` (under `OneTabEach`). Barriers and limit are
  decided when a start reads the attempts and matter when it inserts. `GatePassed`
  carries the decision over the awaits in between: whatever may still happen there
  (a reset, a reassignment, a clock, another learner) either leaves what was
  decided on as it was or ends the assignment. `WithinQuota` counts open and
  finished attempts together, since a finish checks nothing.
* `GradedFromItsSource` and `LatestSnapshotStays` (under `OnePublisher`).
  `SourceInv` says of every row and every request that the snapshot it names, if it
  still exists, has the content the draw was made from; `PublisherSafe` says of a
  publication at every await which snapshots may still appear or be pruned.
* `OneDrawEach` (under `OneTabEach`). `DealtTo` ties what a learner was dealt to the
  learner's open row and to the draw a start carries; it needs both
  `OneOpenAttempt`'s and `AnswersMatchResult`'s invariants, since a row could
  otherwise leave the set of open ones without being finished.

**`GateProofs`.** `TypeCorrect`; `BudgetIsOne` (`Counted`: in every phase
the gate has waited no longer than the timer that is armed, and the budget left by
the clock is what the plugin gets); `InsideNobodyIsRefused` (`Unplayed`: a
launch that is still deciding found nothing in `suspend_data`, and only a course
that was let in writes there); `ServedBeforeOpened` (`Dates`: the portal notes no use later than
today nor earlier than the last finish, and a calendar that came in time is not
ahead of it). `RefusalsAreExact` is about the server's gate: by then the invariant
(`HistoryInv`, a finite set of well-typed attempts) is the small part, and the
lemmas on `decideRetake` are the argument. The latest attempt exists
(`FiniteHasGreatest`), its period is one that was configured (`PeriodIsConfigured`),
and the decision then depends on the clock only through one comparison
(`InsideDecides`, `OutsideDecides`).

**`SectionTimerProofs`.** `TypeCorrect` and `OneSectionRuns` hold for any number of
overlapping pings. `TimeNeverReturns`, `SpentStaysLocked` and `SilenceIsCheap`
assume one slot, and rest on the invariant that a ping in flight carries a state
computed from the stored one. `NothingChargedTwice` bounds a sum over all sections
by the active time. The sum is a fold; that it changes by what one summand changes
(`SumExists`, `SumGrows`) would be an induction over the set of sections, and is
shown by taking the least set on which it failed (`LeastExists`). Its invariant
`ChargeInv` says what a ping in flight will cost (`Costs`): what it charges is
covered by time that passed since the last stored contact.

**`AdaptiveProofs`.** Every request computes a whole variant from a whole variant,
so the invariant is about one variant. `Good` says that the ladder of the current
topic has come straight up or straight down from its middle level (`Ascending`,
`Descending`), that the topics before are judged and those after wait, and that
the question is the next unanswered one. `AnswerGood` and `ExpireGood` lead from
good variants to good ones, so whichever copy is written last is one:
`LevelsDeserved`, `VerdictsEarned` and `OnePlace` hold for any ladders and any
number of overlapping requests. `Implements` assumes that requests follow one
another (`OneByOne`) and shows that the run then implements `AdaptivePromise`:
the invariant `InTurn` says that a request in flight holds the next move of the
stored run — one verdict (`Judges`), one topic out of time (`Expires`) or nothing
(`Stays`) — and each maps to an abstract step or a stutter. `ClosedInOrder` and
`SummaryReadsVerdicts` carry the refinement mapping: topics closed are those before
the current one, and the result is what the verdicts show.

**`TelemetryProofs`.** `TypeCorrect`; `QueueCorrect` (the invariant adds that a
drain with an item in hand is running, which is what lets a failure skip arming the
timer) and from it `RefusalIsFinal`; `BudgetCorrect`: an item is in one place only,
and is sent within its budget; `CopiesWithinBudget`, whose invariant counts the
requests the server may still serve together with the copies it holds;
`LabelsNeverAhead`; `AcknowledgedIsFiled`, by an invariant about what each message
on the wire stands for.

**`PackageSessionProofs`.** Any package, any number of questions, attempts and
launches, a crash between any two steps. `PageInv` says on which screens the page
belongs to an attempt, and that the results screen shows the attempt of the
checkpoint; every other invariant stands on it.

* `TypeCorrect`; `AttemptsWithinLimit`: counted attempts are those begun.
* `SummaryStandsForResults` (`BestAt`): the stored best is the latest of the best,
  the stored last the last, of a list that nothing stores any more.
* `FinishedIsKept` (`KeptInv`): a finished attempt without a stored result is in the
  checkpoint, and no page of another attempt is open that could write over it.
* `ConfirmedStays` (`FixedInv`): what was confirmed is on the page of its attempt
  and in the checkpoint, each for its own attempt.
* `TimeIsNotGivenBack` (`TimeInv`): the anchor is in the past, and what the LMS was
  told since is at least the active time, but for what was lost and what the page
  under way still counts.

**`DeliveryProofs`.** `BankTypeCorrect`, `SnapshotIsChecked`, `GuardedTopics`: the
invariant follows a request from read to write, and while no other write came
between, what it decided on is what is there (`Fresh`). What makes a pool feasible
is not looked into there; it is in `GuardKeepsTest`, which is also about the topic
a moved question comes to, and that nothing checks. More questions are not always
better: the new one may be taken early and leave a later quota another set to
choose from. `FeasibleGrows` shows that it does no harm. `Precedes` is a strict total
order on a topic, so the first `n` of a set exist (`FirstExists`), and adding a
question to the set changes them by at most an exchange (`PickShifts`). For any draw
from the larger pool there is one from the smaller that keeps step with it, stratum
by stratum (`Keeps`): as long as no quota fell short, exactly one question more is
left over in the larger pool. That is an induction over the strata, done as a least
stratum where it fails. `VariantsRotate` rests on `RotationInv`: the learner's open
row is the newest, so all earlier ones are finished and a start sees every variant
dealt before; a carried set was judged when it was dealt. `LearnersLeaveBankAlone` is
the refinement step by step: a start or a finish is a stutter of the bank.

`DrawsAsAsked` and `OrdersAsAuthored` are about the rows a learner has, and stand on
one invariant, `LearnerInv`: each row is as its section settings and pools ask
(`RowGood`), and what the next start draws from is fit for it (`SourceGood`): its
pools are pools some bank could show, and, for a snapshot that nobody disturbed, they
were judged and no question is in two of them. Only three steps touch it: an insertion
of a snapshot (`InsertedGood`), a start (`AttemptGood`) and a finish (`RowSame`). The
rest is about the operators of `Draw`:

* *Sequences.* The filter, the sum of quotas and the flattening of blocks are
  recursive functions; each is shown equal to whatever function satisfies its
  recursion (`Unfolds`, `Alike`, `OnlyIs`, `FlattenIs`), by a least index where they
  differ. From there: filtering a stream by the members of a block gives the block
  back, and every block lies unbroken in it, when blocks share nothing (`BlocksLaid`).
* *Order.* `UnitsAre` and `StreamLaid` carry this through the one shuffle of blocks
  and single questions; `Delivered` says it of both ways to assemble a test.
* *Draws.* The check draws once, in the bank's order; the start draws in any. When no
  question serves two quotas, no stratum takes from another (`TagUntouched`), so two
  draws differ in what they take but not in how much (`ApartSame`), and what the one
  draw reached every draw reaches (`FeasibleFills`). That an exact quota is a ceiling
  (`ExactDraw`) needs no check. Quotas within the section's number leave the closing
  `slice` nothing to cut (`FitsWhole`).

The proof attempt changed the model in four places. `OrderAsAuthored` was false
beyond the bounds of the run, for the torn snapshot of section 3, and now asks that
pools are apart; that they are is proved of undisturbed snapshots (`HeldOnce`). The
assumption on quotas was stronger than `sectionBodySchema` and no longer covers
topics drawn whole; `drawSection` got its closing `slice`, which matters there. Units
of a stream name their section, so that two topics that hold the same question do not
merge into one unit. `Only` stands for the filters in place of `SelectSeq`, of which
the prover knows no definition.

**`TestEditingProofs`.** `TypeCorrect`, `SavesLoseNothingUnseen`,
`CacheIsNotBehind`. The strengthening says of every copy in a browser that, if it
carries the row's present version, it holds all of the row's content. Of the extras
it says nothing: they change under no version, and `PutExtras` leaves version and
content alone.

The strengthenings were given to TLC as invariants before they were proved:
`GateInv`, `SavedInv`, `SourceInv` and the parts of `DealtInv` on the spaces of
`one_tab` and `two_tabs` and on wider ones, `ChargeInv` on that of
`section_timer`, those of `PackageSession` on that of its run and on a larger one.

**Only model-checked.** Liveness (`KeepsPromise`'s last conjunct, `Settles`,
`BuzzerSounds`, `GateSettles`), which is out of this prover's reach. Every
safety invariant and action property of a passing run is a theorem, and so is the
safety part of `KeepsPromise`.

**Only proved.** `OneRunning`, `SpentStaysSpent`, `OthersUntouched`,
`FinishedNeverReopens`, `NoRequestDropsFinished`, `SingleCopy`, `FiledNoLater` and
the type invariants.

## 5. Not modelled

Listed with reasons in `PROJECT.json` under `components`. Most of the repository's
lines draw pages, parse and write files, or map rows to views: the React client,
workbook and package import and export, analytics, templates, the schema. They keep
no state of their own between two calls, their mistakes are wrong values rather than
wrong orders of steps, and the models would only repeat them; the share of the
repository that the map covers is therefore small and will stay so.

Within the modelled parts: adaptive starts are not interleaved with the lifecycle;
the media index a publication refreshes; sectional and router flows, section timers,
the adaptive player and `allowAnswerChange` inside a package; unparsable dates; page
losses, scales and adaptive levels in the check of a draw; the texts of results;
permissions (every modelled request has passed them). A process crash between two
awaits of a server handler is a request that never takes its next step and is
therefore already among the behaviours.

## 6. What could come next

1. The reads of a start from the live bank, topic by topic: `Delivery` takes them at
   one moment, so that a question moved in between, which the code may hand out
   twice from a draft, is not among its behaviours.
2. Sectional flows in the package: hub, section timers and the review gate over
   `PackageSession`, sharing the arithmetic of `SectionTimer`.
3. Adaptive starts interleaved with the lifecycle; the adaptive player of the
   package against `AdaptivePromise`.
4. Assignment links: expiry and revocation against use.
