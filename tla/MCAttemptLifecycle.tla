------------------------- MODULE MCAttemptLifecycle -------------------------
(***************************************************************************)
(* Values of the constants of AttemptLifecycle for TLC.                    *)
(***************************************************************************)
EXTENDS AttemptLifecycle, TLC

CONSTANTS l1, l2, r1, r2, d1, d2, right, wrong

(* Each learner with one slot. *)
OneTab  == [r \in Requests |-> IF r = r1 THEN l1 ELSE l2]

(* Every slot belongs to one learner. *)
TwoTabs == [r \in Requests |-> l1]

(* Slots of one learner are interchangeable. *)
Alike == Permutations(Requests)

NoBarriers ==
  [enabled |-> FALSE, days |-> Null, byOutcome |-> FALSE,
   daysPassed |-> Null, daysFailed |-> Null, interval |-> Null]

(* One hour between attempts, one day between assignments. *)
BothBarriers == [NoBarriers EXCEPT !.enabled = TRUE, !.days = 1, !.interval = 1]

NoLimit == Null

(* Bound: one edit of the bank, one hour or one assignment.                 *)
OneChange == (bank - 1) + (clock - 1) + granted <= 1

=============================================================================
