-------------------------- MODULE MCPackageSession --------------------------
(* Packages for the runs of PackageSession.                                 *)
EXTENDS PackageSession

Package(attempts, limit, clock, flexible, intro) ==
  [maxAttempts |-> attempts, timeLimit |-> limit, clock |-> clock,
   flexible |-> flexible, intro |-> intro]

(* Strict and flexible, timed with and without a clock in the LMS, with and *)
(* without a limit on attempts.                                             *)
ManyTests ==
  { Package(2, 2, TRUE, FALSE, TRUE),
    Package(2, 2, FALSE, FALSE, FALSE),
    Package(2, 0, TRUE, FALSE, FALSE),
    Package(2, 0, TRUE, TRUE, FALSE),
    Package(0, 0, TRUE, FALSE, FALSE),
    Package(1, 2, TRUE, TRUE, FALSE) }

(* A strict test with an intro page that may be taken twice.                *)
IntroTest == { Package(2, 0, TRUE, FALSE, TRUE) }

=============================================================================
