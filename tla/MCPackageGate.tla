---------------------------- MODULE MCPackageGate ---------------------------
EXTENDS PackageGate

LOCAL Cooldown(days, byOutcome, passed, failed) ==
  [enabled |-> TRUE, days |-> days, byOutcome |-> byOutcome,
   daysPassed |-> passed, daysFailed |-> failed, interval |-> Null]

LOCAL Package(policy, failPolicy, outcomes, limited) ==
  [policy |-> policy, failPolicy |-> failPolicy, outcomes |-> outcomes, limited |-> limited]

(* One wait for everybody and one that depends on the outcome, under either *)
(* policy for errors, with and without a limit of attempts.                 *)
ExportedPackages ==
  { Package(Cooldown(2, FALSE, Null, Null), "failClosed", FALSE, FALSE),
    Package(Cooldown(2, FALSE, Null, Null), "failOpen", FALSE, TRUE),
    Package(Cooldown(Null, TRUE, 1, 2), "failClosed", TRUE, TRUE) }

=============================================================================
