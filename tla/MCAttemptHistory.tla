-------------------------- MODULE MCAttemptHistory --------------------------
(***************************************************************************)
(* AttemptHistory with the values of MCAttemptLifecycle.                   *)
(***************************************************************************)
EXTENDS MCAttemptLifecycle, AttemptHistory

=============================================================================
