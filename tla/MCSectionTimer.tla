--------------------------- MODULE MCSectionTimer ---------------------------
(***************************************************************************)
(* Values of the constants of SectionTimer for TLC: two sections with      *)
(* budgets of three and two ticks and one without a limit, until the       *)
(* author swaps the first's and the third's.                               *)
(***************************************************************************)
EXTENDS SectionTimer

CONSTANTS s1, s2, s3

Before == [s \in Sections |-> IF s = s1 THEN 3 ELSE IF s = s2 THEN 2 ELSE 0]
After  == [s \in Sections |-> IF s = s3 THEN 3 ELSE IF s = s2 THEN 2 ELSE 0]

AuthorsLimits == {Before, After}

=============================================================================
