---------------------------- MODULE MCAdaptiveRun ----------------------------
(***************************************************************************)
(* Two ladders for TLC: four levels, whose middle one is the third, and    *)
(* three; levels of one to three questions, one that asks for nothing and  *)
(* one that asks for more than it holds.                                   *)
(***************************************************************************)
EXTENDS AdaptiveRun, TLC

TwoLadders == <<4, 3>>
TwoSizes   == <<<<2, 2, 3, 1>>, <<1, 2, 2>>>>
TwoNeeds   == <<<<1, 2, 2, 1>>, <<0, 2, 3>>>>

(* The slots are interchangeable. *)
Alike == Permutations(Requests)

=============================================================================
