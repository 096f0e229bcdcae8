---------------------------- MODULE MCGroupRuntime ----------------------------
(* Instances of GroupRuntime for TLC. *)
EXTENDS GroupRuntime, TLC

CONSTANTS m1, m2, c1, c2

TwoMsgs == {m1, m2}
FirstMsg == {m1}
SecondMsg == {m2}
TwoCalls == {c1, c2}
OneOrTwo == {1, 2}
CallSymmetry == Permutations(Calls)
=============================================================================
