------------------------------ MODULE MCHidInput ------------------------------
(* Instances of HidInput for TLC; and the bytes of PointerReports on every  *)
(* value near a boundary, which TLC evaluates once.                         *)
EXTENDS HidInput, TLC

CONSTANTS t1, t2, left, right

TwoTasks == {t1, t2}
OneButton == {left}
TwoButtons == {left, right}
Symmetry == Permutations(Tasks) \cup Permutations(Buttons)

(* key_down and key_up are the steps of key_tap, scroll is a move to it. *)
SomeOperations == AllOperations \ {"key_down", "key_up", "scroll"}

Taps == {"key_tap"}

Boundaries == (-600..600) \cup (65000..66000)
================================================================================
