------------------------------- MODULE MCSession -------------------------------
(* Instances of Session for TLC. *)
EXTENDS Session, TLC

CONSTANTS t1, t2, t3

TwoTasks == {t1, t2}
ThreeTasks == {t1, t2, t3}
Symmetry == Permutations(Tasks)

(* A stream goes on as long as its consumer likes. *)
EndingOperations == AllOperations \ {"stream"}

(* The operations that race when a logout meets a login. *)
LogoutOperations == {"authenticate", "reauthenticate", "logout", "input"}
================================================================================
