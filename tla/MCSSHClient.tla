------------------------------ MODULE MCSSHClient ------------------------------
(* SSHClient on a small instance: two tasks make four operations, one is    *)
(* cancelled or times out and one transport breaks.                         *)
EXTENDS SSHClient

CONSTANTS t1, t2
TwoTasks == {t1, t2}
================================================================================
