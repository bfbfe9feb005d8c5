------------------------------ MODULE MCSyncClient ------------------------------
(* Instance of SyncClient for TLC. *)
EXTENDS SyncClient

CONSTANTS main, other

TwoThreads == {main, other}
================================================================================
