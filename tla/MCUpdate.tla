-------------------------------- MODULE MCUpdate --------------------------------
(* Update with two installs, two failing requests and three operations of   *)
(* other tasks; and the gates of Versions for every bounded input, which    *)
(* TLC evaluates once.                                                      *)
EXTENDS Update

SomeMinimums == {NoVersion, Release(<<1>>), Release(<<1, 0, 1>>)}
================================================================================
