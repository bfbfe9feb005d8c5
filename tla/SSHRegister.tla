----------------------------- MODULE SSHRegister -----------------------------
(* What the SSH client promises to its tasks, without generations, threads  *)
(* or transports. Its operations are in the order of their numbers. At most *)
(* one login can still succeed, the newest change there was; a command runs *)
(* on the client of the moment it began, and takes no other down with it.   *)
EXTENDS Naturals

CONSTANTS Tasks

VARIABLES client,   \* the login in use, 0 for none
          login,    \* the login that can still succeed, if there is one
          last,     \* the newest operation
          uses      \* task -> the login its command runs on, 0 for none

rvars == <<client, login, last, uses>>

RInit == client = 0 /\ login = {} /\ last = 0 /\ uses = [t \in Tasks |-> 0]

Begin == last' = last + 1

(* A login takes every other one its chance, whichever ends first. *)
Login == Begin /\ login' = {last + 1} /\ UNCHANGED <<client, uses>>

Succeed == login = {client'} /\ login' = {} /\ UNCHANGED <<last, uses>>

GiveUp == login' = {} /\ UNCHANGED <<client, last, uses>>

Disconnect == Begin /\ client' = 0 /\ login' = {} /\ UNCHANGED uses

Refuse == Begin /\ client = 0 /\ UNCHANGED <<client, login, uses>>

Command(t) ==
  /\ Begin /\ client # 0 /\ uses[t] = 0
  /\ uses' = [uses EXCEPT ![t] = client]
  /\ UNCHANGED <<client, login>>

(* The command ends, and only if it failed, its client may go with it. *)
Return(t) ==
  /\ uses[t] # 0 /\ uses' = [uses EXCEPT ![t] = 0]
  /\ client' \in {client, 0} /\ (client' = client \/ client = uses[t])
  /\ UNCHANGED <<login, last>>

RNext ==
  \/ Login \/ Succeed \/ GiveUp \/ Disconnect \/ Refuse
  \/ \E t \in Tasks : Command(t) \/ Return(t)

RSpec == RInit /\ [][RNext]_rvars
================================================================================
