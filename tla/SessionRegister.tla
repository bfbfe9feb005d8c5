--------------------------- MODULE SessionRegister ---------------------------
(* What the session core promises to its callers, without generations,      *)
(* locks or connections: one register holds the current session, a new      *)
(* session never reuses an old one, and a request is bound to the session   *)
(* it was sent in. Only a request of the current session can be answered,   *)
(* and only its rejection can end the session.                              *)
EXTENDS Naturals

CONSTANTS Tasks

VARIABLES current,   \* the session in use, 0 for none
          last,      \* the newest session ever used
          bound,     \* task -> the session its request belongs to, 0 for none
          answered   \* the tasks whose last request was answered

rvars == <<current, last, bound, answered>>

RInit ==
  /\ current \in {0, 1} /\ last = current
  /\ bound = [t \in Tasks |-> 0]
  /\ answered = {}

(* A login: a session nobody has used, and only when there is none. *)
Install ==
  /\ current = 0
  /\ current' = last + 1 /\ last' = last + 1
  /\ answered' \in SUBSET answered
  /\ UNCHANGED bound

(* A login that starts or a logout without a request ends the session. *)
Drop ==
  /\ current' = 0
  /\ answered' \in SUBSET answered
  /\ UNCHANGED <<last, bound>>

Bind(t) ==
  /\ current # 0 /\ bound[t] = 0
  /\ bound' = [bound EXCEPT ![t] = current]
  /\ answered' = answered \ {t}
  /\ UNCHANGED <<current, last>>

Answer(t) ==
  /\ bound[t] # 0 /\ bound[t] = current
  /\ bound' = [bound EXCEPT ![t] = 0]
  /\ answered' = answered \cup {t}
  /\ UNCHANGED <<current, last>>

(* The operation fails, and the session stays. *)
Abort(t) ==
  /\ bound[t] # 0
  /\ bound' = [bound EXCEPT ![t] = 0]
  /\ answered' = answered \ {t}
  /\ UNCHANGED <<current, last>>

(* The device rejected the session, or a logout or a password change ended  *)
(* it: the request is over, and so is the session it belongs to.            *)
Terminate(t) ==
  /\ bound[t] # 0 /\ bound[t] = current
  /\ current' = 0
  /\ bound' = [bound EXCEPT ![t] = 0]
  /\ answered' = answered \ {t}
  /\ UNCHANGED last

(* The caller has taken the answer, and starts something else. *)
Forget(t) ==
  /\ answered' = answered \ {t}
  /\ UNCHANGED <<current, last, bound>>

RNext ==
  \/ Install \/ Drop
  \/ \E t \in Tasks : Forget(t) \/ Bind(t) \/ Answer(t) \/ Abort(t) \/ Terminate(t)

RSpec == RInit /\ [][RNext]_rvars
================================================================================
