----------------------------- MODULE SSHClientProofs -----------------------------
(* Proofs about SSHClient, for every set of tasks and every bound.          *)
EXTENDS SSHClient, TLAPS

Active == {"connecting", "running", "cancelling"}
Locals == [n : Clients, gen : Nat]

(* What a waiting task knows of its operation: it has started, its worker   *)
(* has begun, a command has its client, and a login's generation is not in  *)
(* the future.                                                              *)
Waits(t) ==
  /\ loc[t].n \in 1..started
  /\ worker[loc[t].n] # "none"
  /\ pc[t] = "running" => via[loc[t].n] # 0
  /\ loc[t].gen <= generation

(* A worker that still connects belongs to a login that waits for it, or    *)
(* that left a callback to close what it opens.                             *)
Owned(n) ==
  \/ n \in closeAfter
  \/ \E t \in Tasks : pc[t] = "connecting" /\ loc[t].n = n

(* What is known of an operation, whether it has started or not.            *)
Known(n) ==
  /\ n > started => worker[n] = "none"
  /\ worker[n] \in Commanding => via[n] # 0
  /\ worker[n] \in {"opened", "check", "read"} => channel[n] # "none"
  /\ worker[n] = "connect" => Owned(n)
  /\ conn[n] = "open" => n = current \/ Owned(n)

(* A login that may still be installed is newer than every change, and the  *)
(* only one of its generation.                                              *)
Latest(t) == pc[t] = "connecting" /\ Newest(loc[t])

Types ==
  /\ generation \in 0..started /\ current \in Clients /\ lastChange \in 0..started
  /\ conn \in [Ops -> {"open", "closed"}]
  /\ worker \in [Ops -> Done \cup Commanding \cup {"connect"}]
  /\ via \in [Ops -> Clients]
  /\ channel \in [Ops -> {"none", "open", "closed"}]
  /\ named \subseteq {n \in Ops : channel[n] # "none"}
  /\ {flagged, closeAfter} \subseteq SUBSET (1..started)
  /\ pc \in [Tasks -> Ended \cup Active] /\ loc \in [Tasks -> Locals]
  /\ started \in 0..MaxOps /\ cancelled \in 0..MaxCancels /\ breaks \in 0..MaxBreaks

IInv ==
  /\ Types
  /\ \A t \in Tasks : pc[t] \in Active => Waits(t)
  /\ \A n \in Ops : Known(n)
  /\ \A t \in Tasks : Latest(t) => lastChange < loc[t].n
  /\ \A t, u \in Tasks : Latest(t) /\ Latest(u) => t = u

USE SSHAssumption DEF Ops, Clients, Done, Commanding, Ended, Active, Locals

--------------------------------------------------------------------------------
LEMMA InitIInv == Init => IInv
BY DEF Init, IInv, Types, Waits, Known, Latest, Idle

--------------------------------------------------------------------------------
(* authenticate and disconnect.                                             *)

LEMMA AuthenticateStep ==
  ASSUME IInv, NEW t \in Tasks, Authenticate(t)
  PROVE  IInv'
<1> USE DEF Authenticate, Start, At, Wait, bounds
<1>1. Types'  BY DEF IInv, Types
<1>2. ASSUME NEW u \in Tasks, pc'[u] \in Active PROVE Waits(u)'
  BY <1>2 DEF IInv, Types, Waits, Known
<1>3. ASSUME NEW k \in Ops PROVE Known(k)'
  <2>1. Owned(k) \/ k = started + 1 => Owned(k)'
    BY DEF IInv, Types, Owned
  <2>2. k # started + 1 => worker'[k] = worker[k]
    BY DEF IInv, Types
  <2>3. k = started + 1 => worker'[k] = "connect" /\ conn'[k] = conn[k]
    BY DEF IInv, Types
  <2> QED BY <2>1, <2>2, <2>3 DEF IInv, Types, Known
<1>4. ASSUME NEW u \in Tasks, Latest(u)' PROVE u = t /\ lastChange' < loc'[u].n
  BY <1>4 DEF IInv, Types, Latest, Newest, Waits
<1> QED BY <1>1, <1>2, <1>3, <1>4 DEF IInv

LEMMA ConnectEndsStep ==
  ASSUME IInv, NEW n \in Ops, ConnectEnds(n)
  PROVE  IInv'
<1> USE DEF ConnectEnds, At, session, bounds
<1>1. Types'  BY DEF IInv, Types
<1>2. ASSUME NEW u \in Tasks, pc'[u] \in Active PROVE Waits(u)'
  BY <1>2 DEF IInv, Types, Waits, Known
<1>3. ASSUME NEW k \in Ops PROVE Known(k)'
  BY DEF IInv, Types, Known, Owned
<1>4. ASSUME NEW u \in Tasks, Latest(u)'
      PROVE  Latest(u) /\ loc'[u] = loc[u] /\ lastChange' < loc'[u].n
  BY <1>4 DEF IInv, Types, Latest, Newest, Waits
<1> QED BY <1>1, <1>2, <1>3, <1>4 DEF IInv

LEMMA InstallStep ==
  ASSUME IInv, NEW t \in Tasks, Install(t)
  PROVE  IInv'
<1> USE DEF Install, Close, End, Idle, threads, bounds
<1>1. Types'
  <2>1. loc[t].n \in 1..started  BY DEF IInv, Waits
  <2>2. conn' \in [Ops -> {"open", "closed"}]  BY DEF IInv, Types
  <2>3. pc' \in [Tasks -> Ended \cup Active] /\ loc' \in [Tasks -> Locals]
    BY DEF IInv, Types
  <2>4. /\ UNCHANGED <<generation, threads, flagged, closeAfter, started, bounds>>
        /\ current' = loc[t].n /\ lastChange' = loc[t].n
    OBVIOUS
  <2> HIDE DEF Install, Close, End, Idle
  <2>5. Types  BY DEF IInv
  <2>6. generation' \in 0..started' /\ current' \in Clients /\ lastChange' \in 0..started'
    BY <2>1, <2>4, <2>5 DEF Types
  <2>7. /\ worker' = worker /\ via' = via /\ channel' = channel /\ named' = named
        /\ cancelled' = cancelled /\ breaks' = breaks
    BY <2>4
  <2> QED BY <2>2, <2>3, <2>4, <2>5, <2>6, <2>7 DEF Types
<1>2. ASSUME NEW u \in Tasks, pc'[u] \in Active PROVE Waits(u)'
  BY <1>2 DEF IInv, Types, Waits, Known
<1>3. ASSUME NEW k \in Ops PROVE Known(k)'
  BY DEF IInv, Types, Known, Owned, Waits
<1>4. ASSUME NEW u \in Tasks, Latest(u)'
      PROVE  Latest(u) /\ loc'[u] = loc[u] /\ lastChange' < loc'[u].n
  BY <1>4 DEF IInv, Types, Latest, Newest, Waits
<1> QED BY <1>1, <1>2, <1>3, <1>4 DEF IInv

LEMMA LoginFailsStep ==
  ASSUME IInv, NEW t \in Tasks, LoginFails(t)
  PROVE  IInv'
<1> USE DEF LoginFails, Close, End, Idle, session, threads, bounds
<1>1. Types'  BY DEF IInv, Types, Waits
<1>2. ASSUME NEW u \in Tasks, pc'[u] \in Active PROVE Waits(u)'
  BY <1>2 DEF IInv, Types, Waits, Known
<1>3. ASSUME NEW k \in Ops PROVE Known(k)'
  BY DEF IInv, Types, Known, Owned, Waits
<1>4. ASSUME NEW u \in Tasks, Latest(u)'
      PROVE  Latest(u) /\ loc'[u] = loc[u] /\ lastChange' < loc'[u].n
  BY <1>4 DEF IInv, Types, Latest, Newest, Waits
<1> QED BY <1>1, <1>2, <1>3, <1>4 DEF IInv

LEMMA CancelLoginStep ==
  ASSUME IInv, NEW t \in Tasks, CancelLogin(t)
  PROVE  IInv'
<1> USE DEF CancelLogin, CloseLater, Close, End, Idle, session, threads
<1>1. Types'  BY DEF IInv, Types, Waits
<1>2. ASSUME NEW u \in Tasks, pc'[u] \in Active PROVE Waits(u)'
  BY <1>2 DEF IInv, Types, Waits, Known
<1>3. ASSUME NEW k \in Ops PROVE Known(k)'
  BY DEF IInv, Types, Known, Owned, Waits
<1>4. ASSUME NEW u \in Tasks, Latest(u)'
      PROVE  Latest(u) /\ loc'[u] = loc[u] /\ lastChange' < loc'[u].n
  BY <1>4 DEF IInv, Types, Latest, Newest, Waits
<1> QED BY <1>1, <1>2, <1>3, <1>4 DEF IInv

LEMMA CloseAfterConnectStep ==
  ASSUME IInv, NEW n \in Ops, CloseAfterConnect(n)
  PROVE  IInv'
<1> USE DEF CloseAfterConnect, Close, session, threads, bounds
<1>1. Types'  BY DEF IInv, Types
<1>2. ASSUME NEW u \in Tasks, pc'[u] \in Active PROVE Waits(u)'
  BY <1>2 DEF IInv, Types, Waits, Known
<1>3. ASSUME NEW k \in Ops PROVE Known(k)'
  BY DEF IInv, Types, Known, Owned
<1>4. ASSUME NEW u \in Tasks, Latest(u)'
      PROVE  Latest(u) /\ loc'[u] = loc[u] /\ lastChange' < loc'[u].n
  BY <1>4 DEF IInv, Types, Latest, Newest, Waits
<1> QED BY <1>1, <1>2, <1>3, <1>4 DEF IInv

LEMMA DisconnectStep ==
  ASSUME IInv, NEW t \in Tasks, Disconnect(t)
  PROVE  IInv'
<1> USE DEF Disconnect, Start, Close, End, Idle, threads, bounds
<1>1. Types'  BY DEF IInv, Types
<1>2. ASSUME NEW u \in Tasks, pc'[u] \in Active PROVE Waits(u)'
  BY <1>2 DEF IInv, Types, Waits, Known
<1>3. ASSUME NEW k \in Ops PROVE Known(k)'
  BY DEF IInv, Types, Known, Owned, Waits
<1>4. ASSUME NEW u \in Tasks, Latest(u)'
      PROVE  Latest(u) /\ loc'[u] = loc[u] /\ lastChange' < loc'[u].n
  BY <1>4 DEF IInv, Types, Latest, Newest, Waits
<1> QED BY <1>1, <1>2, <1>3, <1>4 DEF IInv

--------------------------------------------------------------------------------
(* run_command on the event loop.                                           *)

LEMMA RunCommandStep ==
  ASSUME IInv, NEW t \in Tasks, RunCommand(t)
  PROVE  IInv'
<1> USE DEF RunCommand, Start, Connected, At, Wait, session, bounds
<1>1. Types'
  <2>1. started + 1 \in Ops /\ current \in Clients  BY DEF IInv, Types
  <2>2. /\ worker' \in [Ops -> Done \cup Commanding \cup {"connect"}]
        /\ via' \in [Ops -> Clients]
    BY <2>1 DEF IInv, Types
  <2>3. pc' \in [Tasks -> Ended \cup Active] /\ loc' \in [Tasks -> Locals]
    BY <2>1 DEF IInv, Types
  <2> QED BY <2>1, <2>2, <2>3 DEF IInv, Types
<1>2. ASSUME NEW u \in Tasks, pc'[u] \in Active PROVE Waits(u)'
  BY <1>2 DEF IInv, Types, Waits, Known
<1>3. ASSUME NEW k \in Ops PROVE Known(k)'
  BY DEF IInv, Types, Known, Owned, Waits
<1>4. ASSUME NEW u \in Tasks, Latest(u)'
      PROVE  Latest(u) /\ loc'[u] = loc[u] /\ lastChange' < loc'[u].n
  BY <1>4 DEF IInv, Types, Latest, Newest, Waits
<1> QED BY <1>1, <1>2, <1>3, <1>4 DEF IInv

LEMMA NotConnectedStep ==
  ASSUME IInv, NEW t \in Tasks, NotConnected(t)
  PROVE  IInv'
<1> USE DEF NotConnected, Start, Connected, End, Idle, session, threads, bounds
<1>1. Types'  BY DEF IInv, Types
<1>2. ASSUME NEW u \in Tasks, pc'[u] \in Active PROVE Waits(u)'
  BY <1>2 DEF IInv, Types, Waits, Known
<1>3. ASSUME NEW k \in Ops PROVE Known(k)'
  BY DEF IInv, Types, Known, Owned, Waits
<1>4. ASSUME NEW u \in Tasks, Latest(u)'
      PROVE  Latest(u) /\ loc'[u] = loc[u] /\ lastChange' < loc'[u].n
  BY <1>4 DEF IInv, Types, Latest, Newest, Waits
<1> QED BY <1>1, <1>2, <1>3, <1>4 DEF IInv

LEMMA CommandReturnsStep ==
  ASSUME IInv, NEW t \in Tasks, CommandReturns(t)
  PROVE  IInv'
<1> USE DEF CommandReturns, End, Idle, session, threads, bounds
<1>1. Types'
  <2>1. pc' \in [Tasks -> Ended \cup Active] /\ loc' \in [Tasks -> Locals]
    BY DEF IInv, Types, Waits
  <2> QED BY <2>1 DEF IInv, Types
<1>2. ASSUME NEW u \in Tasks, pc'[u] \in Active PROVE Waits(u)'
  BY <1>2 DEF IInv, Types, Waits, Known
<1>3. ASSUME NEW k \in Ops PROVE Known(k)'
  BY DEF IInv, Types, Known, Owned, Waits
<1>4. ASSUME NEW u \in Tasks, Latest(u)'
      PROVE  Latest(u) /\ loc'[u] = loc[u] /\ lastChange' < loc'[u].n
  BY <1>4 DEF IInv, Types, Latest, Newest, Waits
<1> QED BY <1>1, <1>2, <1>3, <1>4 DEF IInv

LEMMA CommandFailsStep ==
  ASSUME IInv, NEW t \in Tasks, CommandFails(t)
  PROVE  IInv'
<1> USE DEF CommandFails, Invalidate, Close, End, Idle, threads, bounds
<1>1. Types'  BY DEF IInv, Types, Waits
<1>2. ASSUME NEW u \in Tasks, pc'[u] \in Active PROVE Waits(u)'
  BY <1>2 DEF IInv, Types, Waits, Known
<1>3. ASSUME NEW k \in Ops PROVE Known(k)'
  BY DEF IInv, Types, Known, Owned, Waits
<1>4. ASSUME NEW u \in Tasks, Latest(u)'
      PROVE  Latest(u) /\ loc'[u] = loc[u] /\ lastChange' < loc'[u].n
  BY <1>4 DEF IInv, Types, Latest, Newest, Waits
<1> QED BY <1>1, <1>2, <1>3, <1>4 DEF IInv

LEMMA StopCommandStep ==
  ASSUME IInv, NEW t \in Tasks, StopCommand(t)
  PROVE  IInv'
<1> USE DEF StopCommand, At, session
<1>1. Types'
  <2>1. /\ pc' \in [Tasks -> Ended \cup Active] /\ cancelled' \in 0..MaxCancels
        /\ worker' \in [Ops -> Done \cup Commanding \cup {"connect"}]
        /\ flagged' \subseteq 1..started
    BY DEF IInv, Types, Waits
  <2> QED BY <2>1 DEF IInv, Types
<1>2. ASSUME NEW u \in Tasks, pc'[u] \in Active PROVE Waits(u)'
  BY <1>2 DEF IInv, Types, Waits, Known
<1>3. ASSUME NEW k \in Ops PROVE Known(k)'
  BY DEF IInv, Types, Known, Owned, Waits
<1>4. ASSUME NEW u \in Tasks, Latest(u)'
      PROVE  Latest(u) /\ loc'[u] = loc[u] /\ lastChange' < loc'[u].n
  BY <1>4 DEF IInv, Types, Latest, Newest, Waits
<1> QED BY <1>1, <1>2, <1>3, <1>4 DEF IInv

LEMMA CloseChannelStep ==
  ASSUME IInv, NEW t \in Tasks, CloseChannel(t)
  PROVE  IInv'
<1> USE DEF CloseChannel, End, Idle, session, bounds
<1>1. Types'  BY DEF IInv, Types, Waits
<1>2. ASSUME NEW u \in Tasks, pc'[u] \in Active PROVE Waits(u)'
  BY <1>2 DEF IInv, Types, Waits, Known
<1>3. ASSUME NEW k \in Ops PROVE Known(k)'
  BY DEF IInv, Types, Known, Owned, Waits
<1>4. ASSUME NEW u \in Tasks, Latest(u)'
      PROVE  Latest(u) /\ loc'[u] = loc[u] /\ lastChange' < loc'[u].n
  BY <1>4 DEF IInv, Types, Latest, Newest, Waits
<1> QED BY <1>1, <1>2, <1>3, <1>4 DEF IInv

--------------------------------------------------------------------------------
(* The worker threads of commands, and the network.                         *)

LEMMA BeginStep ==
  ASSUME IInv, NEW n \in Ops, Begin(n)
  PROVE  IInv'
<1> USE DEF Begin, At, onLoop, session, bounds
<1>1. Types'  BY DEF IInv, Types
<1>2. ASSUME NEW u \in Tasks, pc'[u] \in Active PROVE Waits(u)'
  BY <1>2 DEF IInv, Types, Waits, Known
<1>3. ASSUME NEW k \in Ops PROVE Known(k)'
  BY DEF IInv, Types, Known, Owned
<1>4. ASSUME NEW u \in Tasks, Latest(u)'
      PROVE  Latest(u) /\ loc'[u] = loc[u] /\ lastChange' < loc'[u].n
  BY <1>4 DEF IInv, Types, Latest, Newest, Waits
<1> QED BY <1>1, <1>2, <1>3, <1>4 DEF IInv

LEMMA ExecStep ==
  ASSUME IInv, NEW n \in Ops, Exec(n)
  PROVE  IInv'
<1> USE DEF Exec, At, onLoop, session, bounds
<1>1. Types'
  <2>1. /\ channel \in [Ops -> {"none", "open", "closed"}]
        /\ worker \in [Ops -> Done \cup Commanding \cup {"connect"}]
    BY DEF IInv, Types
  <2>2. worker' \in [Ops -> Done \cup Commanding \cup {"connect"}]
    BY <2>1
  <2>3. channel' = channel \/ channel' = [channel EXCEPT ![n] = "open"]
    OBVIOUS
  <2>4. /\ channel' \in [Ops -> {"none", "open", "closed"}]
        /\ \A m \in Ops : channel[m] # "none" => channel'[m] # "none"
    BY <2>1, <2>3
  <2> QED BY <2>2, <2>4 DEF IInv, Types
<1>0. /\ UNCHANGED <<named, onLoop>> /\ worker[n] = "exec"
      /\ \A m \in Ops \ {n} : worker'[m] = worker[m] /\ channel'[m] = channel[m]
      /\ worker'[n] = "error" \/ (worker'[n] = "opened" /\ channel'[n] = "open")
  BY DEF IInv, Types
<1>2. ASSUME NEW u \in Tasks, pc'[u] \in Active PROVE Waits(u)'
  <2>1. Waits(u) /\ pc'[u] = pc[u] /\ loc'[u] = loc[u] /\ loc[u].n \in Ops
    BY <1>0, <1>2 DEF IInv, Types, Waits
  <2> HIDE DEF Exec
  <2> QED BY <1>0, <2>1 DEF Waits
<1>3. ASSUME NEW k \in Ops PROVE Known(k)'
  <2> HIDE DEF Exec
  <2>1. Known(k) /\ (Owned(k)' <=> Owned(k))  BY <1>0 DEF IInv, Owned
  <2> QED BY <1>0, <2>1 DEF Known
<1>4. ASSUME NEW u \in Tasks, Latest(u)'
      PROVE  Latest(u) /\ loc'[u] = loc[u] /\ lastChange' < loc'[u].n
  BY <1>4 DEF IInv, Types, Latest, Newest, Waits
<1> QED BY <1>1, <1>2, <1>3, <1>4 DEF IInv

LEMMA NameChannelStep ==
  ASSUME IInv, NEW n \in Ops, NameChannel(n)
  PROVE  IInv'
<1> USE DEF NameChannel, At, onLoop, session, bounds
<1>1. Types'  BY DEF IInv, Types, Known
<1>2. ASSUME NEW u \in Tasks, pc'[u] \in Active PROVE Waits(u)'
  BY <1>2 DEF IInv, Types, Waits, Known
<1>3. ASSUME NEW k \in Ops PROVE Known(k)'
  BY DEF IInv, Types, Known, Owned
<1>4. ASSUME NEW u \in Tasks, Latest(u)'
      PROVE  Latest(u) /\ loc'[u] = loc[u] /\ lastChange' < loc'[u].n
  BY <1>4 DEF IInv, Types, Latest, Newest, Waits
<1> QED BY <1>1, <1>2, <1>3, <1>4 DEF IInv

LEMMA CheckStep ==
  ASSUME IInv, NEW n \in Ops, Check(n)
  PROVE  IInv'
<1> USE DEF Check, At, GivenUp, onLoop, session, bounds
<1>1. Types'  BY DEF IInv, Types
<1>2. ASSUME NEW u \in Tasks, pc'[u] \in Active PROVE Waits(u)'
  BY <1>2 DEF IInv, Types, Waits, Known
<1>3. ASSUME NEW k \in Ops PROVE Known(k)'
  BY DEF IInv, Types, Known, Owned
<1>4. ASSUME NEW u \in Tasks, Latest(u)'
      PROVE  Latest(u) /\ loc'[u] = loc[u] /\ lastChange' < loc'[u].n
  BY <1>4 DEF IInv, Types, Latest, Newest, Waits
<1> QED BY <1>1, <1>2, <1>3, <1>4 DEF IInv

LEMMA ReadEndsStep ==
  ASSUME IInv, NEW n \in Ops, ReadEnds(n)
  PROVE  IInv'
<1> USE DEF ReadEnds, At, onLoop, session, bounds
<1>1. Types'  BY DEF IInv, Types
<1>2. ASSUME NEW u \in Tasks, pc'[u] \in Active PROVE Waits(u)'
  BY <1>2 DEF IInv, Types, Waits, Known
<1>3. ASSUME NEW k \in Ops PROVE Known(k)'
  BY DEF IInv, Types, Known, Owned
<1>4. ASSUME NEW u \in Tasks, Latest(u)'
      PROVE  Latest(u) /\ loc'[u] = loc[u] /\ lastChange' < loc'[u].n
  BY <1>4 DEF IInv, Types, Latest, Newest, Waits
<1> QED BY <1>1, <1>2, <1>3, <1>4 DEF IInv

LEMMA TransportBreaksStep ==
  ASSUME IInv, NEW n \in Ops, TransportBreaks(n)
  PROVE  IInv'
<1> USE DEF TransportBreaks, Close, session, threads
<1>1. Types'
  <2>1. conn' \in [Ops -> {"open", "closed"}] /\ breaks' \in 0..MaxBreaks
    BY DEF IInv, Types
  <2> QED BY <2>1 DEF IInv, Types
<1>2. ASSUME NEW u \in Tasks, pc'[u] \in Active PROVE Waits(u)'
  BY <1>2 DEF IInv, Types, Waits, Known
<1>3. ASSUME NEW k \in Ops PROVE Known(k)'
  BY DEF IInv, Types, Known, Owned
<1>4. ASSUME NEW u \in Tasks, Latest(u)'
      PROVE  Latest(u) /\ loc'[u] = loc[u] /\ lastChange' < loc'[u].n
  BY <1>4 DEF IInv, Types, Latest, Newest, Waits
<1> QED BY <1>1, <1>2, <1>3, <1>4 DEF IInv

--------------------------------------------------------------------------------
LEMMA NextIInv == IInv /\ [Next]_vars => IInv'
<1> SUFFICES ASSUME IInv, [Next]_vars PROVE IInv'  OBVIOUS
<1>1. ASSUME NEW t \in Tasks, Operation(t) \/ Resume(t) \/ CancelLogin(t) \/ StopCommand(t)
      PROVE  IInv'
  BY <1>1, AuthenticateStep, DisconnectStep, RunCommandStep, NotConnectedStep, InstallStep,
     LoginFailsStep, CommandReturnsStep, CommandFailsStep, CloseChannelStep, CancelLoginStep,
     StopCommandStep
  DEF Operation, Resume
<1>2. ASSUME NEW n \in Ops, Thread(n) \/ CloseAfterConnect(n) \/ TransportBreaks(n)
      PROVE  IInv'
  BY <1>2, ConnectEndsStep, BeginStep, ExecStep, NameChannelStep, CheckStep, ReadEndsStep,
     CloseAfterConnectStep, TransportBreaksStep
  DEF Thread
<1>3. CASE UNCHANGED vars
  BY <1>3 DEF vars, IInv, Types, Waits, Known, Owned, Latest, Newest
<1> QED BY <1>1, <1>2, <1>3 DEF Next

(* The inductive invariant holds in every state.                            *)
THEOREM Inductive == Spec => []IInv
BY InitIInv, NextIInv, PTL DEF Spec

(* For any tasks and bounds: every variable holds what it declares, and a   *)
(* waiting task has a worker to wait for.                                   *)
THEOREM TypeOKThm == Spec => []TypeOK
<1>1. IInv => TypeOK  BY DEF IInv, Types, Waits, Known, TypeOK
<1> QED BY <1>1, Inductive, PTL

(* For any tasks and bounds, an open transport is the current client's or a *)
(* login's that will close or install it (ssh_client.py:211-222).           *)
THEOREM NoLeakedConnectionThm == Spec => []NoLeakedConnection
<1>1. IInv => NoLeakedConnection  BY DEF IInv, Known, Owned, NoLeakedConnection
<1> QED BY <1>1, Inductive, PTL

(* No login is installed over a session change that is newer than it: it    *)
(* would not be of the current generation (223-231).                        *)
THEOREM NewerChangeWinsThm == Spec => NewerChangeWins
<1>1. IInv /\ [Next]_vars => [current' \notin {0, current} => current' > lastChange]_vars
  <2> SUFFICES ASSUME IInv, Next, current' \notin {0, current} PROVE current' > lastChange
    OBVIOUS
  <2>1. ASSUME NEW t \in Tasks, Operation(t) \/ Resume(t) \/ CancelLogin(t) \/ StopCommand(t)
        PROVE  Install(t)
    BY <2>1 DEF Operation, Resume, Authenticate, Disconnect, RunCommand, NotConnected, LoginFails,
       CommandReturns, CommandFails, CloseChannel, CancelLogin, StopCommand, session, Invalidate
  <2>2. ASSUME NEW n \in Ops, Thread(n) \/ CloseAfterConnect(n) \/ TransportBreaks(n)
        PROVE  FALSE
    BY <2>2 DEF Thread, ConnectEnds, Begin, Exec, NameChannel, Check, ReadEnds, CloseAfterConnect,
       TransportBreaks, onLoop, session
  <2>3. PICK t \in Tasks : Install(t)  BY <2>1, <2>2 DEF Next
  <2> QED BY <2>3 DEF IInv, Types, Latest, Install, Waits
<1> QED BY <1>1, Inductive, PTL DEF Spec, NewerChangeWins

--------------------------------------------------------------------------------
(* A command that was given up does not wait for its output for ever.       *)

(* A worker that reads for a command whose cancelled event is set has its   *)
(* channel closed, or the task that set the event has yet to close it.      *)
ReaderIsCut ==
  \A n \in Ops : worker[n] = "read" /\ n \in flagged =>
    \/ channel[n] = "closed"
    \/ \E t \in Tasks : pc[t] = "cancelling" /\ loc[t].n = n

(* The event is read after the channel has got its name, and set before the *)
(* channel is closed by that name.                                          *)
NamedFirst == \A n \in Ops : worker[n] \in {"check", "read"} => n \in named

LEMMA InitCut == Init => NamedFirst /\ ReaderIsCut
BY DEF Init, NamedFirst, ReaderIsCut

(* A task that was not closing a channel starts or ends something else.     *)
LEMMA CutStays ==
  ASSUME NamedFirst, ReaderIsCut, NEW t \in Tasks, pc[t] # "cancelling",
         \A u \in Tasks \ {t} : pc'[u] = pc[u] /\ loc'[u] = loc[u],
         \A n \in Ops : worker'[n] \in {"check", "read"} => worker'[n] = worker[n],
         UNCHANGED <<channel, named, flagged>>
  PROVE  (NamedFirst /\ ReaderIsCut)'
BY DEF NamedFirst, ReaderIsCut

LEMMA TaskCut ==
  ASSUME IInv, NamedFirst, ReaderIsCut, NEW t \in Tasks,
         Operation(t) \/ Resume(t) \/ CancelLogin(t) \/ StopCommand(t)
  PROVE  (NamedFirst /\ ReaderIsCut)'
<1>t. /\ pc \in [Tasks -> Ended \cup Active] /\ loc \in [Tasks -> Locals]
      /\ worker \in [Ops -> Done \cup Commanding \cup {"connect"}]
      /\ channel \in [Ops -> {"none", "open", "closed"}]
  BY DEF IInv, Types
<1>1. CASE Authenticate(t) \/ RunCommand(t)
  <2> USE <1>t, <1>1 DEF Authenticate, RunCommand, Start, At, Wait
  <2>1. \A n \in Ops : worker'[n] \in {"check", "read"} => worker'[n] = worker[n]  OBVIOUS
  <2>2. \A u \in Tasks \ {t} : pc'[u] = pc[u] /\ loc'[u] = loc[u]  OBVIOUS
  <2> QED BY <2>1, <2>2, CutStays
<1>2. CASE \/ Disconnect(t) \/ NotConnected(t) \/ Install(t) \/ LoginFails(t)
           \/ CommandReturns(t) \/ CommandFails(t) \/ CancelLogin(t)
  <2>1. /\ UNCHANGED <<worker, channel, named, flagged>> /\ pc[t] # "cancelling"
        /\ \E at : End(t, at)
    BY <1>2 DEF Disconnect, NotConnected, Start, Install, LoginFails, CommandReturns, CommandFails,
       CancelLogin, threads
  <2>2. \A u \in Tasks \ {t} : pc'[u] = pc[u] /\ loc'[u] = loc[u]  BY <1>t, <2>1 DEF End
  <2> QED BY <2>1, <2>2, CutStays
<1> USE <1>t DEF NamedFirst, ReaderIsCut
<1>3. CASE StopCommand(t)
  <2> USE <1>3 DEF StopCommand, At
  <2>1. UNCHANGED <<channel, named, loc>> /\ flagged' = flagged \cup {loc[t].n}  OBVIOUS
  <2>2. \A u \in Tasks : pc'[u] = IF u = t THEN "cancelling" ELSE pc[u]  OBVIOUS
  <2>3. \A n \in Ops : worker'[n] \in {"check", "read"} => worker'[n] = worker[n]  OBVIOUS
  <2> QED BY <2>1, <2>2, <2>3
<1>4. CASE CloseChannel(t)
  <2> USE <1>4 DEF CloseChannel, End
  <2>1. UNCHANGED <<worker, named, flagged>>  OBVIOUS
  <2>2. \A u \in Tasks \ {t} : pc'[u] = pc[u] /\ loc'[u] = loc[u]  OBVIOUS
  <2>3. \A n \in Ops : channel'[n] = IF n = loc[t].n /\ n \in named THEN "closed" ELSE channel[n]
    OBVIOUS
  <2> QED BY <2>1, <2>2, <2>3
<1> QED BY <1>1, <1>2, <1>3, <1>4 DEF Operation, Resume

LEMMA ThreadCut ==
  ASSUME IInv, NamedFirst, ReaderIsCut, NEW n \in Ops,
         Thread(n) \/ CloseAfterConnect(n) \/ TransportBreaks(n)
  PROVE  (NamedFirst /\ ReaderIsCut)'
<1> USE DEF IInv, Types, NamedFirst, ReaderIsCut, onLoop, threads, At
<1>1. UNCHANGED <<pc, loc, flagged>> /\ named' \in {named, named \cup {n}}
  BY DEF Thread, ConnectEnds, Begin, Exec, NameChannel, Check, ReadEnds, CloseAfterConnect,
     TransportBreaks
<1>2. \A k \in Ops \ {n} : worker'[k] = worker[k] /\ channel'[k] = channel[k]
  BY DEF Thread, ConnectEnds, Begin, Exec, NameChannel, Check, ReadEnds, CloseAfterConnect,
     TransportBreaks
<1>3. worker'[n] \in {"check", "read"} => n \in named'
  BY DEF Thread, ConnectEnds, Begin, Exec, NameChannel, Check, ReadEnds, CloseAfterConnect,
     TransportBreaks
<1>4. \/ worker'[n] = worker[n] /\ channel'[n] = channel[n]
      \/ worker'[n] = "read" => n \notin flagged
  BY DEF Thread, ConnectEnds, Begin, Exec, NameChannel, Check, GivenUp, ReadEnds,
     CloseAfterConnect, TransportBreaks
<1>5. NamedFirst'  BY <1>1, <1>2, <1>3
<1>6. ReaderIsCut'  BY <1>1, <1>2, <1>4
<1> QED BY <1>5, <1>6

(* Whichever of the loop and the thread comes first, a worker does not read *)
(* for a given-up command from a channel that nobody will close             *)
(* (_CommandExecution.cancel, 112-118, against 347-356): the safety half of *)
(* GivenUpCommandsEnd.                                                      *)
THEOREM ReaderIsCutThm == Spec => []ReaderIsCut
<1>1. IInv /\ NamedFirst /\ ReaderIsCut /\ [Next]_vars => (NamedFirst /\ ReaderIsCut)'
  <2> SUFFICES ASSUME IInv, NamedFirst, ReaderIsCut, [Next]_vars
               PROVE  (NamedFirst /\ ReaderIsCut)'
    OBVIOUS
  <2>1. CASE UNCHANGED vars  BY <2>1 DEF vars, NamedFirst, ReaderIsCut
  <2> QED BY <2>1, TaskCut, ThreadCut DEF Next
<1> QED BY <1>1, InitCut, Inductive, PTL DEF Spec

--------------------------------------------------------------------------------
(* SSHClient implements SSHRegister.                                        *)

(* The logins that may still be installed, and the client each task's       *)
(* command runs on: what the refinement mapping makes of tasks and threads. *)
Chances == {loc[t].n : t \in {u \in Tasks : Latest(u)}}
Runs == [t \in Tasks |-> IF pc[t] = "running" THEN via[loc[t].n] ELSE 0]

LEMMA RegisterMaps ==
  /\ Register!Begin <=> started' = started + 1
  /\ Register!Login <=>
       Register!Begin /\ Chances' = {started + 1} /\ UNCHANGED <<current, Runs>>
  /\ Register!Succeed <=>
       Chances = {current'} /\ Chances' = {} /\ UNCHANGED <<started, Runs>>
  /\ Register!GiveUp <=> Chances' = {} /\ UNCHANGED <<current, started, Runs>>
  /\ Register!Disconnect <=>
       Register!Begin /\ current' = 0 /\ Chances' = {} /\ UNCHANGED Runs
  /\ Register!Refuse <=>
       Register!Begin /\ current = 0 /\ UNCHANGED <<current, Chances, Runs>>
  /\ \A t : Register!Command(t) <=>
       /\ Register!Begin /\ current # 0 /\ Runs[t] = 0
       /\ Runs' = [Runs EXCEPT ![t] = current]
       /\ UNCHANGED <<current, Chances>>
  /\ \A t : Register!Return(t) <=>
       /\ Runs[t] # 0 /\ Runs' = [Runs EXCEPT ![t] = 0]
       /\ current' \in {current, 0} /\ (current' = current \/ current = Runs[t])
       /\ UNCHANGED <<Chances, started>>
  /\ UNCHANGED Register!rvars <=> UNCHANGED <<current, Chances, started, Runs>>
BY DEF Chances, Latest, Runs, Register!Begin, Register!Login, Register!Succeed, Register!GiveUp,
   Register!Disconnect, Register!Refuse, Register!Command, Register!Return, Register!rvars

(* A login that may still be installed is the only one. *)
LEMMA OneChance ==
  ASSUME IInv, NEW t \in Tasks, Latest(t)
  PROVE  Chances = {loc[t].n}
BY DEF IInv, Chances

(* What may be installed stays as it is where no task's chance changes.     *)
LEMMA ChancesStay ==
  ASSUME \A u \in Tasks : Latest(u)' <=> Latest(u),
         \A u \in Tasks : Latest(u) => loc'[u].n = loc[u].n
  PROVE  Chances' = Chances
<1> DEFINE L == {u \in Tasks : Latest(u)}
<1>1. L' = L  OBVIOUS
<1>2. Chances' = {loc'[u].n : u \in L}  BY <1>1 DEF Chances
<1>3. \A u \in L : loc'[u].n = loc[u].n  OBVIOUS
<1> QED BY <1>2, <1>3 DEF Chances

(* No task's command changes where no task's own place does.                *)
LEMMA RunsStay ==
  ASSUME \A u \in Tasks : pc'[u] = "running" <=> pc[u] = "running",
         \A u \in Tasks : pc[u] = "running" => via'[loc'[u].n] = via[loc[u].n]
  PROVE  Runs' = Runs
BY DEF Runs

(* One task's command begins or ends. *)
LEMMA RunsChange ==
  ASSUME NEW t \in Tasks, NEW c, \A u \in Tasks : Runs'[u] = IF u = t THEN c ELSE Runs[u]
  PROVE  Runs' = [Runs EXCEPT ![t] = c]
<1>1. /\ Runs = [u \in Tasks |-> Runs[u]] /\ Runs' = [u \in Tasks |-> Runs'[u]]
  BY DEF Runs
<1> QED BY <1>1

LEMMA LoginRegister ==
  ASSUME IInv, NEW t \in Tasks, Authenticate(t) \/ Install(t) \/ LoginFails(t) \/ CancelLogin(t)
  PROVE  [Register!RNext]_(Register!rvars)
<1> USE DEF IInv, Types, Waits
<1>1. CASE Authenticate(t)
  <2> USE <1>1 DEF Authenticate, Start, Wait
  <2>1. Runs' = Runs  BY RunsStay
  <2>2. \A u \in Tasks : Latest(u)' <=> u = t  BY DEF Latest, Newest
  <2>3. Chances' = {started + 1}  BY <2>2 DEF Chances
  <2>4. Register!Login  BY <2>1, <2>3, RegisterMaps
  <2> QED BY <2>4 DEF Register!RNext
<1>2. CASE Install(t)
  <2> USE <1>2 DEF Install, End, threads
  <2>1. Latest(t) /\ Chances = {loc[t].n}  BY OneChance DEF Latest
  <2>2. \A u \in Tasks : ~Latest(u)'  BY <2>1 DEF Latest, Newest
  <2>3. Runs' = Runs  BY RunsStay
  <2>4. Register!Succeed  BY <2>1, <2>2, <2>3, RegisterMaps DEF Chances
  <2> QED BY <2>4 DEF Register!RNext
<1>3. CASE LoginFails(t) \/ CancelLogin(t)
  <2> USE <1>3 DEF LoginFails, CancelLogin, End, session, threads
  <2>1. Runs' = Runs  BY RunsStay
  <2>2. \A u \in Tasks : Latest(u)' <=> Latest(u) /\ u # t  BY DEF Latest, Newest
  <2>3. CASE Latest(t)
    <3>1. \A u \in Tasks : ~Latest(u)'  BY <2>2, <2>3
    <3>2. Register!GiveUp  BY <2>1, <3>1, RegisterMaps DEF Chances
    <3> QED BY <3>2 DEF Register!RNext
  <2>4. CASE ~Latest(t)
    <3>1. \A u \in Tasks \ {t} : loc'[u] = loc[u]  OBVIOUS
    <3> HIDE DEF LoginFails, CancelLogin, End, IInv, Types, Waits
    <3>2. \A u \in Tasks : Latest(u) => loc'[u].n = loc[u].n  BY <2>4, <3>1, Zenon
    <3>3. \A u \in Tasks : Latest(u)' <=> Latest(u)  BY <2>2, <2>4, Zenon
    <3>4. Chances' = Chances  BY <3>2, <3>3, ChancesStay
    <3>5. UNCHANGED <<current, started>>  BY <1>3 DEF LoginFails, CancelLogin
    <3> QED BY <2>1, <3>4, <3>5, RegisterMaps
  <2> QED BY <2>3, <2>4
<1> QED BY <1>1, <1>2, <1>3

LEMMA DisconnectRegister ==
  ASSUME IInv, NEW t \in Tasks, Disconnect(t) \/ NotConnected(t)
  PROVE  [Register!RNext]_(Register!rvars)
<1> USE DEF IInv, Types, Waits, Start, End
<1>1. Runs' = Runs
  <2>1. /\ via' = via /\ pc[t] # "running" /\ pc'[t] # "running"
        /\ \A u \in Tasks \ {t} : pc'[u] = pc[u] /\ loc'[u] = loc[u]
    BY DEF Disconnect, NotConnected, threads
  <2> HIDE DEF IInv, Types, Waits, Start, End
  <2> QED BY <2>1, RunsStay
<1>2. CASE Disconnect(t)
  <2>1. \A u \in Tasks : ~Latest(u)'  BY <1>2 DEF Disconnect, Latest, Newest
  <2>2. Register!Disconnect  BY <1>1, <1>2, <2>1, RegisterMaps DEF Disconnect, Chances
  <2> QED BY <2>2 DEF Register!RNext
<1>3. CASE NotConnected(t)
  <2>1. Chances' = Chances  BY <1>3, ChancesStay DEF NotConnected, session, Latest, Newest
  <2>2. Register!Refuse  BY <1>1, <1>3, <2>1, RegisterMaps DEF NotConnected, Connected, session
  <2> QED BY <2>2 DEF Register!RNext
<1> QED BY <1>2, <1>3

LEMMA CommandRegister ==
  ASSUME IInv, NEW t \in Tasks,
         \/ RunCommand(t) \/ CommandReturns(t) \/ CommandFails(t)
         \/ StopCommand(t) \/ CloseChannel(t)
  PROVE  [Register!RNext]_(Register!rvars)
<1> USE DEF IInv, Types, Waits
<1>1. Chances' = Chances
  <2>1. /\ generation' = generation /\ pc[t] # "connecting" /\ pc'[t] # "connecting"
        /\ \A u \in Tasks \ {t} : pc'[u] = pc[u] /\ loc'[u] = loc[u]
    <3>1. CASE RunCommand(t)  BY <3>1 DEF RunCommand, Start, Wait, session
    <3>2. CASE CommandReturns(t)  BY <3>2 DEF CommandReturns, End, session
    <3>3. CASE CommandFails(t)  BY <3>3 DEF CommandFails, End
    <3>4. CASE StopCommand(t)  BY <3>4 DEF StopCommand, session
    <3>5. CASE CloseChannel(t)  BY <3>5 DEF CloseChannel, End, session
    <3> QED BY <3>1, <3>2, <3>3, <3>4, <3>5
  <2> QED BY <2>1, ChancesStay DEF Latest, Newest
<1>2. CASE RunCommand(t)
  <2> USE <1>2 DEF RunCommand, Start, Wait, Connected, session
  <2>1. ASSUME NEW u \in Tasks PROVE Runs'[u] = IF u = t THEN current ELSE Runs[u]
    <3>1. CASE u = t  BY <3>1 DEF Runs
    <3>2. CASE u # t /\ pc[u] = "running"
      <4>1. pc[u] \in Active /\ loc'[u] = loc[u] /\ loc[u].n # started + 1  BY <3>2
      <4> QED BY <3>2, <4>1 DEF Runs
    <3>3. CASE u # t /\ pc[u] # "running"  BY <3>3 DEF Runs
    <3> QED BY <3>1, <3>2, <3>3
  <2>2. Runs' = [Runs EXCEPT ![t] = current]  BY <2>1, RunsChange
  <2>3. Runs[t] = 0  BY DEF Runs
  <2>4. Register!Command(t)  BY <1>1, <2>2, <2>3, RegisterMaps
  <2> QED BY <2>4 DEF Register!RNext
<1>3. CASE CommandReturns(t) \/ CommandFails(t) \/ StopCommand(t)
  <2> USE <1>3 DEF CommandReturns, CommandFails, StopCommand, Invalidate, End, session, threads
  <2>0. /\ pc'[t] # "running" /\ via' = via
        /\ \A u \in Tasks \ {t} : pc'[u] = pc[u] /\ loc'[u] = loc[u]
    OBVIOUS
  <2>1. \A u \in Tasks : Runs'[u] = IF u = t THEN 0 ELSE Runs[u]  BY <2>0 DEF Runs
  <2>2. Runs' = [Runs EXCEPT ![t] = 0]  BY <2>1, RunsChange
  <2>3. Runs[t] = via[loc[t].n] /\ Runs[t] # 0  BY DEF Runs
  <2>4. Register!Return(t)  BY <1>1, <2>2, <2>3, RegisterMaps
  <2> QED BY <2>4 DEF Register!RNext
<1>4. CASE CloseChannel(t)
  <2>1. Runs' = Runs  BY <1>4, RunsStay DEF CloseChannel, End
  <2> QED BY <1>1, <1>4, <2>1, RegisterMaps DEF CloseChannel, session
<1> QED BY <1>2, <1>3, <1>4

(* The SSH client implements the register: only the newest change can be    *)
(* installed (223-231), a command stays with the client it began on, and no *)
(* failure forgets another one (335-339).                                   *)
THEOREM ImplementsRegisterThm == Spec => ImplementsRegister
<1>1. Init => Register!RInit
  BY DEF Init, Register!RInit
<1>2. IInv /\ [Next]_vars => [Register!RNext]_(Register!rvars)
  <2> SUFFICES ASSUME IInv, [Next]_vars  PROVE [Register!RNext]_(Register!rvars)
    OBVIOUS
  <2>1. ASSUME NEW t \in Tasks, Operation(t) \/ Resume(t) \/ CancelLogin(t) \/ StopCommand(t)
        PROVE  [Register!RNext]_(Register!rvars)
    BY <2>1, LoginRegister, DisconnectRegister, CommandRegister DEF Operation, Resume
  <2>2. CASE UNCHANGED <<generation, current, started, pc, loc, via>>
    BY <2>2, RegisterMaps DEF Chances, Latest, Newest, Runs
  <2>3. ASSUME NEW n \in Ops, Thread(n) \/ CloseAfterConnect(n) \/ TransportBreaks(n)
        PROVE  UNCHANGED <<generation, current, started, pc, loc, via>>
    BY <2>3 DEF Thread, ConnectEnds, Begin, Exec, NameChannel, Check, ReadEnds, CloseAfterConnect,
       TransportBreaks, onLoop, session, threads
  <2> QED BY <2>1, <2>2, <2>3 DEF Next, vars
<1> QED BY <1>1, <1>2, Inductive, PTL DEF Spec, ImplementsRegister, Register!RSpec

(* The current client is dropped only by a disconnect or by a command that  *)
(* failed on that client itself, never by one on its predecessor (335-339). *)
THEOREM FailureDropsItsOwnClientThm ==
  Spec => [][current # 0 /\ current' = 0 =>
               \/ generation' # generation
               \/ \E t \in Tasks : pc[t] = "running" /\ via[loc[t].n] = current]_vars
<1> DEFINE Drop == current # 0 /\ current' = 0 =>
                     \/ generation' # generation
                     \/ \E t \in Tasks : pc[t] = "running" /\ via[loc[t].n] = current
<1>1. IInv /\ [Next]_vars => [Drop]_vars
  <2> SUFFICES ASSUME IInv, Next, current # 0, current' = 0, generation' = generation
               PROVE  \E t \in Tasks : pc[t] = "running" /\ via[loc[t].n] = current
    OBVIOUS
  <2>1. ASSUME NEW t \in Tasks, Operation(t) \/ Resume(t) \/ CancelLogin(t) \/ StopCommand(t)
        PROVE  CommandFails(t)
    <3>1. loc[t].n # 0 \/ ~Install(t)  BY DEF IInv, Waits, Install
    <3> QED BY <2>1, <3>1 DEF IInv, Types, Operation, Resume, Authenticate, Disconnect, RunCommand,
          NotConnected, Install, LoginFails, CommandReturns, CloseChannel, CancelLogin, StopCommand,
          session
  <2>2. ASSUME NEW n \in Ops, Thread(n) \/ CloseAfterConnect(n) \/ TransportBreaks(n)
        PROVE  FALSE
    BY <2>2 DEF Thread, ConnectEnds, Begin, Exec, NameChannel, Check, ReadEnds, CloseAfterConnect,
       TransportBreaks, onLoop, session
  <2>3. PICK t \in Tasks : CommandFails(t)  BY <2>1, <2>2 DEF Next
  <2> QED BY <2>3 DEF CommandFails, Invalidate
<1> QED BY <1>1, Inductive, PTL DEF Spec
================================================================================
