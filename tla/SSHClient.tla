------------------------------- MODULE SSHClient -------------------------------
(* NanoKVMSSH: nanokvm/ssh_client.py.                                       *)
(*                                                                          *)
(* paramiko blocks, so each login and each command runs in a worker thread  *)
(* that the event loop waits for. A task may stop waiting at any time; its  *)
(* worker goes on. Operations are numbered in the order they start, and a   *)
(* login's number also names the paramiko client it makes. _state_lock never *)
(* suspends, for nothing awaits inside it, so what it guards is one step.   *)
EXTENDS Naturals

CONSTANTS Tasks,       \* the asyncio tasks that use the client
          MaxOps,      \* bound: operations started in a behaviour
          MaxCancels,  \* bound: cancellations and timeouts
          MaxBreaks    \* bound: transports that break

ASSUME SSHAssumption == {MaxOps, MaxCancels, MaxBreaks} \subseteq Nat

VARIABLES
  generation,   \* _state_generation
  current,      \* ssh_client: 0 is None, else the login that made it
  conn,         \* login -> whether its paramiko client has a transport
  worker,       \* operation -> where its worker thread stands
  via,          \* command -> the paramiko client it runs on
  channel,      \* command -> "none", or the state of its channel
  named,        \* commands whose execution object names their channel
  flagged,      \* commands whose cancelled event is set
  closeAfter,   \* cancelled logins with a done callback
  pc, loc,      \* where each task is; its operation and its generation
  started, cancelled, breaks,   \* so far
  lastChange    \* history: the newest disconnect or installed login

vars == <<generation, current, conn, worker, via, channel, named, flagged, closeAfter, pc, loc,
          started, cancelled, breaks, lastChange>>
session == <<generation, current, lastChange>>
threads == <<worker, via, channel, named>>
bounds == <<cancelled, breaks>>

Ops == 1..MaxOps
Clients == Ops \cup {0}
Done == {"none", "ok", "error"}
Commanding == {"queued", "exec", "opened", "check", "read"}
Ended == {"new", "ok", "failed"}
Idle == [n |-> 0, gen |-> 0]

Init ==
  /\ generation = 0 /\ current = 0 /\ lastChange = 0
  /\ conn = [n \in Ops |-> "closed"]
  /\ worker = [n \in Ops |-> "none"]
  /\ via = [n \in Ops |-> 0]
  /\ channel = [n \in Ops |-> "none"]
  /\ named = {} /\ flagged = {} /\ closeAfter = {}
  /\ pc = [t \in Tasks |-> "new"] /\ loc = [t \in Tasks |-> Idle]
  /\ started = 0 /\ cancelled = 0 /\ breaks = 0

Close(c) == conn' = [n \in Ops |-> IF n = c THEN "closed" ELSE conn[n]]
At(n, at) == worker' = [worker EXCEPT ![n] = at]

Start(t) ==
  /\ pc[t] \in Ended /\ started < MaxOps
  /\ started' = started + 1

Wait(t, at, gen) ==
  /\ pc' = [pc EXCEPT ![t] = at]
  /\ loc' = [loc EXCEPT ![t] = [n |-> started + 1, gen |-> gen]]

End(t, at) ==
  /\ pc' = [pc EXCEPT ![t] = at]
  /\ loc' = [loc EXCEPT ![t] = Idle]

--------------------------------------------------------------------------------
(* authenticate and disconnect. A name that ends in a bug, such as          *)
(* Newest_Unchecked, is a mutant of the definition that follows it.         *)

Authenticate(t) ==
  /\ Start(t)
  /\ generation' = generation + 1
  /\ At(started + 1, "connect")
  /\ Wait(t, "connecting", generation + 1)
  /\ UNCHANGED <<current, lastChange, conn, via, channel, named, flagged, closeAfter, bounds>>

(* The worker may open the transport after close() came, and a login that   *)
(* the device rejects leaves its transport open.                            *)
ConnectEnds(n) ==
  /\ worker[n] = "connect"
  /\ \/ At(n, "ok") /\ conn' = [conn EXCEPT ![n] = "open"]
     \/ At(n, "error") /\ conn' = [conn EXCEPT ![n] = "open"]
     \/ At(n, "error") /\ UNCHANGED conn
  /\ UNCHANGED <<session, via, channel, named, flagged, closeAfter, pc, loc, started, bounds>>

Newest_Unchecked(l) == TRUE
Newest(l) == l.gen = generation

(* The connection replaces the previous one, which is closed.               *)
Install(t) ==
  /\ pc[t] = "connecting" /\ worker[loc[t].n] = "ok" /\ Newest(loc[t])
  /\ current' = loc[t].n /\ lastChange' = loc[t].n
  /\ Close(current)
  /\ End(t, "ok")
  /\ UNCHANGED <<generation, threads, flagged, closeAfter, started, bounds>>

(* The worker failed, or another authenticate or disconnect came meanwhile. *)
(* (Exceptions that the code does not name, those of a host-key file for    *)
(* example, come before there is a transport, or after it has ended.)       *)
LoginFails(t) ==
  /\ pc[t] = "connecting"
  /\ \/ worker[loc[t].n] = "error"
     \/ worker[loc[t].n] = "ok" /\ ~Newest(loc[t])
  /\ Close(loc[t].n)
  /\ End(t, "failed")
  /\ UNCHANGED <<session, threads, flagged, closeAfter, started, bounds>>

CloseLater_Never(n) == UNCHANGED closeAfter
CloseLater(n) == closeAfter' = closeAfter \cup {n}

(* Cancellation closes now, and again when the worker is done.              *)
CancelLogin(t) ==
  /\ pc[t] = "connecting" /\ cancelled < MaxCancels
  /\ cancelled' = cancelled + 1
  /\ CloseLater(loc[t].n) /\ Close(loc[t].n)
  /\ End(t, "failed")
  /\ UNCHANGED <<session, threads, flagged, started, breaks>>

CloseAfterConnect(n) ==
  /\ n \in closeAfter /\ worker[n] \in Done
  /\ closeAfter' = closeAfter \ {n} /\ Close(n)
  /\ UNCHANGED <<session, threads, flagged, pc, loc, started, bounds>>

Disconnect(t) ==
  /\ Start(t)
  /\ generation' = generation + 1 /\ current' = 0 /\ lastChange' = started + 1
  /\ Close(current)
  /\ End(t, "ok")
  /\ UNCHANGED <<threads, flagged, closeAfter, bounds>>

--------------------------------------------------------------------------------
(* run_command, on the event loop. *)

Connected_Unchecked == TRUE
Connected == current # 0

RunCommand(t) ==
  /\ Start(t) /\ Connected
  /\ At(started + 1, "queued")
  /\ via' = [via EXCEPT ![started + 1] = current]
  /\ Wait(t, "running", 0)
  /\ UNCHANGED <<session, conn, channel, named, flagged, closeAfter, bounds>>

NotConnected(t) ==
  /\ Start(t) /\ ~Connected
  /\ End(t, "failed")
  /\ UNCHANGED <<session, conn, threads, flagged, closeAfter, bounds>>

(* The worker returned; the exit status decides.                            *)
CommandReturns(t) ==
  /\ pc[t] = "running" /\ worker[loc[t].n] = "ok"
  /\ \E at \in {"ok", "failed"} : End(t, at)
  /\ UNCHANGED <<session, conn, threads, flagged, closeAfter, started, bounds>>

Invalidate_Any(c) == 0
Invalidate(c) == IF current = c THEN 0 ELSE current

(* _invalidate_client: the failed client is closed, and forgotten only if   *)
(* no newer one has replaced it.                                            *)
CommandFails(t) ==
  LET c == via[loc[t].n] IN
  /\ pc[t] = "running" /\ worker[loc[t].n] = "error"
  /\ current' = Invalidate(c) /\ Close(c)
  /\ End(t, "failed")
  /\ UNCHANGED <<generation, lastChange, threads, flagged, closeAfter, started, bounds>>

(* A timeout or a cancellation: execution.cancel() sets the event. A worker *)
(* that has not started is dropped with its future.                         *)
StopCommand(t) ==
  LET n == loc[t].n IN
  /\ pc[t] = "running" /\ cancelled < MaxCancels
  /\ cancelled' = cancelled + 1
  /\ flagged' = flagged \cup {n}
  /\ At(n, IF worker[n] = "queued" THEN "error" ELSE worker[n])
  /\ pc' = [pc EXCEPT ![t] = "cancelling"]
  /\ UNCHANGED <<session, conn, via, channel, named, closeAfter, loc, started, breaks>>

(* Then it closes the channel, if the worker has named one.                 *)
CloseChannel(t) ==
  /\ pc[t] = "cancelling"
  /\ channel' = [n \in Ops |-> IF n = loc[t].n /\ n \in named THEN "closed" ELSE channel[n]]
  /\ End(t, "failed")
  /\ UNCHANGED <<session, conn, worker, via, named, flagged, closeAfter, started, bounds>>

--------------------------------------------------------------------------------
(* _exec_command_sync, in the worker thread of command n. *)

onLoop == <<session, conn, via, flagged, closeAfter, pc, loc, started, bounds>>

Begin(n) ==
  /\ worker[n] = "queued"
  /\ At(n, IF n \in flagged THEN "error" ELSE "exec")
  /\ UNCHANGED <<channel, named, onLoop>>

(* client.exec_command opens a channel, if there still is a transport.      *)
Exec(n) ==
  /\ worker[n] = "exec"
  /\ \/ At(n, "error") /\ UNCHANGED channel
     \/ conn[via[n]] = "open" /\ At(n, "opened") /\ channel' = [channel EXCEPT ![n] = "open"]
  /\ UNCHANGED <<named, onLoop>>

NameChannel(n) ==
  /\ worker[n] = "opened"
  /\ named' = named \cup {n}
  /\ At(n, "check")
  /\ UNCHANGED <<channel, onLoop>>

GivenUp_Unchecked(n) == FALSE
GivenUp(n) == n \in flagged

(* The event is read only after the channel has a name, so a cancel() that  *)
(* found no channel to close is seen here.                                  *)
Check(n) ==
  /\ worker[n] = "check"
  /\ At(n, IF GivenUp(n) THEN "error" ELSE "read")
  /\ channel' = [channel EXCEPT ![n] = IF GivenUp(n) THEN "closed" ELSE @]
  /\ UNCHANGED <<named, onLoop>>

(* Reading ends with the output and the exit status, or with an error.      *)
ReadEnds(n) ==
  /\ worker[n] = "read"
  /\ \E at \in {"ok", "error"} : At(n, at)
  /\ channel' = [channel EXCEPT ![n] = "closed"]
  /\ UNCHANGED <<named, onLoop>>

Cut(n) == channel[n] = "closed" \/ (via[n] # 0 /\ conn[via[n]] = "closed")

--------------------------------------------------------------------------------
(* The network: a transport breaks, and the client does not know it yet. *)

TransportBreaks(n) ==
  /\ conn[n] = "open" /\ breaks < MaxBreaks
  /\ breaks' = breaks + 1 /\ Close(n)
  /\ UNCHANGED <<session, threads, flagged, closeAfter, pc, loc, started, cancelled>>

Operation(t) == Authenticate(t) \/ Disconnect(t) \/ RunCommand(t) \/ NotConnected(t)
Resume(t) ==
  Install(t) \/ LoginFails(t) \/ CommandReturns(t) \/ CommandFails(t) \/ CloseChannel(t)
Thread(n) ==
  ConnectEnds(n) \/ Begin(n) \/ Exec(n) \/ NameChannel(n) \/ Check(n) \/ ReadEnds(n)

Next ==
  \/ \E t \in Tasks : Operation(t) \/ Resume(t) \/ CancelLogin(t) \/ StopCommand(t)
  \/ \E n \in Ops : Thread(n) \/ CloseAfterConnect(n) \/ TransportBreaks(n)

(* The event loop resumes a task whose wait is over, and a thread runs on   *)
(* where it does not wait. It waits without a timeout for the answers to    *)
(* exec_command (350) and for the output, but no longer than its channel    *)
(* and its transport are open. Nothing else is fair: hung commands may even *)
(* keep all threads of the executor, so that no other begins.               *)
Fairness ==
  /\ \A t \in Tasks : WF_vars(Resume(t))
  /\ \A n \in Ops : /\ WF_vars(NameChannel(n) \/ Check(n))
                    /\ WF_vars(Cut(n) /\ (Exec(n) \/ ReadEnds(n)))

Spec == Init /\ [][Next]_vars /\ Fairness

--------------------------------------------------------------------------------
(* Properties. *)

(* Every variable holds what its declaration says, a command always has a   *)
(* client to run on, and a task that waits has a worker to wait for.        *)
TypeOK ==
  /\ generation \in 0..started /\ current \in Clients /\ lastChange \in 0..started
  /\ conn \in [Ops -> {"open", "closed"}]
  /\ worker \in [Ops -> Done \cup Commanding \cup {"connect"}]
  /\ via \in [Ops -> Clients]
  /\ channel \in [Ops -> {"none", "open", "closed"}]
  /\ \A n \in Ops : worker[n] \in Commanding => via[n] # 0
  /\ named \subseteq {n \in Ops : channel[n] # "none"}
  /\ {flagged, closeAfter} \subseteq SUBSET (1..started)
  /\ pc \in [Tasks -> Ended \cup {"connecting", "running", "cancelling"}]
  /\ \A t \in Tasks : pc[t] \notin Ended => worker[loc[t].n] # "none"
  /\ started \in 0..MaxOps /\ cancelled \in 0..MaxCancels /\ breaks \in 0..MaxBreaks

(* No transport leaks (ssh_client.py:211-222): an open one is the current   *)
(* client's, or a login that is still going to close or install it.         *)
NoLeakedConnection ==
  \A n \in Ops : conn[n] = "open" =>
    \/ n = current
    \/ n \in closeAfter
    \/ \E t \in Tasks : pc[t] = "connecting" /\ loc[t].n = n

(* A login never undoes a session change made after it began: it does not   *)
(* reconnect after a disconnect, nor replace a newer login (223-231).       *)
NewerChangeWins == [][current' \notin {0, current} => current' > lastChange]_vars

(* Every behaviour is one of SSHRegister: no login but the newest change is *)
(* installed, a command stays with the client it began on, and only that    *)
(* client is forgotten when it fails (223-231, 247-264, 286-288, 335-339).  *)
Register == INSTANCE SSHRegister WITH
  client <- current,
  login <- {loc[t].n : t \in {u \in Tasks : pc[u] = "connecting" /\ Newest(loc[u])}},
  last <- started,
  uses <- [t \in Tasks |-> IF pc[t] = "running" THEN via[loc[t].n] ELSE 0]

ImplementsRegister == Register!RSpec

(* The worker thread of a command that lost its connection ends, and so     *)
(* does that of one that timed out or was cancelled once its channel has    *)
(* been opened, whichever of the loop and the thread comes first            *)
(* (_CommandExecution.cancel, 112-118, against 347-356).                    *)
GivenUpCommandsEnd ==
  \A n \in Ops :
    \/ worker[n] \in {"exec", "opened", "check", "read"} /\ Cut(n)
    \/ worker[n] \in {"opened", "check", "read"} /\ n \in flagged
    ~> worker[n] \in Done
================================================================================
