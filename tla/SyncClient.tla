------------------------------- MODULE SyncClient -------------------------------
(* The blocking client: nanokvm/sync_client.py.                             *)
(*                                                                          *)
(* Threads of the application hand coroutines to an event loop that runs in *)
(* a thread of its own, and poll their futures. Everything a thread asks of *)
(* the loop (to start an operation, to cancel it, to stop) goes through the *)
(* loop's queue of callbacks, in order. What the operations do is the       *)
(* subject of the other modules: here one runs until it ends, with or       *)
(* without an error, or until its cancellation has unwound it.              *)
EXTENDS Naturals, Sequences

CONSTANTS Threads,        \* the application's threads
          Main,           \* the thread that is interrupted by Ctrl-C
          MaxCalls,       \* bound: calls, steps of iterators and closes
          MaxInterrupts   \* bound: interrupts

ASSUME SyncClientAssumption ==
  Main \in Threads /\ {MaxCalls, MaxInterrupts} \subseteq Nat

VARIABLES
  closed,      \* _closed
  loop,        \* _loop and the _thread that runs it
  http,        \* the HTTP session of the client
  ready,       \* the loop's callbacks, in order
  ops,         \* the operations handed to run(), in order
  streams,     \* the asynchronous generators, in order
  pc,          \* where each thread is
  current,     \* the operation each thread is in, or 0
  iterating,   \* the stream each thread iterates over, or 0
  calls, interrupts,  \* so far
  left,        \* history: the streams whose loop was left early
  cut,         \* history: an interrupt hit the constructor or close
  overlap      \* history: the client was closed while another thread used it

callers == <<pc, current, iterating>>
history == <<left, cut, overlap>>
bounds == <<calls, interrupts>>
vars == <<closed, loop, http, ready, ops, streams, callers, bounds, history>>

Done == {"ok", "error"}
Operation ==
  [kind : {"start", "call", "anext", "aclose", "shutdown"}, stream : Nat, by : Threads,
   st : {"new", "queued", "created", "running", "exiting", "cancelling"} \cup Done,
   dropped : BOOLEAN, client : BOOLEAN]
Callback == [do : {"start", "step", "cancel", "stop"}, n : Nat]
Streams == {"fresh", "running", "suspended", "closing", "ended"}

Init ==
  /\ closed = FALSE /\ loop = "none" /\ http = "none"
  /\ ready = <<>> /\ ops = <<>> /\ streams = <<>>
  /\ pc = [t \in Threads |-> "new"]
  /\ current = [t \in Threads |-> 0] /\ iterating = [t \in Threads |-> 0]
  /\ calls = 0 /\ interrupts = 0
  /\ left = {} /\ cut = FALSE /\ overlap = FALSE

Soon(do, n) == <<[do |-> do, n |-> n]>>
Op(t) == ops[current[t]]
Closing(t) == current[t] # 0 /\ Op(t).kind = "shutdown"
Using(t) == pc[t] # "idle" \/ iterating[t] # 0

--------------------------------------------------------------------------------
(* run(). A name that ends in a bug, such as Back_KeepsOperation, is a      *)
(* mutant of the definition that follows it.                                *)

(* The thread's next operation, behind those in os. *)
Run(t, kind, g, client, os) ==
  /\ ops' = Append(os, [kind |-> kind, stream |-> g, by |-> t, st |-> "new",
                        dropped |-> FALSE, client |-> client])
  /\ pc' = [pc EXCEPT ![t] = "submit"]
  /\ current' = [current EXCEPT ![t] = Len(os) + 1]

(* The application goes on; an iterator that raised has ended.              *)
Back_KeepsOperation(t, at, ended) ==
  /\ pc' = [pc EXCEPT ![t] = at] /\ UNCHANGED current
  /\ iterating' = IF ended THEN [iterating EXCEPT ![t] = 0] ELSE iterating

Back(t, at, ended) ==
  /\ pc' = [pc EXCEPT ![t] = at] /\ current' = [current EXCEPT ![t] = 0]
  /\ iterating' = IF ended THEN [iterating EXCEPT ![t] = 0] ELSE iterating

(* A closed client raises; otherwise the coroutine is on its way.           *)
Enter(t, kind, g) ==
  /\ IF closed THEN Back(t, "idle", kind # "call") /\ UNCHANGED ops
     ELSE /\ Run(t, kind, g, TRUE, ops)
          /\ iterating' = IF kind = "anext" THEN [iterating EXCEPT ![t] = g] ELSE iterating
  /\ overlap' = (overlap \/ \E u \in Threads \ {t} : Closing(u) \/ (kind = "shutdown" /\ Using(u)))

(* What follows an operation, when os are the operations and cbs callbacks  *)
(* on their way. The constructor and close stop the loop: a failed start    *)
(* has no client to close, and where another thread has closed the loop,    *)
(* call_soon_threadsafe raises.                                             *)
Continue(t, raised, os, cbs) ==
  CASE Op(t).kind = "start" /\ raised ->
         /\ Run(t, "shutdown", 0, FALSE, os)
         /\ ready' = ready \o cbs
         /\ UNCHANGED <<closed, iterating>>
    [] Op(t).kind = "start" /\ ~raised ->
         /\ pc' = [u \in Threads |-> "idle"] /\ current' = [current EXCEPT ![t] = 0]
         /\ UNCHANGED <<closed, iterating, ready, ops>>
    [] Op(t).kind = "shutdown" /\ loop # "closed" ->
         /\ closed' = TRUE /\ ready' = ready \o cbs \o Soon("stop", 0) /\ ops' = os
         /\ pc' = [pc EXCEPT ![t] = "join"]
         /\ UNCHANGED <<current, iterating>>
    [] OTHER ->
         /\ Back(t, "idle", Op(t).kind = "aclose" \/ (Op(t).kind = "anext" /\ raised))
         /\ ready' = ready \o cbs /\ ops' = os
         /\ UNCHANGED closed

Submit(t) ==
  /\ pc[t] = "submit"
  /\ IF loop = "closed" THEN Continue(t, TRUE, ops, <<>>)
     ELSE /\ ops' = [ops EXCEPT ![current[t]].st = "queued"]
          /\ ready' = ready \o Soon("start", current[t])
          /\ pc' = [pc EXCEPT ![t] = "wait"]
          /\ UNCHANGED <<current, iterating, closed>>
  /\ UNCHANGED <<loop, http, streams, bounds, history>>

(* future.done(): the result or the exception.                              *)
Return(t) ==
  /\ pc[t] = "wait" /\ Op(t).st \in Done
  /\ Continue(t, Op(t).st = "error", ops, <<>>)
  /\ left' = IF Op(t).kind = "aclose" THEN left \cup {Op(t).stream} ELSE left
  /\ UNCHANGED <<loop, http, streams, bounds, cut, overlap>>

Joined(t) ==
  /\ pc[t] = "join" /\ loop \in {"ended", "closed"}
  /\ loop' = "closed"
  /\ Back(t, IF Op(t).client THEN "idle" ELSE "failed", FALSE)
  /\ UNCHANGED <<closed, http, ready, ops, streams, bounds, history>>

(* Ctrl-C while a thread polls: future.cancel() has the loop cancel a task  *)
(* that exists and has not ended; the caller does not wait for it to        *)
(* unwind. In join the loop is left as it is.                               *)
CancelTask_Never(n) == <<>>
CancelTask(n) ==
  IF ops[n].st \in {"created", "running", "exiting"} THEN Soon("cancel", n) ELSE <<>>

Interrupt ==
  /\ interrupts < MaxInterrupts /\ interrupts' = interrupts + 1
  /\ \/ /\ pc[Main] = "wait"
        /\ LET n == current[Main]
           IN Continue(Main, TRUE, [ops EXCEPT ![n].dropped = ops[n].st \notin Done], CancelTask(n))
     \/ /\ pc[Main] = "join"
        /\ Back(Main, IF Op(Main).client THEN "idle" ELSE "failed", FALSE)
        /\ UNCHANGED <<closed, ops, ready>>
  /\ cut' = (cut \/ Op(Main).kind \in {"start", "shutdown"})
  /\ UNCHANGED <<loop, http, streams, calls, left, overlap>>

--------------------------------------------------------------------------------
(* The application. Its calls inside a for loop over a stream are calls too.*)

Construct ==
  /\ pc[Main] = "new"
  /\ loop' = "running"
  /\ Run(Main, "start", 0, FALSE, ops)
  /\ UNCHANGED <<closed, http, ready, streams, iterating, bounds, history>>

MayCall(t) == pc[t] = "idle" /\ calls < MaxCalls /\ calls' = calls + 1

Call(t) ==
  /\ MayCall(t)
  /\ Enter(t, "call", 0)
  /\ UNCHANGED <<closed, loop, http, ready, streams, interrupts, left, cut>>

(* The next step of an iterator, or the first of a new one.                 *)
NextItem(t) ==
  /\ MayCall(t)
  /\ IF iterating[t] # 0 THEN Enter(t, "anext", iterating[t]) /\ UNCHANGED streams
     ELSE Enter(t, "anext", Len(streams) + 1) /\ streams' = Append(streams, "fresh")
  /\ UNCHANGED <<closed, loop, http, ready, interrupts, left, cut>>

(* GeneratorExit at the yield: the loop was left early.                     *)
Leave(t) ==
  /\ pc[t] = "idle" /\ iterating[t] # 0
  /\ Enter(t, "aclose", iterating[t])
  /\ left' = IF closed THEN left \cup {iterating[t]} ELSE left
  /\ UNCHANGED <<closed, loop, http, ready, streams, bounds, cut>>

(* close(), or leaving the with block. Repeated calls do nothing.           *)
Close(t) ==
  /\ MayCall(t) /\ ~closed
  /\ Enter(t, "shutdown", 0)
  /\ UNCHANGED <<closed, loop, http, ready, streams, interrupts, left, cut>>

--------------------------------------------------------------------------------
(* The event loop's thread. stop() ends it: what its last iteration still   *)
(* runs after that might as well have run before.                           *)

(* The first step of an operation. A stream that has ended stays ended.     *)
Touch(n) ==
  LET g == ops[n].stream
  IN /\ ops' = [ops EXCEPT ![n].st = IF ops[n].kind = "anext" /\ streams[g] = "ended"
                                     THEN "error" ELSE "running"]
     /\ streams' = IF g # 0 /\ streams[g] # "ended"
                   THEN [streams EXCEPT ![g] = "running"] ELSE streams

RunReady ==
  /\ loop = "running" /\ ready # <<>>
  /\ LET n == Head(ready).n
     IN \/ /\ Head(ready).do = "start"
           /\ ready' = Tail(ready) \o Soon("step", n)
                       \o IF ops[n].dropped THEN Soon("cancel", n) ELSE <<>>
           /\ ops' = [ops EXCEPT ![n].st = "created"]
           /\ UNCHANGED <<loop, streams>>
        \/ /\ Head(ready).do = "step"
           /\ ready' = Tail(ready)
           /\ Touch(n)
           /\ UNCHANGED loop
        \/ /\ Head(ready).do = "cancel"
           /\ ready' = Tail(ready)
           /\ ops' = [ops EXCEPT ![n].st = IF @ \in Done THEN @ ELSE "cancelling"]
           /\ UNCHANGED <<loop, streams>>
        \/ /\ Head(ready).do = "stop"
           /\ loop' = "ended" /\ ready' = Tail(ready)
           /\ UNCHANGED <<ops, streams>>
  /\ UNCHANGED <<closed, http, callers, bounds, history>>

(* _shutdown closes the streams that wait at a yield, then the client. (A   *)
(* stream in the middle of a step refuses.)                                 *)
Shutdown_ClientOnly(n) ==
  /\ ops[n].st = "running" /\ ops' = [ops EXCEPT ![n].st = "ok"]
  /\ http' = IF ops[n].client THEN "closed" ELSE http
  /\ UNCHANGED streams

Shutdown(n) ==
  \/ /\ ops[n].st = "running" /\ ops' = [ops EXCEPT ![n].st = "exiting"]
     /\ streams' = [g \in DOMAIN streams |->
                      IF streams[g] = "suspended" THEN "ended" ELSE streams[g]]
     /\ UNCHANGED http
  \/ /\ ops[n].st = "exiting" /\ ops' = [ops EXCEPT ![n].st = "ok"]
     /\ http' = IF ops[n].client THEN "closed" ELSE http
     /\ UNCHANGED streams

(* An operation ends: a step of a stream waits at the next yield, or the    *)
(* stream has ended; an operation that is cancelled unwinds.                *)
Finish(n) ==
  /\ loop = "running"
  /\ \/ ops[n].kind = "shutdown" /\ Shutdown(n)
     \/ \E st \in Done :
          /\ \/ ops[n].kind # "shutdown" /\ ops[n].st = "running"
             \/ st = "error" /\ ops[n].st = "cancelling"
          /\ ops' = [ops EXCEPT ![n].st = st]
          /\ http' = IF ops[n].kind = "start" /\ st = "ok" THEN "open" ELSE http
          /\ streams' = IF ops[n].stream = 0 THEN streams
                        ELSE [streams EXCEPT ![ops[n].stream] =
                                IF ops[n].kind = "anext" /\ st = "ok" THEN "suspended" ELSE "ended"]
  /\ UNCHANGED <<closed, loop, ready, callers, bounds, history>>

(* A callback of the operation, such as its progress callback, calls the    *)
(* client: run() refuses on the loop's own thread, for it would wait for    *)
(* itself.                                                                  *)
Reenter_Waits(n) ==
  /\ loop = "running" /\ ops[n].kind = "call" /\ ops[n].st = "running"
  /\ loop' = "blocked"
  /\ UNCHANGED <<closed, http, ready, ops, streams, callers, bounds, history>>

Reenter(n) ==
  /\ loop = "running" /\ ops[n].kind = "call" /\ ops[n].st = "running"
  /\ ops' = [ops EXCEPT ![n].st = "error"]
  /\ UNCHANGED <<closed, loop, http, ready, streams, callers, bounds, history>>

(* The iterator of a stream that waits at a yield went with an exception:   *)
(* the loop closes the stream when it is collected.                         *)
Collect(g) ==
  /\ loop = "running" /\ streams[g] \in {"suspended", "closing"}
  /\ \A t \in Threads : iterating[t] # g
  /\ streams' = [streams EXCEPT ![g] = IF @ = "suspended" THEN "closing" ELSE "ended"]
  /\ UNCHANGED <<closed, loop, http, ready, ops, callers, bounds, history>>

Operations == \E n \in DOMAIN ops : Finish(n)
Application(t) == Call(t) \/ NextItem(t) \/ Leave(t) \/ Close(t)
Proceed(t) == Submit(t) \/ Return(t) \/ Joined(t)

Next ==
  \/ Construct \/ Interrupt
  \/ \E t \in Threads : Application(t) \/ Proceed(t)
  \/ RunReady \/ Operations
  \/ \E n \in DOMAIN ops : Reenter(n)
  \/ \E g \in DOMAIN streams : Collect(g)

(* Threads are scheduled, the loop runs its callbacks, and every operation  *)
(* of the asynchronous client ends: its requests have timeouts.             *)
Spec ==
  /\ Init /\ [][Next]_vars
  /\ \A t \in Threads : WF_vars(Proceed(t))
  /\ WF_vars(RunReady) /\ WF_vars(Operations)

--------------------------------------------------------------------------------
(* Properties. *)

(* Every variable holds what its declaration says; exactly the threads that *)
(* wait have an operation, and no callback names one that does not exist.   *)
TypeOK ==
  /\ {closed, cut, overlap} \subseteq BOOLEAN
  /\ loop \in {"none", "running", "ended", "closed"} /\ http \in {"none", "open", "closed"}
  /\ ready \in Seq(Callback) /\ ops \in Seq(Operation) /\ streams \in Seq(Streams)
  /\ pc \in [Threads -> {"new", "failed", "idle", "submit", "wait", "join"}]
  /\ current \in [Threads -> 0..Len(ops)] /\ iterating \in [Threads -> 0..Len(streams)]
  /\ \A t \in Threads : pc[t] \in {"submit", "wait", "join"} <=> current[t] # 0
  /\ \A i \in DOMAIN ready : ready[i].do = "stop" \/ ready[i].n \in DOMAIN ops
  /\ left \subseteq DOMAIN streams

(* A call returns, raises or is interrupted: only a close by another thread *)
(* can stop the loop under it (sync_client.py:88, 197).                     *)
CallsEnd ==
  \A t \in Threads :
    pc[t] \in {"wait", "join"} ~>
      pc[t] \in {"idle", "failed"} \/ (overlap /\ loop \in {"ended", "closed"})

(* docs/sync.md:31, "Ctrl-C cancels the operation in progress": by the time *)
(* a later operation of the thread runs, the interrupted one has ended or   *)
(* is unwinding.                                                            *)
InterruptComesFirst ==
  \A n, k \in DOMAIN ops :
    /\ n < k /\ ops[n].by = ops[k].by
    /\ ops[n].dropped /\ ops[k].st \notin {"new", "queued", "created"}
    => ops[n].st \in Done \cup {"cancelling"}

(* docs/sync.md:26, "Leaving the loop early closes the stream": it has      *)
(* ended when the caller goes on. And a client that was closed, or could    *)
(* not start, has no stream that still waits, no HTTP session and no loop   *)
(* (sync_client.py:185, 192). Unless an interrupt hit the constructor or    *)
(* close, or another thread used the client while it was closed.            *)
Closed == closed /\ \A t \in Threads : pc[t] \in {"idle", "failed", "new"}
NothingStaysOpen ==
  \/ cut \/ overlap
  \/ /\ \A g \in left : streams[g] = "ended"
     /\ Closed => /\ loop = "closed" /\ http # "open"
                  /\ \A g \in DOMAIN streams : streams[g] # "suspended"
================================================================================
